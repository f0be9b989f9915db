---------------------------- MODULE ControllersProofs ----------------------------
(***************************************************************************)
(* Proofs about controllers: the arguments that handlers are called with,  *)
(* for any declarations of their methods; the one answer of a request, for *)
(* any middlewares and advices around its method; what the sessions of MCP *)
(* servers have of their controllers; and that routes are reached.         *)
(***************************************************************************)
EXTENDS MCControllers, FiniteSetTheorems, SequenceTheorems, WellFoundedInduction, TLAPS

-----------------------------------------------------------------------------
(* Metadata *)

\* What a parameter of a kind of decorator may be noted as.
NotedTypes(k) == IF k = "httpParamType" THEN HTTPParamTypes ELSE WebSocketParamTypes

\* An own map points to inner maps of its own key and method, whichever class made them.
MapsInv ==
  /\ DOMAIN own = Classes /\ \A c \in Classes : DOMAIN own[c] = Keys
  /\ \A c \in Classes, k \in NestedKeys : own[c][k] # Undefined =>
       own[c][k] \in [Methods -> (Classes \X {k} \X Methods) \cup {Undefined}]
  /\ cells \in [Classes \X NestedKeys \X Methods -> [Indices -> ParamTypes \cup {Undefined}]]
  /\ \A c \in Classes, k \in NestedKeys, m \in Methods, i \in Indices :
       cells[<<c, k, m>>][i] \in NotedTypes(k) \cup {Undefined}
  /\ length \in [Classes -> [Methods -> (0 .. MaxIndex + 1) \cup {Undefined}]]
  /\ controllerType \in [Classes -> Kinds \cup {Undefined}]

Binds(fn, i) == fn.paramMap[i] # Undefined \/ i = fn.contextParamIndex

\* A method that was checked binds its parameters without a gap, to what there is.
Sound(fn) ==
  /\ \A i \in Indices :
       i < fn.length \/ (\E j \in Indices : j > i /\ Binds(fn, j)) => Binds(fn, i)
  /\ \A i \in Indices : fn.paramMap[i] # Undefined =>
       /\ fn.paramMap[i] # "nothing" /\ fn.paramMap[i] \in Payload(fn, "egg")
       /\ fn.paramMap[i] \in Payload(fn, "worker") \cup {"COOKIES"}

BuiltInv ==
  /\ DOMAIN built = Classes
  /\ \A c \in Classes : built[c] # Undefined /\ built[c].valid =>
       \A fn \in built[c].methods : Sound(fn)

CalledInv ==
  call # Undefined =>
    \E fn : /\ Sound(fn) /\ call.method = fn /\ call.host \in {"egg", "worker"}
                /\ call.args = BuildMethodArgs(fn, call.host)

MetaInv == MapsInv /\ BuiltInv /\ CalledInv

LEMMA InitMeta == Init => MetaInv
<1> SUFFICES ASSUME Init PROVE MetaInv
  OBVIOUS
<1>1. MapsInv
  <2>1. /\ DOMAIN own = Classes /\ \A c \in Classes : DOMAIN own[c] = Keys
        /\ \A c \in Classes, k \in NestedKeys : own[c][k] = Undefined
    BY DEF Init, Keys
  <2>2. /\ cells \in [Classes \X NestedKeys \X Methods -> [Indices -> ParamTypes \cup {Undefined}]]
        /\ \A c \in Classes, k \in NestedKeys, m \in Methods, i \in Indices :
             cells[<<c, k, m>>][i] = Undefined
    BY DEF Init, NoParams
  <2>3. length \in [Classes -> [Methods -> (0 .. MaxIndex + 1) \cup {Undefined}]]
    BY DEF Init
  <2>4. controllerType \in [Classes -> Kinds \cup {Undefined}]
    BY DEF Init
  <2> QED BY <2>1, <2>2, <2>3, <2>4 DEF MapsInv
<1>2. BuiltInv /\ CalledInv
  BY DEF Init, BuiltInv, CalledInv
<1> QED BY <1>1, <1>2 DEF MetaInv

\* What a class has for a key and a method: nothing, or an inner map.
LEMMA MapOf ==
  ASSUME MapsInv, NEW c \in Classes, NEW k \in NestedKeys
  PROVE  GetMetaData(c, k) \in [Methods -> (Classes \X {k} \X Methods) \cup {Undefined}]
<1>1. "parent" \in Classes
  BY DEF Classes
<1>2. NoMap \in [Methods -> (Classes \X {k} \X Methods) \cup {Undefined}]
  BY DEF NoMap
<1> QED BY <1>1, <1>2 DEF MapsInv, GetMetaData

\* The types that are noted of a method's parameters.
LEMMA ParamsOf ==
  ASSUME MapsInv, NEW c \in Classes, NEW k \in NestedKeys, NEW m \in Methods
  PROVE  /\ ParamMap(c, k, m) \in [Indices -> ParamTypes \cup {Undefined}]
         /\ \A i \in Indices : ParamMap(c, k, m)[i] \in NotedTypes(k) \cup {Undefined}
<1> DEFINE cell == GetMetaData(c, k)[m]
<1>1. cell \in (Classes \X {k} \X Methods) \cup {Undefined}
  BY MapOf
<1>2. CASE cell = Undefined
  BY <1>2 DEF ParamMap, NoParams
<1>3. CASE cell # Undefined
  <2>1. PICK d \in Classes, n \in Methods : cell = <<d, k, n>>
    BY <1>1, <1>3
  <2>2. ParamMap(c, k, m) = cells[<<d, k, n>>]
    BY <1>3, <2>1 DEF ParamMap
  <2> QED BY <2>1, <2>2 DEF MapsInv
<1> QED BY <1>2, <1>3

LEMMA DeclareKeeps ==
  ASSUME MetaInv, NEW c \in Classes, NEW m \in Methods, NEW d \in Declarations, Declare(c, m, d)
  PROVE  MapsInv'
<1>1. /\ d.length \in 0 .. MaxIndex + 1
      /\ d.httpParamType \in [Indices -> HTTPParamTypes \cup {Undefined}]
      /\ d.webSocketParamType \in [Indices -> WebSocketParamTypes \cup {Undefined}]
  BY ControllerMetaAssumption
<1>2. \A k \in NestedKeys, i \in Indices : d[k][i] \in NotedTypes(k) \cup {Undefined}
  BY <1>1 DEF NestedKeys, NotedTypes
<1>3. \A k \in NestedKeys : NotedTypes(k) \subseteq ParamTypes
  <2>1. HTTPParamTypes \subseteq ParamTypes /\ WebSocketParamTypes \subseteq ParamTypes
    BY DEF ParamTypes
  <2> QED BY <2>1 DEF NotedTypes
<1>4. length' \in [Classes -> [Methods -> (0 .. MaxIndex + 1) \cup {Undefined}]]
  BY <1>1 DEF Declare, MetaInv, MapsInv
<1>5. \A e \in Classes : own'[e] = IF e = c
        THEN [k \in Keys |-> IF ~Decorated(d, k) THEN own[c][k]
                ELSE SetOwn(c, k, m, IF k \in NestedKeys THEN Cell(c, k, m) ELSE d[k])]
        ELSE own[e]
  BY DEF Declare, MetaInv, MapsInv
<1>6. DOMAIN own' = Classes /\ \A e \in Classes : DOMAIN own'[e] = Keys
  BY <1>5 DEF Declare, MetaInv, MapsInv
<1>7. ASSUME NEW e \in Classes, NEW k \in NestedKeys, own'[e][k] # Undefined
      PROVE  own'[e][k] \in [Methods -> (Classes \X {k} \X Methods) \cup {Undefined}]
  <2>1. k \in Keys
    BY DEF Keys
  <2>2. CASE e = c /\ Decorated(d, k)
    <3>1. own'[e][k] = [GetMetaData(c, k) EXCEPT ![m] = Cell(c, k, m)]
      BY <1>5, <2>1, <2>2 DEF SetOwn
    <3>2. GetMetaData(c, k) \in [Methods -> (Classes \X {k} \X Methods) \cup {Undefined}]
      BY MapOf DEF MetaInv
    <3>3. Cell(c, k, m) \in (Classes \X {k} \X Methods) \cup {Undefined}
      BY <3>2 DEF Cell
    <3> QED BY <3>1, <3>2, <3>3
  <2>3. CASE ~(e = c /\ Decorated(d, k))
    <3>1. own'[e][k] = own[e][k]
      BY <1>5, <2>1, <2>3
    <3> QED BY <1>7, <3>1 DEF MetaInv, MapsInv
  <2> QED BY <2>2, <2>3
<1>8. ASSUME NEW e \in Classes, NEW k \in NestedKeys, NEW n \in Methods
      PROVE  /\ cells'[<<e, k, n>>] \in [Indices -> ParamTypes \cup {Undefined}]
             /\ \A i \in Indices : cells'[<<e, k, n>>][i] \in NotedTypes(k) \cup {Undefined}
  <2> DEFINE r == <<e, k, n>>
  <2>1. r \in Classes \X NestedKeys \X Methods /\ r[2] = k
    OBVIOUS
  <2>2. cells'[r] = IF \E l \in NestedKeys : Decorated(d, l) /\ r = Cell(c, l, m)
                    THEN [i \in Indices |-> IF d[k][i] # Undefined THEN d[k][i] ELSE cells[r][i]]
                    ELSE cells[r]
    BY <2>1 DEF Declare, MetaInv, MapsInv
  <2>3. /\ cells[r] \in [Indices -> ParamTypes \cup {Undefined}]
        /\ \A i \in Indices : cells[r][i] \in NotedTypes(k) \cup {Undefined}
    BY <2>1 DEF MetaInv, MapsInv
  <2> QED BY <1>2, <1>3, <2>2, <2>3
<1>9. cells' \in [Classes \X NestedKeys \X Methods -> [Indices -> ParamTypes \cup {Undefined}]]
  <2>1. \A r \in Classes \X NestedKeys \X Methods : cells'[r] \in [Indices -> ParamTypes \cup {Undefined}]
    BY <1>8
  <2>2. /\ DOMAIN cells = Classes \X NestedKeys \X Methods
        /\ cells' = [r \in DOMAIN cells |-> cells'[r]]
    BY DEF Declare, MetaInv, MapsInv
  <2> QED BY <2>1, <2>2
<1>10. controllerType' \in [Classes -> Kinds \cup {Undefined}]
  BY DEF Declare, MetaInv, MapsInv
<1> QED BY <1>4, <1>6, <1>7, <1>8, <1>9, <1>10 DEF MapsInv

-----------------------------------------------------------------------------
(* What the builders check *)

\* Where as many parameters are bound as those that are annotated, and the context,
\* every one of them is before the others.
LEMMA NoGap ==
  ASSUME NEW map \in [Indices -> ParamTypes \cup {Undefined}], NEW len \in Nat, NEW context,
         ParamsAreChecked(len, Annotated(map), Annotated(map), context),
         NEW i \in Indices,
         i < len \/ \E j \in Indices : j > i /\ (map[j] # Undefined \/ j = context)
  PROVE  map[i] # Undefined \/ i = context
<1> DEFINE A == Annotated(map)
           bound == IF context = Undefined THEN A ELSE A \cup {context}
           max == MaxParamCount(len, A, context)
<1>1. Indices \subseteq Int /\ i \in Nat /\ Undefined \notin Indices
  BY ControllerMetaAssumption DEF Indices
<1>2. IsFiniteSet(A) /\ Cardinality(A) \in Nat
  <2>1. A \subseteq Indices
    BY DEF Annotated
  <2>2. IsFiniteSet(Indices)
    <3>1. 0 \in Int /\ MaxIndex \in Int
      BY ControllerMetaAssumption
    <3> QED BY <3>1, FS_Interval DEF Indices
  <2> QED BY <2>1, <2>2, FS_Subset, FS_CardinalityType
<1>3. IsFiniteSet(bound) /\ Cardinality(bound) \in Nat /\ max \in Nat
      /\ len <= max /\ Cardinality(bound) <= max
  <2>1. IsFiniteSet(A \cup {context}) /\ Cardinality(A \cup {context}) <= Cardinality(A) + 1
        /\ Cardinality(A \cup {context}) \in Nat
    BY <1>2, FS_AddElement
  <2> QED BY <1>2, <2>1 DEF MaxParamCount, Larger
<1>4. \A j \in 0 .. max - 1 : j = context \/ j \in A
  BY DEF ParamsAreChecked
<1>5. SUFFICES ASSUME ~(map[i] # Undefined \/ i = context) PROVE FALSE
  OBVIOUS
<1>6. max <= i
  <2>1. i \notin A /\ i # context
    BY <1>5 DEF Annotated
  <2> HIDE DEF A, max
  <2> QED BY <1>1, <1>3, <1>4, <2>1
<1>7. PICK j \in Indices : j > i /\ (map[j] # Undefined \/ j = context)
  <2> HIDE DEF A, bound, max
  <2>1. len \in Int => ~(i < len)
    BY <1>1, <1>3, <1>6
  <2> QED BY <1>3, <2>1
<1>8. 0 .. max - 1 \subseteq bound
  <2> SUFFICES ASSUME NEW k \in 0 .. max - 1 PROVE k \in bound
    OBVIOUS
  <2>1. k # Undefined
    BY ControllerMetaAssumption
  <2> QED BY <1>4, <2>1
<1>9. j \in bound \ (0 .. max - 1)
  <2>1. j \in Int /\ j >= max /\ j # Undefined
    BY <1>1, <1>3, <1>6, <1>7
  <2>2. j \in A \/ j = context
    BY <1>7 DEF Annotated
  <2> QED BY <1>3, <2>1, <2>2
<1>10. Cardinality(0 .. max - 1) = max
  BY <1>3, FS_Interval
<1>11. Cardinality(0 .. max - 1) < Cardinality(bound)
  <2> DEFINE before == 0 .. max - 1
  <2>1. before # bound /\ before \subseteq bound
    BY <1>8, <1>9
  <2>2. Cardinality(before) <= Cardinality(bound) /\ Cardinality(before) # Cardinality(bound)
    BY <1>3, <2>1, FS_Subset
  <2> QED BY <1>3, <1>10, <2>2
<1> QED BY <1>3, <1>10, <1>11

\* The types of a compatible map are noted for WebSockets, or of HTTP and common.
LEMMA CompatibleTypes ==
  ASSUME MapsInv, NEW c \in Classes, NEW m \in Methods, NEW i \in Indices
  PROVE  CompatibleParamMap(c, m)[i] \in
           WebSocketParamTypes \cup {"PARAM", "QUERY", "QUERIES", "HEADERS", "REQUEST", Undefined}
<1>1. "webSocketParamType" \in NestedKeys
  BY DEF NestedKeys
<1>2. ParamMap(c, "webSocketParamType", m)[i] \in WebSocketParamTypes \cup {Undefined}
  BY <1>1, ParamsOf DEF NotedTypes
<1> QED BY <1>2 DEF CompatibleParamMap, FromHTTPParamType

\* What is bound to a method that was checked is brought to it.
LEMMA PayloadIsBrought ==
  ASSUME MapsInv, NEW c \in Classes, NEW m \in Methods, NEW kind \in Kinds,
         ParamTypesAreValid(c, m, kind),
         NEW i \in Indices, MethodMeta(c, m, kind).paramMap[i] # Undefined
  PROVE  LET fn == MethodMeta(c, m, kind) IN
         /\ fn.paramMap[i] # "nothing" /\ fn.paramMap[i] \in Payload(fn, "egg")
         /\ fn.paramMap[i] \in Payload(fn, "worker") \cup {"COOKIES"}
<1> DEFINE fn == MethodMeta(c, m, kind)
           t == fn.paramMap[i]
<1>1. /\ fn.kind = kind /\ fn.paramMap = ParamTypeMap(c, m, kind)
      /\ kind = "WEBSOCKET_FETCH" => fn.type = FetchType(c, m)
  BY DEF MethodMeta
<1>2. t \in {ParamTypeMap(c, m, kind)[j] : j \in Annotated(ParamTypeMap(c, m, kind))}
  BY <1>1 DEF Annotated
<1>3. CASE kind = "HTTP"
  <2>1. "httpParamType" \in NestedKeys
    BY DEF NestedKeys
  <2>2. t \in HTTPParamTypes
    BY <1>1, <1>3, <2>1, ParamsOf DEF NotedTypes, ParamTypeMap
  <2> QED BY <1>1, <1>3, <2>2 DEF Payload, WorkerTypes, HTTPParamTypes
<1>4. CASE kind = "WEBSOCKET"
  <2>1. t \in WebSocketParamTypes \cup {"PARAM", "QUERY", "QUERIES", "HEADERS", "REQUEST"}
    BY <1>1, <1>4, CompatibleTypes DEF ParamTypeMap
  <2>2. t \notin FetchOnlyParamTypes
    BY <1>2, <1>4 DEF ParamTypesAreValid
  <2> QED BY <1>1, <1>4, <2>1, <2>2
         DEF Payload, WebSocketParamTypes, FetchOnlyParamTypes, CommonParamTypes
<1>5. CASE kind = "WEBSOCKET_FETCH"
  <2>1. t \in AllowedParamTypes(fn.type)
    BY <1>1, <1>2, <1>5 DEF ParamTypesAreValid
  <2> QED BY <1>1, <1>5, <2>1
         DEF Payload, AllowedParamTypes, CommonParamTypes, FetchPayload
<1> QED BY <1>3, <1>4, <1>5 DEF Kinds

LEMMA CheckedIsSound ==
  ASSUME MapsInv, NEW c \in Classes, NEW kind \in Kinds, NEW m \in BuiltMethods(c, kind),
         ParamTypesAreValid(c, m, kind)
  PROVE  Sound(MethodMeta(c, m, kind))
<1> DEFINE fn == MethodMeta(c, m, kind)
           map == ParamTypeMap(c, m, kind)
<1>1. /\ fn.paramMap = map /\ fn.length = Length(c, m)
      /\ fn.contextParamIndex = ContextIndex(c, m)
  BY DEF MethodMeta
<1>2. m \in Methods /\ Length(c, m) # Undefined
  BY DEF BuiltMethods, MethodsOf
<1>3. Length(c, m) \in Nat
  BY <1>2, ControllerMetaAssumption DEF MapsInv, Length, Classes
<1>4. map \in [Indices -> ParamTypes \cup {Undefined}]
  <2>1. CASE kind = "HTTP"
    BY <1>2, <2>1, ParamsOf DEF ParamTypeMap, NestedKeys
  <2>2. CASE kind # "HTTP"
    <3>1. map = CompatibleParamMap(c, m)
      BY <2>2 DEF ParamTypeMap
    <3>2. \A i \in Indices : CompatibleParamMap(c, m)[i] \in ParamTypes \cup {Undefined}
      BY <1>2, CompatibleTypes DEF ParamTypes, HTTPParamTypes
    <3> QED BY <3>1, <3>2 DEF CompatibleParamMap
  <2> QED BY <2>1, <2>2
<1>5. ParamsAreChecked(Length(c, m), Annotated(map), Annotated(map), ContextIndex(c, m))
  BY DEF ParamTypesAreValid
<1>6. ASSUME NEW i \in Indices,
             i < fn.length \/ (\E j \in Indices : j > i /\ Binds(fn, j))
      PROVE  Binds(fn, i)
  BY <1>1, <1>3, <1>4, <1>5, <1>6, NoGap DEF Binds
<1> QED BY <1>2, <1>6, PayloadIsBrought DEF Sound

-----------------------------------------------------------------------------
(* The invariant is inductive *)

LEMMA NextMeta == MetaInv /\ [Next]_vars => MetaInv'
<1> SUFFICES ASSUME MetaInv, [Next]_vars PROVE MetaInv'
  OBVIOUS
<1>1. ASSUME NEW c \in Classes, NEW m \in Methods, NEW d \in Declarations, Declare(c, m, d)
      PROVE  MetaInv'
  <2>1. UNCHANGED <<built, call>>
    BY <1>1 DEF Declare
  <2>2. MapsInv'
    BY <1>1, DeclareKeeps
  <2> QED BY <2>1, <2>2 DEF MetaInv, BuiltInv, CalledInv
<1>2. ASSUME NEW c \in Classes, NEW kind \in Kinds \cup {Undefined}, DecorateClass(c, kind)
      PROVE  MetaInv'
  <2>1. UNCHANGED <<length, own, cells, built, call>>
    BY <1>2 DEF DecorateClass
  <2>2. controllerType' \in [Classes -> Kinds \cup {Undefined}]
    BY <1>2 DEF DecorateClass, MetaInv, MapsInv
  <2> QED BY <2>1, <2>2 DEF MetaInv, MapsInv, BuiltInv, CalledInv
<1>3. ASSUME NEW c \in Classes, Build(c) PROVE MetaInv'
  <2>1. UNCHANGED <<length, own, cells, controllerType, call>>
    BY <1>3 DEF Build
  <2>2. MapsInv' /\ CalledInv'
    BY <2>1 DEF MetaInv, MapsInv, CalledInv
  <2>3. PICK kind \in Kinds : kind = controllerType[c]
    BY <1>3 DEF Build, MetaInv, MapsInv
  <2>4. /\ DOMAIN built' = Classes /\ \A e \in Classes : e # c => built'[e] = built[e]
        /\ built'[c].valid => \A m \in BuiltMethods(c, kind) : ParamTypesAreValid(c, m, kind)
        /\ built'[c].methods = {MethodMeta(c, m, kind) : m \in BuiltMethods(c, kind)}
    BY <1>3, <2>3 DEF Build, MetaInv, BuiltInv
  <2>5. BuiltInv'
    BY <2>4, CheckedIsSound DEF MetaInv, BuiltInv
  <2> QED BY <2>2, <2>5 DEF MetaInv
<1>4. ASSUME NEW c \in Classes, NEW h \in {"egg", "worker"}, Call(c, h) PROVE MetaInv'
  <2>1. UNCHANGED <<length, own, cells, controllerType, built>>
    BY <1>4 DEF Call
  <2>2. MapsInv' /\ BuiltInv'
    BY <2>1 DEF MetaInv, MapsInv, BuiltInv
  <2>3. CalledInv'
    <3>1. PICK fn \in built[c].methods :
            call' = [method |-> fn, host |-> h, args |-> BuildMethodArgs(fn, h)]
      BY <1>4 DEF Call
    <3>2. Sound(fn)
      BY <1>4 DEF Call, MetaInv, BuiltInv
    <3>3. Sound(fn) /\ call'.method = fn /\ call'.host \in {"egg", "worker"}
          /\ call'.args = BuildMethodArgs(fn, call'.host)
      BY <3>1, <3>2
    <3> QED BY <3>3 DEF CalledInv
  <2> QED BY <2>2, <2>3 DEF MetaInv
<1>5. CASE UNCHANGED vars
  BY <1>5 DEF vars, MetaInv, MapsInv, BuiltInv, CalledInv
<1> QED BY <1>1, <1>2, <1>3, <1>4, <1>5 DEF Next

LEMMA MetaHolds == MetaInv => HandlersGetWhatTheyBind
<1> SUFFICES ASSUME MetaInv, call # Undefined PROVE HandlersGetWhatTheyBind
  BY DEF HandlersGetWhatTheyBind, ArgumentsAreBound, PayloadIsThere
<1>1. PICK fn : /\ Sound(fn) /\ call.method = fn
                    /\ call.host \in {"egg", "worker"}
                    /\ call.args = BuildMethodArgs(fn, call.host)
  BY DEF MetaInv, CalledInv
<1>2. ASSUME NEW i \in Indices
      PROVE  /\ fn.paramMap[i] # Undefined /\ fn.paramMap[i] \in Payload(fn, call.host)
                  => call.args[i] = fn.paramMap[i]
             /\ fn.paramMap[i] # Undefined /\ fn.paramMap[i] \notin Payload(fn, call.host)
                  => call.args[i] = "nothing"
             /\ fn.paramMap[i] = Undefined =>
                  call.args[i] = IF i = fn.contextParamIndex THEN "context" ELSE Undefined
  BY <1>1 DEF BuildMethodArgs
<1>3. \A i \in Indices : call.args[i] # Undefined <=> Binds(fn, i)
  BY <1>2, ControllerMetaAssumption DEF Binds
<1>4. ArgumentsAreBound
  BY <1>1, <1>3 DEF ArgumentsAreBound, Sound
<1>5. PayloadIsThere
  <2> SUFFICES ASSUME NEW i \in Indices, call.args[i] = "nothing"
               PROVE  call.host = "worker" /\ fn.paramMap[i] = "COOKIES"
    BY <1>1 DEF PayloadIsThere
  <2>1. fn.paramMap[i] # Undefined
    BY <1>2, ControllerMetaAssumption
  <2>2. fn.paramMap[i] \notin Payload(fn, call.host)
    BY <1>1, <1>2, <2>1 DEF Sound
  <2> QED BY <1>1, <2>1, <2>2 DEF Sound
<1> QED BY <1>4, <1>5 DEF HandlersGetWhatTheyBind

-----------------------------------------------------------------------------
(* The chain of a request *)

\* Two sequences without a common element, in one.
LEMMA Joined ==
  ASSUME NEW S, NEW s \in Seq(S), NEW t \in Seq(S),
         \A j, k \in DOMAIN s : s[j] = s[k] => j = k,
         \A j, k \in DOMAIN t : t[j] = t[k] => j = k,
         \A j \in DOMAIN s, k \in DOMAIN t : s[j] # t[k]
  PROVE  /\ s \o t \in Seq(S) /\ Len(s \o t) = Len(s) + Len(t)
         /\ DOMAIN s = 1 .. Len(s) /\ DOMAIN t = 1 .. Len(t) /\ Len(s) \in Nat /\ Len(t) \in Nat
         /\ DOMAIN (s \o t) = 1 .. Len(s) + Len(t)
         /\ \A k \in 1 .. Len(s) : (s \o t)[k] = s[k]
         /\ \A k \in 1 .. Len(t) : (s \o t)[Len(s) + k] = t[k]
         /\ \A k \in 1 .. Len(s) + Len(t) :
              \/ k \in 1 .. Len(s) /\ (s \o t)[k] = s[k]
              \/ k - Len(s) \in 1 .. Len(t) /\ (s \o t)[k] = t[k - Len(s)]
         /\ \A j, k \in DOMAIN (s \o t) : (s \o t)[j] = (s \o t)[k] => j = k
<1>1. PICK u : u = s \o t
  OBVIOUS
<1>2. /\ u \in Seq(S) /\ Len(u) = Len(s) + Len(t) /\ Len(s) \in Nat /\ Len(t) \in Nat
      /\ DOMAIN s = 1 .. Len(s) /\ DOMAIN t = 1 .. Len(t) /\ DOMAIN u = 1 .. Len(s) + Len(t)
      /\ \A k \in 1 .. Len(s) + Len(t) : u[k] = IF k <= Len(s) THEN s[k] ELSE t[k - Len(s)]
  BY <1>1, ConcatProperties
<1>3. \A k \in 1 .. Len(s) + Len(t) :
        \/ k \in 1 .. Len(s) /\ u[k] = s[k]
        \/ k - Len(s) \in 1 .. Len(t) /\ u[k] = t[k - Len(s)]
  BY <1>2
<1>4. /\ \A k \in 1 .. Len(s) : u[k] = s[k]
      /\ \A k \in 1 .. Len(t) : u[Len(s) + k] = t[k]
  <2>1. ASSUME NEW k \in 1 .. Len(t) PROVE u[Len(s) + k] = t[k]
    <3>1. Len(s) + k \in 1 .. Len(s) + Len(t) /\ ~(Len(s) + k <= Len(s)) /\ (Len(s) + k) - Len(s) = k
      BY <1>2
    <3> QED BY <1>2, <3>1
  <2> QED BY <1>2, <2>1
<1>5. ASSUME NEW j \in DOMAIN u, NEW k \in DOMAIN u, u[j] = u[k] PROVE j = k
  <2>1. CASE j \in 1 .. Len(s) /\ u[j] = s[j] /\ k \in 1 .. Len(s) /\ u[k] = s[k]
    BY <1>2, <1>5, <2>1
  <2>2. CASE j - Len(s) \in 1 .. Len(t) /\ u[j] = t[j - Len(s)]
             /\ k - Len(s) \in 1 .. Len(t) /\ u[k] = t[k - Len(s)]
    <3>1. j - Len(s) = k - Len(s)
      BY <1>2, <1>5, <2>2
    <3> QED BY <1>2, <3>1
  <2> QED BY <1>2, <1>3, <1>5, <2>1, <2>2
<1> QED BY <1>1, <1>2, <1>3, <1>4, <1>5

LEMMA Around ==
  ASSUME NEW S, "handler" \in S, NEW l \in Seq(S), NEW p \in Seq(S),
         \A j, k \in DOMAIN l : l[j] = l[k] => j = k,
         \A j, k \in DOMAIN p : p[j] = p[k] => j = k,
         \A j \in DOMAIN l, k \in DOMAIN p : l[j] # p[k],
         \A j \in DOMAIN l : l[j] # "handler",
         \A k \in DOMAIN p : p[k] # "handler"
  PROVE  LET chain == l \o <<"handler">> \o p IN
         /\ chain \in Seq(S) /\ Len(l) \in Nat /\ Len(p) \in Nat
         /\ Len(chain) = Len(l) + 1 + Len(p) /\ DOMAIN chain = 1 .. Len(l) + 1 + Len(p)
         /\ \A k \in 1 .. Len(l) : chain[k] = l[k]
         /\ chain[Len(l) + 1] = "handler"
         /\ \A k \in 1 .. Len(p) : chain[Len(l) + 1 + k] = p[k]
         /\ \A j, k \in DOMAIN chain : chain[j] = chain[k] => j = k
<1> DEFINE g == l \o <<"handler">>
<1>1. /\ <<"handler">> \in Seq(S) /\ Len(<<"handler">>) = 1 /\ DOMAIN <<"handler">> = 1 .. 1
      /\ <<"handler">>[1] = "handler"
  OBVIOUS
<1>2. /\ g \in Seq(S) /\ Len(g) = Len(l) + 1 /\ DOMAIN g = 1 .. Len(l) + 1 /\ Len(l) \in Nat
      /\ DOMAIN l = 1 .. Len(l)
      /\ \A k \in 1 .. Len(l) : g[k] = l[k]
      /\ g[Len(l) + 1] = "handler"
      /\ \A j, k \in DOMAIN g : g[j] = g[k] => j = k
  <2>1. \A j, k \in DOMAIN <<"handler">> : <<"handler">>[j] = <<"handler">>[k] => j = k
    BY <1>1
  <2>2. \A j \in DOMAIN l, k \in DOMAIN <<"handler">> : l[j] # <<"handler">>[k]
    BY <1>1
  <2>3. 1 \in 1 .. 1
    OBVIOUS
  <2> QED BY <1>1, <2>1, <2>2, <2>3, Joined
<1>3. \A j \in DOMAIN g, k \in DOMAIN p : g[j] # p[k]
  <2> SUFFICES ASSUME NEW j \in 1 .. Len(l) + 1, NEW k \in DOMAIN p PROVE g[j] # p[k]
    BY <1>2
  <2>1. CASE j = Len(l) + 1
    BY <1>2, <2>1
  <2>2. CASE j # Len(l) + 1
    BY <1>2, <2>2
  <2> QED BY <2>1, <2>2
<1> HIDE DEF g
<1>4. /\ g \o p \in Seq(S) /\ Len(g \o p) = Len(g) + Len(p) /\ Len(p) \in Nat
      /\ DOMAIN (g \o p) = 1 .. Len(g) + Len(p)
      /\ \A k \in 1 .. Len(g) : (g \o p)[k] = g[k]
      /\ \A k \in 1 .. Len(p) : (g \o p)[Len(g) + k] = p[k]
      /\ \A j, k \in DOMAIN (g \o p) : (g \o p)[j] = (g \o p)[k] => j = k
  <2>1. g \in Seq(S) /\ \A j, k \in DOMAIN g : g[j] = g[k] => j = k
    BY <1>2
  <2>2. \A j, k \in DOMAIN p : p[j] = p[k] => j = k
    OBVIOUS
  <2> QED BY ONLY <2>1, <2>2, <1>3, p \in Seq(S), Joined
<1>5. \A k \in 1 .. Len(l) + 1 : (g \o p)[k] = g[k]
  BY <1>2, <1>4
<1>6. \A k \in 1 .. Len(l) : k \in 1 .. Len(l) + 1
  BY <1>2
<1>7. Len(l) + 1 \in 1 .. Len(l) + 1
  BY <1>2
<1> QED BY <1>2, <1>4, <1>5, <1>6, <1>7 DEF g

Uses == H!Fns \cup H!Advices
Layered == Uses \cup {"acl", "handler"}

\* What the assumption says of the uses of a class and its method.
LEMMA UsesApart ==
  ASSUME H!HttpAssumption
  PROVE  /\ ClassFns \in Seq(Layered) /\ MethodFns \in Seq(Layered)
         /\ ClassAdvices \in Seq(Layered) /\ MethodAdvices \in Seq(Layered)
         /\ \A j, k \in DOMAIN ClassFns : ClassFns[j] = ClassFns[k] => j = k
         /\ \A j, k \in DOMAIN MethodFns : MethodFns[j] = MethodFns[k] => j = k
         /\ \A j, k \in DOMAIN ClassAdvices : ClassAdvices[j] = ClassAdvices[k] => j = k
         /\ \A j, k \in DOMAIN MethodAdvices : MethodAdvices[j] = MethodAdvices[k] => j = k
         /\ \A j \in DOMAIN ClassFns, k \in DOMAIN MethodFns : ClassFns[j] # MethodFns[k]
         /\ \A j \in DOMAIN ClassAdvices, k \in DOMAIN MethodAdvices :
              ClassAdvices[j] # MethodAdvices[k]
         /\ H!Fns \cap H!Advices = {}
         /\ Uses \cap {Nothing, "acl", "handler", "method", "null"} = {}
         /\ Nothing \notin {"acl", "handler", "method", "null"}
<1> DEFINE Set(k) == H!ToSet(H!Wrappers[k])
<1>1. /\ DOMAIN H!Wrappers = 1 .. 4
      /\ H!Wrappers[1] = ClassFns /\ H!Wrappers[2] = MethodFns
      /\ H!Wrappers[3] = ClassAdvices /\ H!Wrappers[4] = MethodAdvices
  BY DEF H!Wrappers
<1>2. \A k \in 1 .. 4 :
        /\ H!Wrappers[k] \in Seq(Set(k)) /\ H!IsInjective(H!Wrappers[k])
        /\ Set(k) \cap {Nothing, "acl", "handler", "method", "null"} = {}
  BY <1>1 DEF H!HttpAssumption
<1>3. \A j, k \in 1 .. 4 : j # k => Set(j) \cap Set(k) = {}
  BY <1>1 DEF H!HttpAssumption
<1>4. Uses = Set(1) \cup Set(2) \cup Set(3) \cup Set(4)
      /\ H!Fns = Set(1) \cup Set(2) /\ H!Advices = Set(3) \cup Set(4)
  BY <1>1 DEF Uses, H!Fns, H!Advices
<1>5. /\ 1 \in 1 .. 4 /\ 2 \in 1 .. 4 /\ 3 \in 1 .. 4 /\ 4 \in 1 .. 4
      /\ 1 # 2 /\ 1 # 3 /\ 1 # 4 /\ 2 # 3 /\ 2 # 4 /\ 3 # 4
  OBVIOUS
<1>6. \A k \in 1 .. 4 : Set(k) = {H!Wrappers[k][i] : i \in DOMAIN H!Wrappers[k]}
  BY DEF H!ToSet
<1>7. /\ H!Fns \cap H!Advices = {}
      /\ Uses \cap {Nothing, "acl", "handler", "method", "null"} = {}
  <2> HIDE DEF Set
  <2>1. Set(1) \cap Set(3) = {} /\ Set(1) \cap Set(4) = {} /\ Set(2) \cap Set(3) = {}
        /\ Set(2) \cap Set(4) = {}
    BY <1>3, <1>5
  <2>2. \A k \in {1, 2, 3, 4} : Set(k) \cap {Nothing, "acl", "handler", "method", "null"} = {}
    BY <1>2, <1>5
  <2> QED BY <1>4, <2>1, <2>2
<1>8. \A k \in 1 .. 4 : H!Wrappers[k] \in Seq(Layered)
  <2> SUFFICES ASSUME NEW k \in 1 .. 4 PROVE H!Wrappers[k] \in Seq(Layered)
    OBVIOUS
  <2>1. Set(k) \subseteq Layered
    <3> HIDE DEF Set
    <3>1. k \in {1, 2, 3, 4}
      OBVIOUS
    <3> QED BY <1>4, <3>1 DEF Layered
  <2> HIDE DEF Set
  <2>2. H!Wrappers[k] \in Seq(Set(k))
    BY <1>2
  <2> QED BY <2>1, <2>2
<1>9. \A k \in 1 .. 4 : \A i, j \in DOMAIN H!Wrappers[k] :
        H!Wrappers[k][i] = H!Wrappers[k][j] => i = j
  BY <1>2 DEF H!IsInjective
<1>10. \A j, k \in 1 .. 4 : j # k =>
         \A a \in DOMAIN H!Wrappers[j], b \in DOMAIN H!Wrappers[k] :
           H!Wrappers[j][a] # H!Wrappers[k][b]
  BY <1>3, <1>6
<1>11. /\ \A j \in DOMAIN ClassFns, k \in DOMAIN MethodFns : ClassFns[j] # MethodFns[k]
       /\ \A j \in DOMAIN ClassAdvices, k \in DOMAIN MethodAdvices :
            ClassAdvices[j] # MethodAdvices[k]
  BY <1>1, <1>5, <1>10
<1>12. Nothing \notin {"acl", "handler", "method", "null"}
  BY DEF H!HttpAssumption
<1> QED BY <1>1, <1>5, <1>7, <1>8, <1>9, <1>11, <1>12

Held(s) == {s[k] : k \in DOMAIN s}
Before(s, a, b) == \E j, k \in DOMAIN s : j < k /\ s[j] = a /\ s[k] = b
Ranked(s) == s \in Seq(Layered) /\ \A j, k \in DOMAIN s : s[j] = s[k] => j = k

\* What two sequences in one hold, and in which order.
LEMMA JoinedInOrder ==
  ASSUME NEW s, NEW t, Ranked(s), Ranked(t), Held(s) \cap Held(t) = {}
  PROVE  /\ Ranked(s \o t) /\ Held(s \o t) = Held(s) \cup Held(t)
         /\ \A a \in Held(s), b \in Held(t) : Before(s \o t, a, b)
         /\ \A a, b : Before(s, a, b) \/ Before(t, a, b) => Before(s \o t, a, b)
<1> DEFINE u == s \o t
<1>1. /\ u \in Seq(Layered) /\ Len(u) = Len(s) + Len(t)
      /\ DOMAIN s = 1 .. Len(s) /\ DOMAIN t = 1 .. Len(t) /\ Len(s) \in Nat /\ Len(t) \in Nat
      /\ DOMAIN u = 1 .. Len(s) + Len(t)
      /\ \A k \in 1 .. Len(s) : u[k] = s[k]
      /\ \A k \in 1 .. Len(t) : u[Len(s) + k] = t[k]
      /\ \A k \in 1 .. Len(s) + Len(t) :
           \/ k \in 1 .. Len(s) /\ u[k] = s[k]
           \/ k - Len(s) \in 1 .. Len(t) /\ u[k] = t[k - Len(s)]
      /\ \A j, k \in DOMAIN u : u[j] = u[k] => j = k
  <2>1. \A j \in DOMAIN s, k \in DOMAIN t : s[j] # t[k]
    BY DEF Held
  <2>2. /\ s \in Seq(Layered) /\ t \in Seq(Layered)
        /\ \A j, k \in DOMAIN s : s[j] = s[k] => j = k
        /\ \A j, k \in DOMAIN t : t[j] = t[k] => j = k
    BY DEF Ranked
  <2> QED BY ONLY <2>1, <2>2, Joined
<1> HIDE DEF u
<1>2. \A k \in 1 .. Len(s) : k \in DOMAIN u
  BY <1>1
<1>3. \A k \in 1 .. Len(t) : Len(s) + k \in DOMAIN u
  BY <1>1
<1>4. Held(u) = Held(s) \cup Held(t)
  <2>1. ASSUME NEW k \in DOMAIN s PROVE s[k] \in Held(u)
    <3>1. u[k] = s[k] /\ k \in DOMAIN u
      BY <1>1, <1>2
    <3> QED BY <3>1 DEF Held
  <2>2. ASSUME NEW k \in DOMAIN t PROVE t[k] \in Held(u)
    <3>1. u[Len(s) + k] = t[k] /\ Len(s) + k \in DOMAIN u
      BY <1>1, <1>3
    <3> QED BY <3>1 DEF Held
  <2>3. ASSUME NEW k \in DOMAIN u PROVE u[k] \in Held(s) \cup Held(t)
    <3>1. CASE k \in 1 .. Len(s) /\ u[k] = s[k]
      BY <1>1, <3>1 DEF Held
    <3>2. CASE k - Len(s) \in 1 .. Len(t) /\ u[k] = t[k - Len(s)]
      BY <1>1, <3>2 DEF Held
    <3> QED BY <1>1, <3>1, <3>2
  <2>4. Held(s) \subseteq Held(u) /\ Held(t) \subseteq Held(u)
    BY ONLY <2>1, <2>2 DEF Held
  <2>5. Held(u) \subseteq Held(s) \cup Held(t)
    <3> SUFFICES ASSUME NEW a \in Held(u) PROVE a \in Held(s) \cup Held(t)
      OBVIOUS
    <3>1. PICK k \in DOMAIN u : a = u[k]
      BY DEF Held
    <3> QED BY <2>3, <3>1
  <2> QED BY <2>4, <2>5
<1>5. ASSUME NEW a \in Held(s), NEW b \in Held(t) PROVE Before(u, a, b)
  <2>1. PICK j \in DOMAIN s : s[j] = a
    BY DEF Held
  <2>2. PICK k \in DOMAIN t : t[k] = b
    BY DEF Held
  <2>3. j < Len(s) + k
    BY <1>1
  <2>4. j \in DOMAIN u /\ Len(s) + k \in DOMAIN u /\ u[j] = a /\ u[Len(s) + k] = b
    BY <1>1, <1>2, <1>3, <2>1, <2>2
  <2> QED BY <2>3, <2>4 DEF Before
<1>6. ASSUME NEW a, NEW b, Before(s, a, b) PROVE Before(u, a, b)
  <2>1. PICK j \in DOMAIN s, k \in DOMAIN s : j < k /\ s[j] = a /\ s[k] = b
    BY <1>6 DEF Before
  <2>2. j \in DOMAIN u /\ k \in DOMAIN u /\ u[j] = a /\ u[k] = b
    BY <1>1, <1>2, <2>1
  <2> QED BY <2>1, <2>2 DEF Before
<1>7. ASSUME NEW a, NEW b, Before(t, a, b) PROVE Before(u, a, b)
  <2>1. PICK j \in DOMAIN t, k \in DOMAIN t : j < k /\ t[j] = a /\ t[k] = b
    BY <1>7 DEF Before
  <2>2. Len(s) + j \in DOMAIN u /\ Len(s) + k \in DOMAIN u /\ u[Len(s) + j] = a
        /\ u[Len(s) + k] = b
    BY <1>1, <1>3, <2>1
  <2>3. Len(s) + j < Len(s) + k
    BY <1>1, <2>1
  <2> QED BY <2>2, <2>3 DEF Before
<1>8. Ranked(u)
  BY <1>1 DEF Ranked
<1> QED BY <1>4, <1>5, <1>6, <1>7, <1>8 DEF u

LEMMA Alone ==
  ASSUME NEW w \in Layered
  PROVE  Ranked(<<w>>) /\ Held(<<w>>) = {w}
<1>1. <<w>> \in Seq(Layered) /\ DOMAIN <<w>> = 1 .. 1 /\ <<w>>[1] = w
  OBVIOUS
<1>2. 1 .. 1 = {1}
  OBVIOUS
<1> QED BY <1>1, <1>2 DEF Ranked, Held

LEMMA Nobody == Ranked(<<>>) /\ Held(<<>>) = {}
<1>1. <<>> \in Seq(Layered) /\ DOMAIN <<>> = {}
  OBVIOUS
<1> QED BY <1>1 DEF Ranked, Held

\* The uses of a class and of its method, apart from one another and from the rest.
LEMMA UsesAreRanked ==
  ASSUME H!HttpAssumption
  PROVE  /\ Ranked(ClassFns) /\ Ranked(MethodFns) /\ Ranked(ClassAdvices) /\ Ranked(MethodAdvices)
         /\ Held(ClassFns) \cap Held(MethodFns) = {}
         /\ Held(ClassAdvices) \cap Held(MethodAdvices) = {}
         /\ H!Fns = Held(ClassFns) \cup Held(MethodFns)
         /\ H!Advices = Held(ClassAdvices) \cup Held(MethodAdvices)
<1>1. /\ \A j \in DOMAIN ClassFns, k \in DOMAIN MethodFns : ClassFns[j] # MethodFns[k]
      /\ \A j \in DOMAIN ClassAdvices, k \in DOMAIN MethodAdvices :
           ClassAdvices[j] # MethodAdvices[k]
  BY UsesApart
<1>2. Held(ClassFns) \cap Held(MethodFns) = {} /\ Held(ClassAdvices) \cap Held(MethodAdvices) = {}
  BY <1>1 DEF Held
<1>3. H!Fns = Held(ClassFns) \cup Held(MethodFns)
      /\ H!Advices = Held(ClassAdvices) \cup Held(MethodAdvices)
  BY DEF H!Fns, H!Advices, H!ToSet, Held
<1>4. /\ Ranked(ClassFns) /\ Ranked(MethodFns) /\ Ranked(ClassAdvices) /\ Ranked(MethodAdvices)
  BY UsesApart DEF Ranked
<1> QED BY <1>2, <1>3, <1>4

\* The layers outside the handler and the pointcuts inside, on either host.
LEMMA Sides ==
  ASSUME H!HttpAssumption, httpHost \in {"egg", "worker"}, acl \in BOOLEAN
  PROVE  /\ Ranked(H!Layers) /\ Ranked(H!Pointcuts)
         /\ Held(H!Layers) \cap Held(H!Pointcuts) = {}
         /\ "handler" \notin Held(H!Layers) \cup Held(H!Pointcuts)
         /\ Uses \subseteq Held(H!Layers) \cup Held(H!Pointcuts) /\ H!Fns \subseteq Held(H!Layers)
         /\ \A c \in Held(ClassFns), m \in Held(MethodFns) : Before(H!Layers, c, m)
         /\ httpHost = "egg" /\ acl =>
              "acl" \in Held(H!Layers) /\ \A f \in H!Fns : Before(H!Layers, f, "acl")
<1>1. /\ Ranked(ClassFns) /\ Ranked(MethodFns) /\ Ranked(ClassAdvices) /\ Ranked(MethodAdvices)
      /\ Held(ClassFns) \cap Held(MethodFns) = {}
      /\ Held(ClassAdvices) \cap Held(MethodAdvices) = {}
      /\ H!Fns = Held(ClassFns) \cup Held(MethodFns)
      /\ H!Advices = Held(ClassAdvices) \cup Held(MethodAdvices)
  BY UsesAreRanked
<1>2. /\ H!Fns \cap H!Advices = {}
      /\ "acl" \notin H!Fns \cup H!Advices /\ "handler" \notin H!Fns \cup H!Advices
  BY UsesApart DEF Uses
<1>3. PICK fns : fns = H!MethodMiddlewares
  OBVIOUS
<1>4. /\ Ranked(fns) /\ Held(fns) = H!Fns
      /\ \A c \in Held(ClassFns), m \in Held(MethodFns) : Before(fns, c, m)
  BY <1>1, <1>3, JoinedInOrder DEF H!MethodMiddlewares
<1>5. CASE httpHost = "egg"
  <2>1. Ranked(H!Pointcuts) /\ Held(H!Pointcuts) = H!Advices
    <3>1. H!Pointcuts = MethodAdvices \o ClassAdvices
      BY <1>5 DEF H!Pointcuts
    <3>2. Held(MethodAdvices) \cap Held(ClassAdvices) = {}
      BY <1>1
    <3> QED BY <1>1, <3>1, <3>2, JoinedInOrder
  <2>2. PICK last : last = IF acl THEN <<"acl">> ELSE <<>>
    OBVIOUS
  <2>3. Ranked(last) /\ Held(last) = IF acl THEN {"acl"} ELSE {}
    BY <2>2, Alone, Nobody DEF Layered
  <2>4. H!Layers = fns \o last
    BY <1>3, <1>5, <2>2 DEF H!Layers
  <2>5. Held(fns) \cap Held(last) = {}
    BY <1>2, <1>4, <2>3
  <2>6. /\ Ranked(H!Layers) /\ Held(H!Layers) = H!Fns \cup Held(last)
        /\ \A a \in H!Fns, b \in Held(last) : Before(H!Layers, a, b)
        /\ \A a, b : Before(fns, a, b) => Before(H!Layers, a, b)
    BY <1>4, <2>3, <2>4, <2>5, JoinedInOrder
  <2>7. "handler" \notin Held(last) /\ Held(last) \cap H!Advices = {}
    BY <1>2, <2>3
  <2> QED BY <1>2, <1>4, <2>1, <2>3, <2>6, <2>7 DEF Uses
<1>6. CASE httpHost = "worker"
  <2>1. Ranked(H!Pointcuts) /\ Held(H!Pointcuts) = {}
    BY <1>6, Nobody DEF H!Pointcuts
  <2>2. Ranked(H!AopMiddlewares) /\ Held(H!AopMiddlewares) = H!Advices
    BY <1>1, JoinedInOrder DEF H!AopMiddlewares
  <2>3. H!Layers = H!AopMiddlewares \o fns
    BY <1>3, <1>6 DEF H!Layers
  <2>4. Held(H!AopMiddlewares) \cap Held(fns) = {}
    BY <1>2, <1>4, <2>2
  <2>5. /\ Ranked(H!Layers) /\ Held(H!Layers) = H!Advices \cup H!Fns
        /\ \A a, b : Before(fns, a, b) => Before(H!Layers, a, b)
    BY <1>4, <2>2, <2>3, <2>4, JoinedInOrder
  <2> QED BY <1>2, <1>4, <1>6, <2>1, <2>5 DEF Uses
<1> QED BY <1>5, <1>6

\* The chain: the handler after the layers, and everything in its order.
LEMMA ChainFacts ==
  ASSUME H!HttpAssumption, httpHost \in {"egg", "worker"}, acl \in BOOLEAN
  PROVE  /\ H!Chain \in Seq(Layered) /\ Len(H!Chain) \in Nat /\ DOMAIN H!Chain = 1 .. Len(H!Chain)
         /\ H!AtHandler \in 1 .. Len(H!Chain) /\ H!Chain[H!AtHandler] = "handler"
         /\ \A j, k \in 1 .. Len(H!Chain) : H!Chain[j] = H!Chain[k] => j = k
         /\ \A k \in 1 .. Len(H!Chain) : H!Chain[k] \notin {Nothing, "method", "null"}
         /\ H!Fns \cup H!Advices \subseteq Held(H!Chain)
         /\ DOMAIN H!Layers = 1 .. H!AtHandler - 1
         /\ \A k \in 1 .. H!AtHandler - 1 : H!Chain[k] = H!Layers[k]
<1>1. PICK l, p : l = H!Layers /\ p = H!Pointcuts
  OBVIOUS
<1>2. /\ Ranked(l) /\ Ranked(p) /\ Held(l) \cap Held(p) = {}
      /\ "handler" \notin Held(l) \cup Held(p)
      /\ Uses \subseteq Held(l) \cup Held(p)
  BY <1>1, Sides
<1>3. H!Chain = l \o <<"handler">> \o p /\ H!AtHandler = Len(l) + 1
  BY <1>1 DEF H!Chain, H!AtHandler
<1>4. PICK g : g = l \o <<"handler">>
  OBVIOUS
<1>5. "handler" \in Layered
  BY DEF Layered
<1>6. /\ Ranked(g) /\ Held(g) = Held(l) \cup {"handler"}
  <2>1. Ranked(<<"handler">>) /\ Held(<<"handler">>) = {"handler"}
    BY <1>5, Alone
  <2> QED BY <1>2, <1>4, <2>1, JoinedInOrder
<1>7. /\ Ranked(H!Chain) /\ Held(H!Chain) = Held(l) \cup {"handler"} \cup Held(p)
  <2>1. H!Chain = g \o p
    BY <1>3, <1>4
  <2>2. Held(g) \cap Held(p) = {}
    BY <1>2, <1>6
  <2> QED BY <1>2, <1>6, <2>1, <2>2, JoinedInOrder
<1>8. /\ Len(l) \in Nat /\ Len(p) \in Nat
      /\ Len(H!Chain) = Len(l) + 1 + Len(p) /\ DOMAIN H!Chain = 1 .. Len(l) + 1 + Len(p)
      /\ \A k \in 1 .. Len(l) : H!Chain[k] = l[k]
      /\ H!Chain[Len(l) + 1] = "handler"
  <2>1. /\ l \in Seq(Layered) /\ p \in Seq(Layered)
        /\ \A j, k \in DOMAIN l : l[j] = l[k] => j = k
        /\ \A j, k \in DOMAIN p : p[j] = p[k] => j = k
    BY <1>2 DEF Ranked
  <2>2. /\ \A j \in DOMAIN l, k \in DOMAIN p : l[j] # p[k]
        /\ \A j \in DOMAIN l : l[j] # "handler"
        /\ \A k \in DOMAIN p : p[k] # "handler"
    BY <1>2 DEF Held
  <2> HIDE DEF H!Chain
  <2> QED BY ONLY <1>3, <1>5, <2>1, <2>2, Around
<1>9. Nothing \notin Layered /\ "method" \notin Layered /\ "null" \notin Layered
  BY UsesApart DEF Layered
<1>10. H!Chain \in Seq(Layered) /\ \A j, k \in DOMAIN H!Chain : H!Chain[j] = H!Chain[k] => j = k
  BY <1>7 DEF Ranked
<1>11. \A k \in 1 .. Len(H!Chain) : H!Chain[k] \in Layered
  BY <1>8, <1>10
<1>12. /\ DOMAIN H!Layers = 1 .. H!AtHandler - 1
       /\ \A k \in 1 .. H!AtHandler - 1 : H!Chain[k] = H!Layers[k]
  <2>1. DOMAIN l = 1 .. Len(l)
    BY <1>2 DEF Ranked
  <2>2. H!AtHandler - 1 = Len(l)
    BY <1>3, <1>8
  <2> QED BY <1>1, <1>8, <2>1, <2>2
<1>13. H!AtHandler \in 1 .. Len(H!Chain) /\ Len(H!Chain) \in Nat
  BY <1>3, <1>8
<1>14. H!Fns \cup H!Advices \subseteq Held(H!Chain)
  BY <1>2, <1>7 DEF Uses
<1>15. /\ DOMAIN H!Chain = 1 .. Len(H!Chain) /\ H!Chain[H!AtHandler] = "handler"
       /\ \A j, k \in 1 .. Len(H!Chain) : H!Chain[j] = H!Chain[k] => j = k
  BY <1>3, <1>8, <1>10
<1>16. \A k \in 1 .. Len(H!Chain) : H!Chain[k] \notin {Nothing, "method", "null"}
  BY <1>9, <1>11
<1> QED BY <1>10, <1>12, <1>13, <1>14, <1>15, <1>16

-----------------------------------------------------------------------------
(* A request *)

\* Of a layer, the first n of its chain were entered, in order.
EnteredTo(e, n) == e \in Seq(Layered) /\ Len(e) = n /\ \A k \in 1 .. n : e[k] = H!Chain[k]

RequestTypes ==
  /\ httpHost \in {"egg", "worker"} /\ acl \in BOOLEAN
  /\ failed \in BOOLEAN /\ explicit \in BOOLEAN
  /\ served \in MCHostLists /\ layer \in DOMAIN served
  /\ entered \in [DOMAIN served -> Seq(Layered)] /\ inside \in 0 .. Len(H!Chain)
  /\ going \in {"in", "out", "done"} /\ method \in {"idle", "running", "late", "over"}

\* On its way in, a request has entered the layers of the hosts before up to their
\* handlers, its own as far as it is inside, and none behind it.
Inward ==
  going = "in" =>
    /\ method \in {"idle", "running"} /\ ~failed /\ result = Nothing
    /\ \A k \in DOMAIN served :
         /\ k < layer => EnteredTo(entered[k], H!AtHandler - 1)
         /\ k = layer => EnteredTo(entered[k], inside)
         /\ k > layer => entered[k] = <<>>
    /\ inside >= H!AtHandler => H!Takes(layer)

RunsInside == method = "running" => going = "in" /\ inside = Len(H!Chain)

\* Where what the method returned is, and when it is nowhere.
FromMethod ==
  /\ result = "method" => method = "over"
  /\ body = "method" => result = "method" /\ going # "in" /\ inside < H!AtHandler

\* On its way out, an error takes the place of what was returned, and a response that
\* is not what the method returned was written by a middleware.
Outward ==
  /\ going # "in" /\ inside >= H!AtHandler /\ failed => result = Nothing
  /\ going # "in" /\ inside < H!AtHandler /\ result = "method" => body \in {"method"} \cup Uses
  /\ going = "done" => inside = 0

RequestInv == RequestTypes /\ Inward /\ RunsInside /\ FromMethod /\ Outward

\* The hosts of a method are numbered from one.
LEMMA HostsAreNumbered ==
  ASSUME H!HttpAssumption, NEW s \in MCHostLists
  PROVE  Len(s) \in Nat /\ DOMAIN s = 1 .. Len(s) /\ 1 \in DOMAIN s
<1>1. s \in Seq(H!ToSet(s)) /\ s # <<>>
  BY DEF H!HttpAssumption
<1>2. Len(s) \in Nat /\ DOMAIN s = 1 .. Len(s) /\ Len(s) # 0
  BY <1>1
<1> QED BY <1>2

LEMMA InitRequest == H!HttpAssumption /\ H!Init => RequestInv
<1> SUFFICES ASSUME H!HttpAssumption, H!Init PROVE RequestInv
  OBVIOUS
<1>1. /\ httpHost \in {"egg", "worker"} /\ acl \in BOOLEAN
      /\ served \in MCHostLists /\ layer = 1 /\ entered = [k \in DOMAIN served |-> <<>>]
      /\ failed = FALSE /\ explicit = FALSE /\ inside = 0
      /\ going = "in" /\ method = "idle" /\ result = Nothing /\ body = Nothing
  BY DEF H!Init
<1>2. Len(H!Chain) \in Nat /\ H!AtHandler \in 1 .. Len(H!Chain)
  BY <1>1, ChainFacts
<1>3. Nothing # "method"
  BY UsesApart
<1>4. DOMAIN served = 1 .. Len(served) /\ layer \in DOMAIN served
  BY <1>1, HostsAreNumbered
<1>5. <<>> \in Seq(Layered) /\ Len(<<>>) = 0
  OBVIOUS
<1>6. RequestTypes
  <2>1. entered \in [DOMAIN served -> Seq(Layered)] /\ inside \in 0 .. Len(H!Chain)
    BY <1>1, <1>2, <1>5
  <2>2. failed \in BOOLEAN /\ explicit \in BOOLEAN
    BY ONLY <1>1
  <2> QED BY <1>1, <1>4, <2>1, <2>2 DEF RequestTypes
<1>7. Inward
  <2>1. EnteredTo(<<>>, 0)
    BY <1>5 DEF EnteredTo
  <2>2. ~failed /\ method \in {"idle", "running"} /\ result = Nothing
    BY ONLY <1>1
  <2>3. \A k \in DOMAIN served : ~(k < layer) /\ entered[k] = <<>>
    BY <1>1, <1>4
  <2>4. inside = 0 /\ ~(inside >= H!AtHandler)
    BY <1>1, <1>2
  <2> QED BY <2>1, <2>2, <2>3, <2>4 DEF Inward
<1>8. RunsInside /\ FromMethod /\ Outward
  BY <1>1, <1>3 DEF RunsInside, FromMethod, Outward
<1> QED BY <1>6, <1>7, <1>8 DEF RequestInv

\* What every step of a request may use of the state before it.
LEMMA RequestFacts ==
  ASSUME H!HttpAssumption, RequestInv
  PROVE  /\ H!Chain \in Seq(Layered) /\ Len(H!Chain) \in Nat
         /\ H!AtHandler \in 1 .. Len(H!Chain) /\ H!Chain[H!AtHandler] = "handler"
         /\ \A k \in 1 .. Len(H!Chain) : H!Chain[k] \in Layered
         /\ \A k \in 1 .. Len(H!Chain) : H!Chain[k] \notin {Nothing, "method", "null"}
         /\ \A k \in 1 .. Len(H!Chain) : k < H!AtHandler /\ H!Chain[k] # "acl" => H!Chain[k] \in Uses
         /\ Nothing \notin {"method", "null"}
         /\ Len(served) \in Nat /\ DOMAIN served = 1 .. Len(served)
         /\ layer \in 1 .. Len(served) /\ inside \in 0 .. Len(H!Chain)
         /\ DOMAIN entered = DOMAIN served
<1>1. /\ httpHost \in {"egg", "worker"} /\ acl \in BOOLEAN
      /\ served \in MCHostLists /\ layer \in DOMAIN served /\ inside \in 0 .. Len(H!Chain)
      /\ DOMAIN entered = DOMAIN served
  BY DEF RequestInv, RequestTypes
<1>2. /\ H!Chain \in Seq(Layered) /\ Len(H!Chain) \in Nat /\ DOMAIN H!Chain = 1 .. Len(H!Chain)
      /\ H!AtHandler \in 1 .. Len(H!Chain) /\ H!Chain[H!AtHandler] = "handler"
      /\ \A j, k \in 1 .. Len(H!Chain) : H!Chain[j] = H!Chain[k] => j = k
      /\ \A k \in 1 .. Len(H!Chain) : H!Chain[k] \notin {Nothing, "method", "null"}
  BY <1>1, ChainFacts
<1>3. \A k \in 1 .. Len(H!Chain) : H!Chain[k] \in Layered
  BY <1>2
<1>4. ASSUME NEW k \in 1 .. Len(H!Chain), k < H!AtHandler, H!Chain[k] # "acl"
      PROVE  H!Chain[k] \in Uses
  <2>1. H!Chain[k] # "handler"
    BY <1>2, <1>4
  <2> QED BY <1>3, <1>4, <2>1 DEF Layered
<1>5. Len(served) \in Nat /\ DOMAIN served = 1 .. Len(served)
  BY <1>1, HostsAreNumbered
<1>6. Nothing \notin {"method", "null"}
  BY UsesApart
<1> QED BY <1>1, <1>2, <1>3, <1>4, <1>5, <1>6

\* Entering the next one of a layer's chain.
LEMMA EnteringOne ==
  ASSUME H!HttpAssumption, RequestInv, going = "in", inside < Len(H!Chain), H!Entering
  PROVE  /\ entered' \in [DOMAIN served -> Seq(Layered)]
         /\ EnteredTo(entered'[layer], inside + 1)
         /\ \A k \in DOMAIN served : k # layer => entered'[k] = entered[k]
<1>1. PICK w : w = H!Chain[inside + 1]
  OBVIOUS
<1>2. inside \in Nat /\ inside + 1 \in 1 .. Len(H!Chain) /\ layer \in DOMAIN served
  BY RequestFacts
<1>3. w \in Layered
  BY <1>1, <1>2, RequestFacts
<1>4. entered' = [entered EXCEPT ![layer] = Append(entered[layer], w)]
  BY <1>1 DEF H!Entering
<1>5. entered \in [DOMAIN served -> Seq(Layered)] /\ EnteredTo(entered[layer], inside)
  BY <1>2 DEF RequestInv, RequestTypes, Inward
<1>6. PICK e : e = entered[layer]
  OBVIOUS
<1>7. /\ Append(e, w) \in Seq(Layered) /\ Len(Append(e, w)) = inside + 1
      /\ \A k \in 1 .. inside : Append(e, w)[k] = e[k]
      /\ Append(e, w)[inside + 1] = w
  <2>1. e \in Seq(Layered) /\ Len(e) = inside
    BY <1>5, <1>6 DEF EnteredTo
  <2> QED BY ONLY <1>2, <1>3, <2>1, AppendProperties
<1>8. EnteredTo(Append(e, w), inside + 1)
  <2>1. \A k \in 1 .. inside : e[k] = H!Chain[k]
    BY <1>5, <1>6 DEF EnteredTo
  <2>2. \A k \in 1 .. inside + 1 : k \in 1 .. inside \/ k = inside + 1
    BY <1>2
  <2> QED BY <1>1, <1>7, <2>1, <2>2 DEF EnteredTo
<1>9. entered'[layer] = Append(e, w) /\ \A k \in DOMAIN served : k # layer => entered'[k] = entered[k]
  BY <1>2, <1>4, <1>5, <1>6
<1>10. entered' \in [DOMAIN served -> Seq(Layered)]
  BY <1>4, <1>5, <1>6, <1>7
<1> QED BY <1>8, <1>9, <1>10

LEMMA NextRequest == H!HttpAssumption /\ RequestInv /\ [H!Next]_httpVars => RequestInv'
<1> SUFFICES ASSUME H!HttpAssumption, RequestInv, [H!Next]_httpVars PROVE RequestInv'
  OBVIOUS
<1> USE DEF RequestInv
<1>1. /\ H!Chain \in Seq(Layered) /\ Len(H!Chain) \in Nat
      /\ H!AtHandler \in 1 .. Len(H!Chain) /\ H!Chain[H!AtHandler] = "handler"
      /\ \A k \in 1 .. Len(H!Chain) : H!Chain[k] \notin {Nothing, "method", "null"}
      /\ \A k \in 1 .. Len(H!Chain) : k < H!AtHandler /\ H!Chain[k] # "acl" => H!Chain[k] \in Uses
      /\ Nothing \notin {"method", "null"}
      /\ Len(served) \in Nat /\ DOMAIN served = 1 .. Len(served)
      /\ layer \in 1 .. Len(served) /\ inside \in 0 .. Len(H!Chain)
  BY RequestFacts
<1>2. UNCHANGED <<httpHost, served, wanted, acl>>
  BY DEF H!Next, H!EnterMiddleware, H!CheckAcl, H!EnterHandler, H!PassOn, H!EnterAdvice,
         H!CallMethod, H!Return, H!Timeout, H!LateReturn, H!LeaveAdvice, H!LeaveHandler,
         H!LeaveMiddleware, H!LeaveLayer, H!Done, H!given, httpVars
<1>3. /\ H!Chain' = H!Chain /\ H!AtHandler' = H!AtHandler /\ Uses' = Uses
      /\ \A k : H!Takes(k)' = H!Takes(k)
      /\ \A e, n : EnteredTo(e, n)' = EnteredTo(e, n)
  <2>1. H!Chain' = H!Chain /\ H!AtHandler' = H!AtHandler
    BY <1>2 DEF H!Chain, H!AtHandler, H!Layers, H!Pointcuts, H!AopMiddlewares, H!MethodMiddlewares
  <2> QED BY <1>2, <2>1 DEF Uses, H!Fns, H!Advices, H!Takes, EnteredTo
<1>4. ASSUME going = "in", inside < Len(H!Chain), method = "idle", H!Entering,
             H!Goes \/ H!Throws \/ H!Returns, UNCHANGED <<layer, method>>,
             explicit' \in BOOLEAN,
             inside + 1 = H!AtHandler => H!Takes(layer) /\ ~H!Returns,
             inside + 1 <= H!AtHandler => UNCHANGED result,
             H!Goes \/ H!Throws => UNCHANGED result,
             body' # "method" \/ UNCHANGED body, result' # "method" \/ UNCHANGED result
      PROVE  RequestInv'
  <2>1. /\ ~failed /\ result = Nothing
        /\ \A k \in DOMAIN served :
             /\ k < layer => EnteredTo(entered[k], H!AtHandler - 1)
             /\ k > layer => entered[k] = <<>>
        /\ inside >= H!AtHandler => H!Takes(layer)
    BY <1>4 DEF Inward
  <2>2. /\ entered' \in [DOMAIN served -> Seq(Layered)]
        /\ EnteredTo(entered'[layer], inside + 1)
        /\ \A k \in DOMAIN served : k # layer => entered'[k] = entered[k]
    BY <1>4, EnteringOne
  <2>3. /\ failed' \in BOOLEAN /\ going' \in {"in", "out"}
        /\ inside' \in {inside, inside + 1} /\ (going' = "in" <=> inside' = inside + 1)
        /\ going' = "in" => UNCHANGED failed
    <3>1. failed \in BOOLEAN /\ inside # inside + 1
      BY <1>1 DEF RequestTypes
    <3>2. CASE H!Goes
      BY <1>4, <3>1, <3>2 DEF H!Goes
    <3>3. CASE H!Throws
      BY <1>4, <3>1, <3>3 DEF H!Throws
    <3>4. CASE H!Returns
      BY <1>4, <3>1, <3>4 DEF H!Returns
    <3> QED BY <1>4, <3>2, <3>3, <3>4
  <2>4. inside' \in 0 .. Len(H!Chain)
    BY <1>1, <1>4, <2>3
  <2>5. RequestTypes'
    BY <1>1, <1>2, <1>3, <1>4, <2>2, <2>3, <2>4 DEF RequestTypes
  <2>6. Inward'
    <3> SUFFICES ASSUME going' = "in" PROVE Inward'
      BY DEF Inward
    <3>1. inside' = inside + 1 /\ ~failed' /\ result' = Nothing /\ method' = "idle" /\ layer' = layer
      BY <1>1, <1>4, <2>1, <2>3 DEF H!Goes, H!Throws, H!Returns
    <3>2. inside' >= H!AtHandler => H!Takes(layer)
      BY <1>1, <1>4, <2>1, <3>1
    <3>3. ASSUME NEW k \in DOMAIN served
          PROVE  /\ k < layer => EnteredTo(entered'[k], H!AtHandler - 1)
                 /\ k = layer => EnteredTo(entered'[k], inside')
                 /\ k > layer => entered'[k] = <<>>
      BY <1>1, <2>1, <2>2, <3>1
    <3> QED BY <1>2, <1>3, <3>1, <3>2, <3>3 DEF Inward
  <2>7. body # "method"
    BY <1>1, <2>1 DEF FromMethod
  <2>8. result' # "method" /\ body' # "method"
    BY <1>1, <1>4, <2>1, <2>7
  <2>9. going' # "in" /\ inside' >= H!AtHandler /\ failed' => result' = Nothing
    BY <1>1, <1>4, <2>1 DEF H!Goes, H!Throws, H!Returns
  <2>10. RunsInside' /\ FromMethod' /\ Outward'
    BY <1>3, <1>4, <2>3, <2>8, <2>9 DEF RunsInside, FromMethod, Outward
  <2> QED BY <2>5, <2>6, <2>10
<1>5. CASE H!EnterMiddleware
  <2>1. /\ going = "in" /\ inside + 1 < H!AtHandler /\ H!Entering /\ UNCHANGED <<layer, method, result>>
        /\ H!Goes \/ H!Throws \/ H!Returns
        /\ body' \in {body, H!Chain[inside + 1]} /\ explicit' = (explicit \/ body' = H!Chain[inside + 1])
    BY <1>5 DEF H!EnterMiddleware
  <2>2. explicit' \in BOOLEAN
    BY <2>1
  <2>3. inside < Len(H!Chain) /\ inside + 1 # H!AtHandler /\ inside + 1 \in 1 .. Len(H!Chain)
    BY <1>1, <2>1
  <2>4. body' # "method" \/ UNCHANGED body
    BY <1>1, <2>1, <2>3
  <2>5. method = "idle"
    BY <1>1, <2>1, <2>3 DEF Inward, RunsInside
  <2> QED BY <1>4, <2>1, <2>2, <2>3, <2>4, <2>5
<1>6. CASE H!CheckAcl
  <2>1. /\ going = "in" /\ inside + 1 < H!AtHandler /\ H!Entering /\ UNCHANGED <<layer, method, result>>
        /\ H!Goes \/ H!Throws \/ H!Returns
        /\ body' \in {body, "acl"} /\ explicit' \in {explicit, TRUE}
    BY <1>6 DEF H!CheckAcl
  <2>2. explicit' \in BOOLEAN
    BY <2>1 DEF RequestTypes
  <2>3. inside < Len(H!Chain) /\ inside + 1 # H!AtHandler
    BY <1>1, <2>1
  <2>4. method = "idle"
    BY <1>1, <2>1, <2>3 DEF Inward, RunsInside
  <2> QED BY <1>4, <2>1, <2>2, <2>3, <2>4
<1>7. CASE H!EnterHandler
  <2>1. /\ going = "in" /\ inside + 1 = H!AtHandler /\ H!Takes(layer) /\ H!Entering
        /\ H!Goes \/ H!Throws
        /\ UNCHANGED <<layer, result, method, explicit, body>>
    BY <1>7 DEF H!EnterHandler
  <2>2. ~H!Returns
    BY <2>1 DEF H!Goes, H!Throws, H!Returns
  <2>3. inside < Len(H!Chain)
    BY <1>1, <2>1
  <2>4. method = "idle"
    BY <1>1, <2>1, <2>3 DEF Inward, RunsInside
  <2>5. explicit' \in BOOLEAN
    BY <2>1 DEF RequestTypes
  <2> QED BY <1>4, <2>1, <2>2, <2>3, <2>4, <2>5
<1>8. CASE H!EnterAdvice
  <2>1. /\ going = "in" /\ H!AtHandler <= inside /\ inside < Len(H!Chain) /\ method = "idle"
        /\ H!Entering /\ UNCHANGED <<layer, method, explicit, body>>
        /\ \/ (H!Goes \/ H!Throws) /\ UNCHANGED result
           \/ H!Returns /\ result' \in {H!Chain[inside + 1], "null"}
    BY <1>8 DEF H!EnterAdvice
  <2>2. inside + 1 \in 1 .. Len(H!Chain) /\ ~(inside + 1 <= H!AtHandler)
    BY <1>1, <2>1
  <2>3. result' # "method" \/ UNCHANGED result
    BY <1>1, <2>1, <2>2
  <2>4. H!Returns => ~(H!Goes \/ H!Throws)
    BY <1>1, <2>1 DEF H!Goes, H!Throws, H!Returns
  <2>5. explicit' \in BOOLEAN
    BY <2>1 DEF RequestTypes
  <2>6. inside + 1 # H!AtHandler
    BY <2>2, <1>1
  <2> QED BY <1>4, <2>1, <2>2, <2>3, <2>4, <2>5, <2>6
<1>9. CASE H!PassOn
  <2>1. /\ going = "in" /\ inside + 1 = H!AtHandler
        /\ UNCHANGED <<entered, failed, result, method, explicit, body>>
        /\ \/ layer < Len(served) /\ layer' = layer + 1 /\ inside' = 0 /\ UNCHANGED going
           \/ going' = "out" /\ UNCHANGED <<layer, inside>>
    BY <1>9 DEF H!PassOn
  <2>2. /\ method \in {"idle", "running"} /\ ~failed /\ result = Nothing
        /\ \A k \in DOMAIN served :
             /\ k < layer => EnteredTo(entered[k], H!AtHandler - 1)
             /\ k = layer => EnteredTo(entered[k], inside)
             /\ k > layer => entered[k] = <<>>
    BY <2>1 DEF Inward
  <2>3. method # "running"
    BY <1>1, <2>1 DEF RunsInside
  <2>4. layer' \in 1 .. Len(served) /\ inside' \in 0 .. Len(H!Chain)
    BY <1>1, <2>1
  <2>5. RequestTypes'
    BY <1>1, <1>2, <1>3, <2>1, <2>4 DEF RequestTypes
  <2>6. Inward'
    <3> SUFFICES ASSUME going' = "in" PROVE Inward'
      BY DEF Inward
    <3>1. layer' = layer + 1 /\ inside' = 0
      BY <2>1
    <3>2. EnteredTo(<<>>, 0)
      BY DEF EnteredTo
    <3>3. inside = H!AtHandler - 1
      BY <1>1, <2>1
    <3>4. ASSUME NEW k \in DOMAIN served
          PROVE  /\ k < layer' => EnteredTo(entered[k], H!AtHandler - 1)
                 /\ k = layer' => EnteredTo(entered[k], inside')
                 /\ k > layer' => entered[k] = <<>>
      BY <1>1, <2>2, <3>1, <3>2, <3>3
    <3>5. ~(inside' >= H!AtHandler)
      BY <1>1, <3>1
    <3> QED BY <1>2, <1>3, <2>1, <2>2, <3>4, <3>5 DEF Inward
  <2>7. result' # "method" /\ body' # "method"
    BY <1>1, <2>1, <2>2 DEF FromMethod
  <2>8. RunsInside' /\ FromMethod' /\ Outward'
    BY <2>1, <2>2, <2>3, <2>7 DEF RunsInside, FromMethod, Outward
  <2> QED BY <2>5, <2>6, <2>8
<1>10. CASE H!CallMethod
  <2>1. /\ going = "in" /\ inside = Len(H!Chain) /\ method' = "running"
        /\ UNCHANGED <<layer, entered, inside, going, failed, result, explicit, body>>
    BY <1>10 DEF H!CallMethod
  <2>2. RequestTypes'
    BY <1>2, <1>3, <2>1 DEF RequestTypes
  <2>3. Inward'
    BY <1>2, <1>3, <2>1 DEF Inward
  <2>4. result' # "method" /\ body' # "method"
    BY <1>1, <2>1 DEF Inward, FromMethod
  <2>5. RunsInside' /\ FromMethod' /\ Outward'
    BY <1>3, <2>1, <2>4 DEF RunsInside, FromMethod, Outward
  <2> QED BY <2>2, <2>3, <2>5
<1>11. CASE H!Return
  <2>1. /\ method = "running" /\ method' = "over" /\ explicit' \in {explicit, TRUE}
        /\ UNCHANGED <<layer, entered, inside, body>> /\ going' = "out"
        /\ \/ failed' = FALSE /\ result' \in {"null", "method"}
           \/ failed' = TRUE /\ UNCHANGED result
    BY <1>11 DEF H!Return, H!Returns, H!Throws
  <2>2. going = "in" /\ inside = Len(H!Chain) /\ result = Nothing
    BY <2>1 DEF RunsInside, Inward
  <2>3. failed' \in BOOLEAN /\ explicit' \in BOOLEAN
    BY <2>1 DEF RequestTypes
  <2>4. RequestTypes'
    BY <1>2, <1>3, <2>1, <2>3 DEF RequestTypes
  <2>5. body' # "method"
    BY <2>1, <2>2 DEF FromMethod
  <2>6. ~(inside' < H!AtHandler) /\ (failed' => result' = Nothing)
    BY <1>1, <2>1, <2>2
  <2>7. Inward' /\ RunsInside' /\ FromMethod' /\ Outward'
    BY <1>3, <2>1, <2>5, <2>6 DEF Inward, RunsInside, FromMethod, Outward
  <2> QED BY <2>4, <2>7
<1>12. CASE H!Timeout
  <2>1. /\ inside >= H!AtHandler /\ inside' = H!AtHandler - 1
        /\ going' = "out" /\ failed' = TRUE /\ result' = Nothing
        /\ UNCHANGED <<layer, entered, explicit, body>>
        /\ method' = IF going = "in" THEN "late" ELSE method
    BY <1>12 DEF H!Timeout
  <2>2. inside' \in 0 .. Len(H!Chain) /\ method' \in {"idle", "running", "late", "over"}
    BY <1>1, <2>1 DEF RequestTypes
  <2>3. RequestTypes'
    BY <1>2, <1>3, <2>1, <2>2 DEF RequestTypes
  <2>4. method' # "running"
    BY <2>1 DEF RunsInside
  <2>5. body' # "method"
    BY <1>1, <2>1 DEF FromMethod
  <2>6. Inward' /\ RunsInside' /\ FromMethod' /\ Outward'
    BY <1>1, <2>1, <2>4, <2>5 DEF Inward, RunsInside, FromMethod, Outward
  <2> QED BY <2>3, <2>6
<1>13. CASE H!LateReturn
  <2>1. /\ method = "late" /\ method' = "over"
        /\ UNCHANGED <<layer, entered, inside, going, failed, result, explicit, body>>
    BY <1>13 DEF H!LateReturn, H!LateBody
  <2>2. RequestTypes'
    BY <1>2, <1>3, <2>1 DEF RequestTypes
  <2>3. Inward' /\ RunsInside' /\ FromMethod' /\ Outward'
    BY <1>3, <2>1 DEF Inward, RunsInside, FromMethod, Outward
  <2> QED BY <2>2, <2>3
<1>14. ASSUME going = "out", inside > 0, inside' = inside - 1, failed' \in BOOLEAN, explicit' \in BOOLEAN,
              UNCHANGED <<layer, entered, going, method>>, FromMethod', Outward'
       PROVE  RequestInv'
  <2>1. inside' \in 0 .. Len(H!Chain)
    BY <1>1, <1>14
  <2>2. RequestTypes'
    BY <1>2, <1>3, <1>14, <2>1 DEF RequestTypes
  <2>3. Inward' /\ RunsInside'
    BY <1>14 DEF Inward, RunsInside
  <2> QED BY <1>14, <2>2, <2>3
<1>15. CASE H!LeaveAdvice
  <2>1. /\ going = "out" /\ inside > H!AtHandler /\ inside' = inside - 1
        /\ UNCHANGED <<layer, entered, going, method, explicit, body>>
        /\ \/ failed' = TRUE /\ result' = Nothing
           \/ failed' = FALSE /\ result' \in {H!Chain[inside], "null"}
           \/ UNCHANGED <<failed, result>>
    BY <1>15 DEF H!LeaveAdvice
  <2>2. failed' \in BOOLEAN /\ explicit' \in BOOLEAN /\ inside > 0
    <3>1. failed \in BOOLEAN /\ explicit \in BOOLEAN
      BY DEF RequestTypes
    <3>2. failed' \in BOOLEAN /\ explicit' \in BOOLEAN
      BY ONLY <2>1, <3>1
    <3>3. inside > 0
      BY <1>1, <2>1
    <3> QED BY <3>2, <3>3
  <2>3. H!Chain[inside] \notin {Nothing, "method", "null"}
    BY <1>1, <2>1
  <2>4. body' # "method"
    BY <1>1, <2>1 DEF FromMethod
  <2>5. result' = "method" => method' = "over"
    BY <1>1, <2>1, <2>3 DEF FromMethod
  <2>6. FromMethod'
    BY <2>4, <2>5 DEF FromMethod
  <2>7. failed' => result' = Nothing
    <3>1. failed => result = Nothing
      BY <1>1, <2>1 DEF Outward
    <3> QED BY ONLY <2>1, <3>1
  <2>8. ~(inside' < H!AtHandler)
    BY <1>1, <2>1
  <2>9. Outward'
    BY <1>3, <2>1, <2>7, <2>8 DEF Outward
  <2> QED BY <1>14, <2>1, <2>2, <2>6, <2>9
<1>16. CASE H!LeaveHandler
  <2>1. /\ going = "out" /\ inside = H!AtHandler /\ inside' = inside - 1
        /\ body' = IF failed THEN body ELSE H!Answer
        /\ explicit' = (explicit \/ ~failed)
        /\ UNCHANGED <<layer, entered, going, failed, result, method>>
    BY <1>16 DEF H!LeaveHandler
  <2>2. failed' \in BOOLEAN /\ inside > 0
    BY <1>1, <2>1 DEF RequestTypes
  <2>3. explicit' \in BOOLEAN
    BY <2>1
  <2>4. body # "method" /\ inside' < H!AtHandler /\ ~(inside' >= H!AtHandler)
    BY <1>1, <2>1 DEF FromMethod
  <2>5. body' = "method" => result = "method"
    BY <2>1, <2>4 DEF H!Answer
  <2>6. FromMethod'
    BY <1>3, <2>1, <2>4, <2>5 DEF FromMethod
  <2>7. result = "method" => body' = "method"
    <3> SUFFICES ASSUME result = "method" PROVE body' = "method"
      OBVIOUS
    <3>1. ~failed
      BY <1>1, <2>1 DEF Outward
    <3> QED BY <2>1, <3>1 DEF H!Answer
  <2>8. Outward'
    BY <1>3, <2>1, <2>4, <2>7 DEF Outward
  <2> QED BY <1>14, <2>1, <2>2, <2>3, <2>6, <2>8
<1>17. CASE H!LeaveMiddleware
  <2>1. /\ going = "out" /\ 0 < inside /\ inside < H!AtHandler /\ inside' = inside - 1
        /\ UNCHANGED <<layer, entered, going, result, method, explicit>>
        /\ IF H!Chain[inside] = "acl" THEN UNCHANGED <<failed, body>>
           ELSE failed' \in BOOLEAN /\ body' \in {body, H!Chain[inside]}
    BY <1>17 DEF H!LeaveMiddleware
  <2>2. failed' \in BOOLEAN /\ explicit' \in BOOLEAN /\ inside > 0
    BY <1>1, <2>1 DEF RequestTypes
  <2>3. UNCHANGED body \/ (body' \in Uses /\ body' # "method")
    BY <1>1, <2>1
  <2>4. inside' < H!AtHandler /\ ~(inside' >= H!AtHandler)
    BY <1>1, <2>1
  <2>5. FromMethod'
    BY <1>3, <2>1, <2>3, <2>4 DEF FromMethod
  <2>6. Outward'
    BY <1>3, <2>1, <2>3, <2>4 DEF Outward
  <2> QED BY <1>14, <2>1, <2>2, <2>5, <2>6
<1>18. CASE H!LeaveLayer
  <2>1. /\ going = "out" /\ inside = 0 /\ layer > 1
        /\ layer' = layer - 1 /\ inside' = H!AtHandler - 1
        /\ UNCHANGED <<entered, going, failed, result, method, explicit, body>>
    BY <1>18 DEF H!LeaveLayer
  <2>2. layer' \in 1 .. Len(served) /\ inside' \in 0 .. Len(H!Chain)
    BY <1>1, <2>1
  <2>3. RequestTypes'
    BY <1>1, <1>2, <1>3, <2>1, <2>2 DEF RequestTypes
  <2>4. inside < H!AtHandler /\ inside' < H!AtHandler /\ ~(inside' >= H!AtHandler)
    BY <1>1, <2>1
  <2>5. Inward' /\ RunsInside' /\ FromMethod' /\ Outward'
    BY <1>3, <2>1, <2>4 DEF Inward, RunsInside, FromMethod, Outward
  <2> QED BY <2>3, <2>5
<1>19. CASE H!Done
  <2>1. /\ going = "out" /\ going' = "done" /\ inside = 0
        /\ UNCHANGED <<layer, entered, inside, failed, result, method, explicit, body>>
    BY <1>19 DEF H!Done
  <2>2. RequestTypes'
    BY <1>2, <1>3, <2>1 DEF RequestTypes
  <2>3. Inward' /\ RunsInside' /\ FromMethod' /\ Outward'
    BY <1>2, <1>3, <2>1 DEF Inward, RunsInside, FromMethod, Outward
  <2> QED BY <2>2, <2>3
<1>20. CASE UNCHANGED httpVars
  <2>1. UNCHANGED <<layer, entered, inside, going, failed, result, method, explicit, body>>
    BY <1>20 DEF httpVars
  <2>2. RequestTypes'
    BY <1>2, <1>3, <2>1 DEF RequestTypes
  <2>3. Inward'
    BY <1>2, <1>3, <2>1 DEF Inward
  <2>4. RunsInside' /\ FromMethod' /\ Outward'
    BY <1>3, <2>1 DEF RunsInside, FromMethod, Outward
  <2> QED BY <2>2, <2>3, <2>4
<1> QED
  BY <1>5, <1>6, <1>7, <1>8, <1>9, <1>10, <1>11, <1>12, <1>13, <1>15, <1>16, <1>17, <1>18, <1>19,
     <1>20 DEF H!Next

\* What was entered up to the handler, or further, wraps a method.
LEMMA EnteredIsWrapped ==
  ASSUME H!HttpAssumption, httpHost \in {"egg", "worker"}, acl \in BOOLEAN,
         NEW n \in 0 .. Len(H!Chain), n >= H!AtHandler - 1, NEW e, EnteredTo(e, n)
  PROVE  H!Wrapped(e)
<1>1. PICK chain, l : chain = H!Chain /\ l = H!Layers
  OBVIOUS
<1>2. PICK at : at = H!AtHandler
  OBVIOUS
<1>3. /\ Len(chain) \in Nat /\ at \in 1 .. Len(chain)
      /\ \A j, k \in 1 .. Len(chain) : chain[j] = chain[k] => j = k
      /\ DOMAIN l = 1 .. at - 1 /\ \A k \in 1 .. at - 1 : chain[k] = l[k]
  BY <1>1, <1>2, ChainFacts
<1>4. /\ H!Fns \subseteq Held(l)
      /\ \A c \in Held(ClassFns), m \in Held(MethodFns) : Before(l, c, m)
      /\ httpHost = "egg" /\ acl => "acl" \in Held(l) /\ \A f \in H!Fns : Before(l, f, "acl")
  BY <1>1, Sides
<1>5. e \in Seq(Layered) /\ Len(e) = n /\ \A k \in 1 .. n : e[k] = chain[k]
  BY <1>1 DEF EnteredTo
<1>6. /\ DOMAIN e = 1 .. n /\ \A k \in DOMAIN e : k \in 1 .. Len(chain) /\ e[k] = chain[k]
      /\ \A k \in DOMAIN l : k \in DOMAIN e /\ e[k] = l[k]
  BY <1>1, <1>2, <1>3, <1>5
<1>7. \A j, k \in DOMAIN e : e[j] = e[k] => j = k
  BY <1>3, <1>6
<1>8. Held(l) \subseteq Held(e) /\ \A a, b : Before(l, a, b) => Before(e, a, b)
  BY <1>6 DEF Held, Before
<1>9. ASSUME NEW a, NEW b, Before(e, a, b) PROVE H!At(e, a) < H!At(e, b)
  <2>1. PICK j \in DOMAIN e, k \in DOMAIN e : j < k /\ e[j] = a /\ e[k] = b
    BY <1>9 DEF Before
  <2>2. \A i \in DOMAIN e : (e[i] = a => i = j) /\ (e[i] = b => i = k)
    BY <1>7, <2>1
  <2>3. H!At(e, a) = j
    BY <2>1, <2>2 DEF H!At
  <2>4. H!At(e, b) = k
    BY <2>1, <2>2 DEF H!At
  <2> QED BY <2>1, <2>3, <2>4
<1>10. /\ H!ToSet(e) = Held(e) /\ H!ToSet(ClassFns) = Held(ClassFns)
       /\ H!ToSet(MethodFns) = Held(MethodFns)
  BY DEF H!ToSet, Held
<1>11. \A c \in H!ToSet(ClassFns), m \in H!ToSet(MethodFns) : H!At(e, c) < H!At(e, m)
  BY <1>4, <1>8, <1>9, <1>10
<1>12. httpHost = "egg" /\ acl =>
         "acl" \in H!ToSet(e) /\ \A f \in H!Fns : H!At(e, f) < H!At(e, "acl")
  BY <1>4, <1>8, <1>9, <1>10
<1>13. H!Fns \subseteq H!ToSet(e)
  BY <1>4, <1>8, <1>10
<1> QED BY <1>7, <1>11, <1>12, <1>13 DEF H!Wrapped

LEMMA RequestHolds == H!HttpAssumption /\ RequestInv => AnswersOnce
<1> SUFFICES ASSUME H!HttpAssumption, RequestInv PROVE AnswersOnce
  OBVIOUS
<1> USE DEF RequestInv
<1>1. H!AnswersOnce
  <2>1. H!AtHandler \in 1 .. Len(H!Chain) /\ Len(H!Chain) \in Nat
    BY RequestFacts
  <2>2. going = "done" => going # "in" /\ inside < H!AtHandler
    BY <2>1 DEF Outward
  <2>3. method = "late" => body # "method"
    BY DEF FromMethod
  <2>4. body = "method" => method = "over" /\ result = "method"
    BY DEF FromMethod
  <2>5. going = "done" /\ result = "method" => body \in {"method"} \cup H!Fns \cup H!Advices
    BY <2>2 DEF Outward, Uses
  <2> QED BY <2>3, <2>4, <2>5 DEF H!AnswersOnce
<1>2. ASSUME method = "running" PROVE H!MethodIsWrapped
  <2>1. /\ Len(H!Chain) \in Nat /\ H!AtHandler \in 1 .. Len(H!Chain)
        /\ DOMAIN served = 1 .. Len(served) /\ layer \in DOMAIN served
    BY RequestFacts
  <2>2. httpHost \in {"egg", "worker"} /\ acl \in BOOLEAN
    BY DEF RequestTypes
  <2>3. going = "in" /\ inside = Len(H!Chain)
    BY <1>2 DEF RunsInside
  <2>4. H!Takes(layer)
    BY <2>1, <2>3 DEF Inward
  <2>5. ASSUME NEW k \in DOMAIN served
        PROVE  IF k <= layer THEN H!Wrapped(entered[k]) ELSE entered[k] = <<>>
    <3>1. CASE k < layer
      <4>1. EnteredTo(entered[k], H!AtHandler - 1)
        BY <2>3, <3>1 DEF Inward
      <4>2. H!AtHandler - 1 \in 0 .. Len(H!Chain) /\ H!AtHandler - 1 >= H!AtHandler - 1
        BY <2>1
      <4>3. H!Wrapped(entered[k])
        BY <2>2, <4>1, <4>2, EnteredIsWrapped
      <4> QED BY <2>1, <3>1, <4>3
    <3>2. CASE k = layer
      <4>1. EnteredTo(entered[k], Len(H!Chain))
        BY <2>3, <3>2 DEF Inward
      <4>2. Len(H!Chain) \in 0 .. Len(H!Chain) /\ Len(H!Chain) >= H!AtHandler - 1
        BY <2>1
      <4>3. H!Wrapped(entered[k])
        BY <2>2, <4>1, <4>2, EnteredIsWrapped
      <4> QED BY <2>1, <3>2, <4>3
    <3>3. CASE k > layer
      <4>1. entered[k] = <<>>
        BY <2>3, <3>3 DEF Inward
      <4> QED BY <2>1, <3>3, <4>1
    <3> QED BY <2>1, <3>1, <3>2, <3>3
  <2>6. H!Advices \subseteq H!ToSet(entered[layer])
    <3>1. PICK e : e = entered[layer]
      OBVIOUS
    <3>2. EnteredTo(e, Len(H!Chain))
      BY <2>1, <2>3, <3>1 DEF Inward
    <3>3. /\ DOMAIN H!Chain = 1 .. Len(H!Chain) /\ H!Advices \subseteq Held(H!Chain)
      BY <2>2, ChainFacts
    <3>4. DOMAIN e = 1 .. Len(H!Chain) /\ \A k \in 1 .. Len(H!Chain) : e[k] = H!Chain[k]
      BY <3>2 DEF EnteredTo
    <3>5. Held(e) = Held(H!Chain)
      BY <3>3, <3>4 DEF Held
    <3> QED BY <3>1, <3>3, <3>5 DEF H!ToSet, Held
  <2> QED BY <2>4, <2>5, <2>6 DEF H!MethodIsWrapped
<1>3. method # "running" => H!MethodIsWrapped
  BY DEF H!MethodIsWrapped
<1> QED BY <1>1, <1>2, <1>3 DEF AnswersOnce

-----------------------------------------------------------------------------
(* Sequences that have each element once, and the part of one that is in a set *)

LEMMA LeastOf ==
  ASSUME NEW S \in SUBSET Nat, S # {}
  PROVE  \E n \in S : \A m \in S : n <= m
<1>1. PICK n \in S : \A m \in Nat : <<m, n>> \in OpToRel(<, Nat) => m \notin S
  BY NatLessThanWellFounded, WFMin
<1>2. \A m \in S : ~(m < n)
  BY <1>1 DEF OpToRel
<1> QED
  BY <1>2

\* Induction over 0 .. n.
LEMMA Climb ==
  ASSUME NEW n \in Nat, NEW S, 0 \in S, \A i \in 1 .. n : i - 1 \in S => i \in S
  PROVE  0 .. n \subseteq S
<1> DEFINE T == {i \in 0 .. n : i \notin S}
<1> SUFFICES ASSUME T # {} PROVE FALSE
  OBVIOUS
<1>1. T \in SUBSET Nat
  OBVIOUS
<1>2. PICK m \in T : \A k \in T : m <= k
  BY <1>1, LeastOf
<1>3. m \in 1 .. n
  BY <1>2
<1>4. m - 1 \notin T /\ m - 1 \in 0 .. n
  BY <1>2, <1>3
<1> QED
  BY <1>2, <1>3, <1>4

\* A function that is defined by recursion over 0 .. n.
Computes(f, n, x0, G) == f[0] = x0 /\ \A i \in 1 .. n : f[i] = G[i][f[i - 1]]
Computed(n, X, x0, G) == \E f \in [0 .. n -> X] : Computes(f, n, x0, G)

LEMMA Recursion ==
  ASSUME NEW n \in Nat, NEW X, NEW x0 \in X, NEW G \in [1 .. n -> [X -> X]]
  PROVE  Computed(n, X, x0, G)
<1> DEFINE S == {m \in 0 .. n : \E f \in [0 .. m -> X] : Computes(f, m, x0, G)}
<1>1. 0 \in S
  <2> DEFINE f == [i \in 0 .. 0 |-> x0]
  <2>1. f \in [0 .. 0 -> X] /\ f[0] = x0 /\ \A i \in 1 .. 0 : f[i] = G[i][f[i - 1]]
    OBVIOUS
  <2> HIDE DEF f
  <2> QED
    BY <2>1 DEF Computes
<1>2. ASSUME NEW m \in 1 .. n, m - 1 \in S PROVE m \in S
  <2>1. PICK f \in [0 .. m - 1 -> X] :
          f[0] = x0 /\ \A i \in 1 .. m - 1 : f[i] = G[i][f[i - 1]]
    BY <1>2 DEF Computes
  <2> DEFINE g == [i \in 0 .. m |-> IF i = m THEN G[m][f[m - 1]] ELSE f[i]]
  <2>2. G[m][f[m - 1]] \in X
    OBVIOUS
  <2>3. g \in [0 .. m -> X] /\ g[0] = x0
    BY <2>1, <2>2
  <2>4. \A i \in 1 .. m : g[i] = G[i][g[i - 1]]
    <3> TAKE i \in 1 .. m
    <3>1. CASE i = m
      BY <3>1
    <3>2. CASE i # m
      <4>1. i \in 1 .. m - 1 /\ i - 1 # m /\ i \in 0 .. m /\ i - 1 \in 0 .. m
        BY <3>2
      <4> QED
        BY <2>1, <3>2, <4>1
    <3> QED
      BY <3>1, <3>2
  <2> HIDE DEF g
  <2>5. m \in 0 .. n /\ Computes(g, m, x0, G)
    BY <2>3, <2>4 DEF Computes
  <2> QED
    BY <2>3, <2>5
<1> HIDE DEF S
<1>3. n \in S
  <2>1. 0 .. n \subseteq S
    BY <1>1, <1>2, Climb
  <2> QED
    BY <2>1
<1> QED
  BY <1>3 DEF S, Computed

\* A sequence of elements of D that has each of a set once.
Lists(s, D, S) ==
  s \in Seq(D) /\ MS!Range(s) = S /\ \A i, j \in DOMAIN s : s[i] = s[j] => i = j

LEMMA ListsNone == \A D : Lists(<<>>, D, {})
BY DEF Lists, MS!Range

LEMMA ListsBoth ==
  ASSUME NEW D, NEW S, NEW T, NEW s, Lists(s, D, S), NEW t, Lists(t, D, T), S \cap T = {}
  PROVE  Lists(s \o t, D, S \cup T)
<1> DEFINE u == s \o t
           m == Len(s)
           n == Len(t)
<1>1. s \in Seq(D) /\ t \in Seq(D) /\ m \in Nat /\ n \in Nat /\ DOMAIN s = 1 .. m /\ DOMAIN t = 1 .. n
  BY DEF Lists
<1>2. /\ u \in Seq(D) /\ DOMAIN u = 1 .. m + n
      /\ \A i \in 1 .. m : u[i] = s[i] /\ i \in 1 .. m + n
      /\ \A i \in 1 .. n : u[m + i] = t[i] /\ m + i \in 1 .. m + n
  <2>1. u \in Seq(D) /\ Len(u) = m + n /\ \A i \in 1 .. m + n : u[i] = IF i <= m THEN s[i] ELSE t[i - m]
    BY <1>1, ConcatProperties
  <2> HIDE DEF u, m, n
  <2> QED
    BY <1>1, <2>1
<1>3. \A i \in 1 .. m + n : i \in 1 .. m \/ (i - m \in 1 .. n /\ m + (i - m) = i)
  BY <1>1
<1>10. \A i \in 1 .. m + n : i - m \in 1 .. n => u[i] = t[i - m]
  <2> TAKE i \in 1 .. m + n
  <2> HAVE i - m \in 1 .. n
  <2>1. u[m + (i - m)] = t[i - m] /\ m + (i - m) = i
    BY <1>1, <1>2
  <2> QED
    BY <2>1
<1> HIDE DEF u, m, n
<1>4. S = {s[i] : i \in 1 .. m} /\ T = {t[i] : i \in 1 .. n} /\ MS!Range(u) = {u[i] : i \in 1 .. m + n}
  BY <1>1, <1>2 DEF Lists, MS!Range
<1>5. MS!Range(u) = S \cup T
  BY <1>2, <1>3, <1>4
<1>6. ASSUME NEW i \in 1 .. m + n, NEW j \in 1 .. m + n, u[i] = u[j] PROVE i = j
  <2>1. CASE i \in 1 .. m /\ j \in 1 .. m
    BY <1>1, <1>2, <1>6, <2>1 DEF Lists
  <2>2. CASE i - m \in 1 .. n /\ j - m \in 1 .. n
    <3>1. u[i] = t[i - m] /\ u[j] = t[j - m]
      BY <1>10, <1>6, <2>2
    <3>2. i - m = j - m
      BY <1>1, <1>6, <2>2, <3>1 DEF Lists
    <3> QED
      BY <1>1, <3>2
  <2>3. \A k \in 1 .. m : \A l \in 1 .. m + n : l - m \in 1 .. n => u[k] # u[l]
    <3> TAKE k \in 1 .. m
    <3> TAKE l \in 1 .. m + n
    <3> HAVE l - m \in 1 .. n
    <3>1. u[k] = s[k] /\ u[l] = t[l - m]
      BY <1>2, <1>10
    <3>2. s[k] \in S /\ t[l - m] \in T
      BY <1>4
    <3> QED
      BY <3>1, <3>2
  <2> QED
    BY <1>3, <1>6, <2>1, <2>2, <2>3
<1> QED
  BY <1>2, <1>5, <1>6 DEF Lists, u

LEMMA ListsOne == ASSUME NEW D, NEW e \in D PROVE Lists(<<e>>, D, {e})
<1>1. <<e>> \in Seq(D) /\ DOMAIN <<e>> = 1 .. 1 /\ <<e>>[1] = e
  OBVIOUS
<1> QED
  BY <1>1 DEF Lists, MS!Range

LEMMA ListsMore ==
  ASSUME NEW D, NEW S, NEW s, Lists(s, D, S), NEW e \in D, e \notin S
  PROVE  Lists(Append(s, e), D, S \cup {e})
<1>1. Lists(s \o <<e>>, D, S \cup {e})
  BY ListsOne, ListsBoth
<1>2. s \in Seq(D)
  BY DEF Lists
<1>3. s \o <<e>> = Append(s, e)
  BY <1>2, AppendIsConcat
<1> QED
  BY <1>1, <1>3

\* Where what is left of a sequence was in it.
PlacedBy(pos, t, s, n, T) ==
  /\ pos \in [DOMAIN t -> 1 .. n]
  /\ \A k \in DOMAIN t : t[k] = s[pos[k]] /\ t[k] \in T
  /\ \A j, k \in DOMAIN t : j < k => pos[j] < pos[k]
  /\ \A i \in 1 .. n : s[i] \in T => \E k \in DOMAIN t : pos[k] = i
Picked(t, s, n, T) == \E pos : PlacedBy(pos, t, s, n, T)

LEMMA PickMore ==
  ASSUME NEW D, NEW t \in Seq(D), NEW s, NEW n \in Nat, NEW T, Picked(t, s, n, T), s[n + 1] \in D
  PROVE  /\ s[n + 1] \in T => Picked(Append(t, s[n + 1]), s, n + 1, T)
         /\ s[n + 1] \notin T => Picked(t, s, n + 1, T)
<1>1. PICK pos : PlacedBy(pos, t, s, n, T)
  BY DEF Picked
<1> DEFINE m == Len(t)
           u == Append(t, s[n + 1])
           next == [k \in 1 .. m + 1 |-> IF k = m + 1 THEN n + 1 ELSE pos[k]]
<1>2. m \in Nat /\ DOMAIN t = 1 .. m /\ DOMAIN u = 1 .. m + 1 /\ u[m + 1] = s[n + 1]
      /\ \A k \in 1 .. m : u[k] = t[k]
  BY AppendProperties
<1>3. /\ \A k \in 1 .. m + 1 : k \in 1 .. m \/ k = m + 1
      /\ m + 1 \in 1 .. m + 1 /\ m + 1 \notin 1 .. m /\ \A k \in 1 .. m : k \in 1 .. m + 1 /\ k < m + 1
      /\ \A i \in 1 .. n + 1 : i \in 1 .. n \/ i = n + 1
      /\ n + 1 \in 1 .. n + 1 /\ \A i \in 1 .. n : i \in 1 .. n + 1 /\ i < n + 1
  BY <1>2
<1>4. ASSUME s[n + 1] \notin T PROVE Picked(t, s, n + 1, T)
  <2>1. pos \in [DOMAIN t -> 1 .. n] /\ 1 .. n \subseteq 1 .. n + 1
    BY <1>1 DEF PlacedBy
  <2>2. pos \in [DOMAIN t -> 1 .. n + 1]
    BY <2>1
  <2>3. PlacedBy(pos, t, s, n + 1, T)
    BY <1>1, <1>3, <1>4, <2>2 DEF PlacedBy
  <2> QED
    BY <2>3 DEF Picked
<1> HIDE DEF m, u
<1>5. /\ next \in [1 .. m + 1 -> 1 .. n + 1] /\ next[m + 1] = n + 1
      /\ \A k \in 1 .. m : next[k] = pos[k] /\ pos[k] \in 1 .. n
  BY <1>1, <1>2, <1>3 DEF PlacedBy
<1> HIDE DEF next
<1>6. ASSUME s[n + 1] \in T PROVE PlacedBy(next, u, s, n + 1, T)
  <2>1. \A k \in 1 .. m + 1 : u[k] = s[next[k]] /\ u[k] \in T
    BY <1>1, <1>2, <1>3, <1>5, <1>6 DEF PlacedBy
  <2>2. \A j, k \in 1 .. m + 1 : j < k => next[j] < next[k]
    <3> TAKE j, k \in 1 .. m + 1
    <3> HAVE j < k
    <3>1. j \in 1 .. m
      BY <1>2, <1>3
    <3>2. CASE k = m + 1
      BY <1>3, <1>5, <3>1, <3>2
    <3>3. CASE k \in 1 .. m
      BY <1>1, <1>2, <1>5, <3>1, <3>3 DEF PlacedBy
    <3> QED
      BY <1>3, <3>2, <3>3
  <2>3. \A i \in 1 .. n + 1 : s[i] \in T => \E k \in 1 .. m + 1 : next[k] = i
    BY <1>1, <1>2, <1>3, <1>5 DEF PlacedBy
  <2> QED
    BY <1>2, <1>5, <2>1, <2>2, <2>3 DEF PlacedBy
<1> QED
  BY <1>4, <1>6 DEF Picked, u

\* What is within a set, of a sequence.
LEMMA WithinPicks ==
  ASSUME NEW D, NEW s \in Seq(D), NEW T
  PROVE  /\ R!Within(s, T) \in Seq(D) /\ Picked(R!Within(s, T), s, Len(s), T)
         /\ MS!Within(s, T) = R!Within(s, T)
<1> DEFINE n == Len(s)
           Kept(i, t) == IF s[i] \in T THEN Append(t, s[i]) ELSE t
           Body(f) == [i \in 0 .. n |-> IF i = 0 THEN <<>> ELSE Kept(i, f[i - 1])]
           kept == CHOOSE f : f = Body(f)
           G == [i \in 1 .. n |-> [t \in Seq(D) |-> Kept(i, t)]]
           Good == {i \in 0 .. n : kept[i] \in Seq(D) /\ Picked(kept[i], s, i, T)}
<1>1. n \in Nat /\ DOMAIN s = 1 .. n /\ \A i \in 1 .. n : s[i] \in D
  OBVIOUS
<1>2. \A i \in 1 .. n, t \in Seq(D) : Kept(i, t) \in Seq(D)
  BY <1>1, AppendProperties
<1> HIDE DEF Kept
<1>3. kept = Body(kept)
  <2>1. G \in [1 .. n -> [Seq(D) -> Seq(D)]]
    BY <1>1, <1>2
  <2>2. <<>> \in Seq(D)
    OBVIOUS
  <2> HIDE DEF n, G
  <2>3. Computed(n, Seq(D), <<>>, G)
    BY <1>1, <2>1, <2>2, Recursion
  <2>4. PICK f \in [0 .. n -> Seq(D)] : f[0] = <<>> /\ \A i \in 1 .. n : f[i] = G[i][f[i - 1]]
    BY <2>3 DEF Computed, Computes
  <2>5. \A i \in 1 .. n : f[i - 1] \in Seq(D)
    BY <1>1, <2>4
  <2>6. \A i \in 1 .. n : f[i] = Kept(i, f[i - 1])
    BY <1>1, <2>4, <2>5 DEF G
  <2>7. f = Body(f)
    BY <1>1, <2>4, <2>6
  <2> QED
    BY <2>7
<1> HIDE DEF kept
<1>4. kept[0] = <<>> /\ \A i \in 1 .. n : kept[i] = Kept(i, kept[i - 1])
  BY <1>1, <1>3
<1>5. R!Within(s, T) = kept[n] /\ MS!Within(s, T) = kept[n]
  BY DEF R!Within, MS!Within, kept, Kept
<1> HIDE DEF n
<1>6. 0 \in Good
  <2>1. PlacedBy(<<>>, <<>>, s, 0, T)
    BY DEF PlacedBy
  <2>2. Picked(kept[0], s, 0, T)
    BY <1>4, <2>1 DEF Picked
  <2>3. kept[0] \in Seq(D) /\ 0 \in 0 .. n
    BY <1>1, <1>4
  <2> QED
    BY <2>2, <2>3
<1>7. ASSUME NEW i \in 1 .. n, i - 1 \in Good PROVE i \in Good
  <2> DEFINE t == kept[i - 1]
             k == i - 1
  <2>1. t \in Seq(D) /\ Picked(t, s, k, T) /\ kept[i] = Kept(i, t) /\ i \in 0 .. n
    BY <1>1, <1>4, <1>7
  <2>2. k \in Nat /\ k + 1 = i /\ s[k + 1] \in D
    BY <1>1
  <2> HIDE DEF t, k
  <2>3. /\ s[k + 1] \in T => Picked(Append(t, s[k + 1]), s, k + 1, T)
        /\ s[k + 1] \notin T => Picked(t, s, k + 1, T)
    BY <2>1, <2>2, PickMore
  <2>4. Picked(Kept(i, t), s, i, T) /\ Kept(i, t) \in Seq(D)
    BY <1>2, <2>1, <2>2, <2>3 DEF Kept
  <2> QED
    BY <2>1, <2>4
<1> HIDE DEF Good
<1>8. 0 .. n \subseteq Good
  BY <1>1, <1>6, <1>7, Climb
<1>9. n \in 0 .. n
  BY <1>1
<1> QED
  BY <1>5, <1>8, <1>9 DEF Good, n

LEMMA WithinRange ==
  ASSUME NEW D, NEW s \in Seq(D), NEW T
  PROVE  R!Range(R!Within(s, T)) = R!Range(s) \cap T
<1> DEFINE t == R!Within(s, T)
<1>1. PICK pos : PlacedBy(pos, t, s, Len(s), T)
  BY WithinPicks DEF Picked
<1>2. DOMAIN s = 1 .. Len(s)
  OBVIOUS
<1> HIDE DEF t
<1>3. \A x : x \in R!Range(t) => x \in R!Range(s) \cap T
  BY <1>1, <1>2 DEF PlacedBy, R!Range
<1>4. \A x : x \in R!Range(s) \cap T => x \in R!Range(t)
  BY <1>1, <1>2 DEF PlacedBy, R!Range
<1> QED
  BY <1>3, <1>4 DEF t

\* What is within a set, of a sequence that has each element once.
LEMMA WithinIs ==
  ASSUME NEW D, NEW S, NEW s, Lists(s, D, S), NEW T
  PROVE  Lists(MS!Within(s, T), D, S \cap T)
<1> DEFINE t == R!Within(s, T)
<1>1. s \in Seq(D) /\ DOMAIN s = 1 .. Len(s) /\ S = R!Range(s)
  BY DEF Lists, MS!Range, R!Range
<1>2. t = MS!Within(s, T) /\ t \in Seq(D) /\ R!Range(t) = S \cap T
  BY <1>1, WithinPicks, WithinRange
<1>3. PICK pos : PlacedBy(pos, t, s, Len(s), T)
  BY <1>1, WithinPicks DEF Picked
<1> HIDE DEF t
<1>4. DOMAIN t = 1 .. Len(t) /\ Len(t) \in Nat
  BY <1>2
<1>5. ASSUME NEW i \in DOMAIN t, NEW j \in DOMAIN t, t[i] = t[j] PROVE i = j
  <2>1. pos[i] = pos[j]
    BY <1>1, <1>3, <1>5 DEF PlacedBy, Lists
  <2>2. ~(i < j) /\ ~(j < i)
    BY <1>1, <1>3, <1>4, <2>1 DEF PlacedBy
  <2> QED
    BY <1>4, <2>2
<1> QED
  BY <1>2, <1>5 DEF Lists, MS!Range, R!Range

-----------------------------------------------------------------------------
(* What the decorators of a controller record, and a call made of it *)

MCItems == UNION {MS!Build(c) : c \in MCClasses}

\* What is recorded is the value of a decorator.
LEMMA RecordedIs ==
  ASSUME MS!McpServerAssumption, NEW c \in MCClasses, NEW is, NEW on,
         MS!Recorded(MS!MetaOf(c), is, on) # Nothing
  PROVE  \E d \in MS!Range(c.decorators) :
           d.is = is /\ d.on = on /\ d.value = MS!Recorded(MS!MetaOf(c), is, on)
<1> DEFINE ds == c.decorators
           n == Len(ds)
           key == <<is, on>>
           With == {i \in DOMAIN ds : MS!Key(ds[i]) = key}
           Left == {m \in 0 .. n : n - m \in With}
<1>1. ds \in Seq(MS!Range(ds)) /\ n \in Nat /\ DOMAIN ds = 1 .. n
  <2>1. MS!IsSequence(ds)
    BY DEF MS!McpServerAssumption
  <2>2. ds \in Seq(MS!Range(ds))
    BY <2>1 DEF MS!IsSequence
  <2> QED
    BY <2>2
<1>2. key \in DOMAIN MS!MetaOf(c) /\ MS!Recorded(MS!MetaOf(c), is, on) = MS!MetaOf(c)[key]
  BY DEF MS!Recorded
<1>3. key \in {MS!Key(d) : d \in MS!Range(ds)} /\ MS!MetaOf(c)[key] = MS!Decorate(ds, key)
  BY <1>2 DEF MS!MetaOf
<1>4. PICK k \in With : TRUE
  BY <1>3 DEF MS!Range
<1> HIDE DEF n
<1>5. Left \in SUBSET Nat /\ n - k \in Left
  BY <1>1, <1>4
<1>6. PICK m \in Left : \A l \in Left : m <= l
  BY <1>5, LeastOf
<1>7. n - m \in With /\ \A j \in With : ~(j > n - m)
  <2>1. \A j \in With : j \in Nat /\ n - j \in Left
    BY <1>1
  <2>2. n - m \in With /\ m \in Nat
    BY <1>1
  <2>3. \A j \in With : m <= n - j
    BY <1>6, <2>1
  <2> HIDE DEF With, Left
  <2>4. \A j \in With : ~(j > n - m)
    BY <1>1, <2>1, <2>2, <2>3
  <2> QED
    BY <2>2, <2>4
<1> DEFINE LastOfKey(i) == /\ MS!Key(ds[i]) = key
                           /\ \A j \in DOMAIN ds : j > i => MS!Key(ds[j]) # key
           last == CHOOSE i \in DOMAIN ds : LastOfKey(i)
<1>8. last \in DOMAIN ds /\ LastOfKey(last)
  <2>1. \E i \in DOMAIN ds : LastOfKey(i)
    BY <1>7
  <2> HIDE DEF LastOfKey
  <2> QED
    BY <2>1
<1>9. MS!Decorate(ds, key) = ds[last].value
  BY DEF MS!Decorate
<1> HIDE DEF last
<1>10. ds[last] \in MS!Range(ds) /\ ds[last].is = is /\ ds[last].on = on
  BY <1>8 DEF MS!Range, MS!Key
<1> QED
  BY <1>2, <1>3, <1>9, <1>10

\* A parameter is not two things.
LEMMA RecordedApart ==
  ASSUME MS!McpServerAssumption, NEW c \in MCClasses, NEW on, NEW is \in {"extra", "context"},
         NEW other \in {"extra", "context", "toolArgs", "promptArgs"}, is # other,
         MS!Recorded(MS!MetaOf(c), is, on) # Nothing, MS!Recorded(MS!MetaOf(c), other, on) # Nothing
  PROVE  MS!Recorded(MS!MetaOf(c), is, on) # MS!Recorded(MS!MetaOf(c), other, on)
<1>1. PICK d \in MS!Range(c.decorators) :
        d.is = is /\ d.on = on /\ d.value = MS!Recorded(MS!MetaOf(c), is, on)
  BY RecordedIs
<1>2. PICK e \in MS!Range(c.decorators) :
        e.is = other /\ e.on = on /\ e.value = MS!Recorded(MS!MetaOf(c), other, on)
  BY RecordedIs
<1>3. d.value # e.value
  BY <1>1, <1>2 DEF MS!McpServerAssumption
<1> QED
  BY <1>1, <1>2, <1>3

\* What a method asks for is asked for at parameters of their own; a resource has no
\* arguments of a client.
LEMMA ItemApart ==
  ASSUME MS!McpServerAssumption, NEW item \in MCItems
  PROVE  /\ item.extra # Nothing /\ item.context # Nothing => item.extra # item.context
         /\ item.extra # Nothing /\ item.detail # Nothing => item.extra # item.detail
         /\ item.context # Nothing /\ item.detail # Nothing => item.context # item.detail
         /\ item.kind = "resource" => item.detail = Nothing
<1>1. PICK c \in MCClasses : item \in MS!Build(c)
  BY DEF MCItems
<1> DEFINE meta == MS!MetaOf(c)
<1>2. PICK on : \/ item = MS!Tool(meta, c.proto, on)
                \/ item = MS!Resource(meta, c.proto, on)
                \/ item = MS!Prompt(meta, c.proto, on)
  BY <1>1 DEF MS!Build
<1>3. /\ item.extra = MS!Recorded(meta, "extra", on) /\ item.context = MS!Recorded(meta, "context", on)
      /\ \/ item.kind = "tool" /\ item.detail = MS!Recorded(meta, "toolArgs", on)
         \/ item.kind = "resource" /\ item.detail = Nothing
         \/ item.kind = "prompt" /\ item.detail = MS!Recorded(meta, "promptArgs", on)
  BY <1>2 DEF MS!Tool, MS!Resource, MS!Prompt, MS!Item
<1> HIDE DEF meta
<1>4. item.extra # Nothing /\ item.context # Nothing => item.extra # item.context
  BY <1>3, RecordedApart DEF meta
<1>5. ASSUME NEW is \in {"extra", "context"}, MS!Recorded(meta, is, on) # Nothing, item.detail # Nothing
      PROVE  MS!Recorded(meta, is, on) # item.detail
  BY <1>3, <1>5, RecordedApart DEF meta
<1> QED
  BY <1>3, <1>4, <1>5

\* A call of a method has what the method asks for where it asks for it.
LEMMA ArgsOfItem ==
  ASSUME MS!McpServerAssumption, NEW item \in MCItems
  PROVE  LET args == MS!BuildArgs(item) IN
         /\ item.extra # Nothing => args[item.extra] = "extra"
         /\ item.context # Nothing => args[item.context] = "context"
         /\ item.detail # Nothing => args[item.detail] = "args"
<1> DEFINE sdk == MS!SdkArgs(item)
           details == IF MS!HasSchema(item) THEN MS!Placed(sdk, item.detail, sdk[1]) ELSE sdk
           extras == MS!Placed(details, item.extra, MS!ExtraOf(item))
           args == MS!Placed(extras, item.context, "context")
<1>1. \A s, i, v : i # Nothing => MS!Placed(s, i, v)[i] = v
  BY DEF MS!Placed
<1>2. \A s, i, v : \A k \in DOMAIN s : k # i =>
        k \in DOMAIN MS!Placed(s, i, v) /\ MS!Placed(s, i, v)[k] = s[k]
  BY DEF MS!Placed
<1>3. \A s, i, v : i # Nothing => i \in DOMAIN MS!Placed(s, i, v)
  BY DEF MS!Placed
<1>4. MS!ExtraOf(item) = "extra"
  <2>1. CASE item.kind = "resource" /\ item.template
    <3>1. sdk = <<"uri", "variables", "extra">>
      BY <2>1 DEF MS!SdkArgs
    <3> HIDE DEF sdk
    <3>2. MS!ExtraOf(item) = sdk[3]
      BY <2>1 DEF MS!ExtraOf, sdk
    <3> QED
      BY <3>1, <3>2
  <2>2. CASE item.kind = "resource" /\ ~item.template
    <3>1. sdk = <<"uri", "extra">>
      BY <2>2 DEF MS!SdkArgs
    <3> HIDE DEF sdk
    <3>2. MS!ExtraOf(item) = sdk[2]
      BY <2>2 DEF MS!ExtraOf, sdk
    <3> QED
      BY <3>1, <3>2
  <2>3. CASE item.kind # "resource" /\ MS!HasSchema(item)
    <3>1. sdk = <<"args", "extra">>
      BY <2>3 DEF MS!SdkArgs
    <3> HIDE DEF sdk
    <3>2. MS!ExtraOf(item) = sdk[2]
      BY <2>3 DEF MS!ExtraOf, sdk
    <3> QED
      BY <3>1, <3>2
  <2>4. CASE item.kind # "resource" /\ ~MS!HasSchema(item)
    <3>1. sdk = <<"extra">>
      BY <2>4 DEF MS!SdkArgs
    <3> HIDE DEF sdk
    <3>2. MS!ExtraOf(item) = sdk[1]
      BY <2>4 DEF MS!ExtraOf, sdk
    <3> QED
      BY <3>1, <3>2
  <2> QED
    BY <2>1, <2>2, <2>3, <2>4
<1>5. item.detail # Nothing => MS!HasSchema(item) /\ sdk[1] = "args"
  BY ItemApart DEF MS!SdkArgs, MS!HasSchema
<1>6. MS!BuildArgs(item) = args
  BY DEF MS!BuildArgs
<1> HIDE DEF sdk
<1>7. item.context # Nothing => args[item.context] = "context"
  BY <1>1
<1>8. ASSUME item.extra # Nothing PROVE args[item.extra] = "extra"
  BY <1>1, <1>2, <1>3, <1>4, <1>8, ItemApart
<1>9. ASSUME item.detail # Nothing PROVE args[item.detail] = "args"
  <2>1. item.detail \in DOMAIN details /\ details[item.detail] = "args"
    BY <1>1, <1>3, <1>5, <1>9
  <2> HIDE DEF details
  <2>2. item.detail \in DOMAIN extras /\ extras[item.detail] = "args"
    BY <1>2, <1>9, <2>1, ItemApart
  <2> HIDE DEF extras
  <2> QED
    BY <1>2, <1>9, <2>2, ItemApart
<1> QED
  BY <1>6, <1>7, <1>8, <1>9

-----------------------------------------------------------------------------
(* MCP servers *)

\* What is made of the controllers of a server that were created.
CreatedOf(s) == {c \in MS!Range(created) : c.name = s}

McpTypes ==
  /\ platform \in {"egg", "worker"} /\ ignore # "single"
  /\ registered = MS!Range(created) /\ Lists(created, MCClasses, MS!Range(created))
  /\ DOMAIN metadata = MCClasses /\ \A c \in MCClasses : metadata[c] \in {{}, MS!Build(c)}
  /\ session \in [MS!Servers -> [is : {"none", "open", "throws"}, items : SUBSET MCItems]]

\* A server has the controllers of its name that were created, each once.
ServersHold ==
  /\ DOMAIN registerMap = MS!Servers
  /\ \A s \in MS!Servers : Lists(registerMap[s], MCClasses, CreatedOf(s))
WorkersHold ==
  platform = "worker" =>
    /\ DOMAIN mcpMiddlewares = MS!Servers
    /\ \A s \in MS!Servers : Lists(mcpMiddlewares[s], MCClasses, CreatedOf(s))

CalledForAnItem ==
  mcpCall # Nothing =>
    \E item \in MCItems : mcpCall = [item |-> item, args |-> MS!BuildArgs(item)]

McpInv ==
  McpTypes /\ ServersHold /\ WorkersHold /\ CalledForAnItem
  /\ MS!SessionServesItsServer /\ MS!PathsAreExempt

LEMMA ClassOf == \A c \in MCClasses : c.name \in MS!Servers
BY DEF MS!Servers

LEMMA InitMcp == ignore \in {"none", "list"} /\ MS!Init => McpInv
<1> SUFFICES ASSUME ignore \in {"none", "list"}, MS!Init PROVE McpInv
  OBVIOUS
<1> USE DEF MS!Init
<1>1. /\ Lists(created, MCClasses, {}) /\ MS!Range(created) = {}
      /\ \A s \in MS!Servers : CreatedOf(s) = {}
  BY ListsNone DEF Lists, CreatedOf
<1>2. McpTypes
  <2>1. [s \in MS!Servers |-> MS!NoSession]
          \in [MS!Servers -> [is : {"none", "open", "throws"}, items : SUBSET MCItems]]
    BY DEF MS!NoSession
  <2> QED
    BY <1>1, <2>1 DEF McpTypes
<1>3. ServersHold /\ WorkersHold
  BY <1>1, ListsNone DEF ServersHold, WorkersHold
<1>4. CalledForAnItem
  BY DEF CalledForAnItem
<1>5. MS!SessionServesItsServer
  BY DEF MS!SessionServesItsServer, MS!NoSession
<1>6. MS!PathsAreExempt
  BY DEF MS!PathsAreExempt
<1> QED
  BY <1>2, <1>3, <1>4, <1>5, <1>6 DEF McpInv

\* What a session of a server has, once every controller was created.
LEMMA OpenedIs ==
  ASSUME McpInv, MS!Range(created) = MCClasses, NEW s \in MS!Servers
  PROVE  LET items == UNION {metadata[c] : c \in {e \in MCClasses : e.name = s}} IN
         /\ (\E a, b \in items : a # b /\ a.kind = b.kind /\ a.name = b.name) =>
              MS!Opened(s) = [is |-> "throws", items |-> {}]
         /\ ~(\E a, b \in items : a # b /\ a.kind = b.kind /\ a.name = b.name) =>
              MS!Opened(s) = [is |-> "open", items |-> items]
         /\ items \subseteq MCItems
<1> DEFINE mine == {e \in MCClasses : e.name = s}
           items == UNION {metadata[c] : c \in mine}
           q == registerMap[s]
<1>1. MS!Range(q) = mine /\ q \in Seq(MCClasses) /\ \A i, j \in DOMAIN q : q[i] = q[j] => i = j
  BY DEF McpInv, ServersHold, CreatedOf, Lists
<1>2. DOMAIN q = 1 .. Len(q)
  BY <1>1
<1>3. MS!Clash(q) <=> \E a, b \in items : a # b /\ a.kind = b.kind /\ a.name = b.name
  BY <1>1, <1>2 DEF MS!Clash
<1>4. UNION {MS!Handlers(c) : c \in MS!Range(q)} = items
  BY <1>1 DEF MS!Handlers
<1>5. items \subseteq MCItems
  BY DEF McpInv, McpTypes, MCItems
<1> QED
  BY <1>3, <1>4, <1>5 DEF MS!Opened

\* A session that is opened has what its server has.
LEMMA OpenedServes ==
  ASSUME McpInv, MS!Range(created) = MCClasses, platform' = platform, metadata' = metadata,
         mcpMiddlewares' = mcpMiddlewares,
         session' \in [MS!Servers -> [is : {"none", "open", "throws"}, items : SUBSET MCItems]],
         \A s \in MS!Servers : session'[s] \in {session[s], MS!NoSession, MS!Opened(s)}
  PROVE  MS!SessionServesItsServer'
<1> DEFINE Mine(s) == {c \in MCClasses : c.name = s}
           Items(s) == UNION {metadata[c] : c \in Mine(s)}
           Clashes(s) == \E a, b \in Items(s) : a # b /\ a.kind = b.kind /\ a.name = b.name
           Right(s, x) == IF Clashes(s) THEN x.is = "throws" ELSE x = [is |-> "open", items |-> Items(s)]
<1>1. \A s \in MS!Servers : session[s].is # "none" => Right(s, session[s])
  BY DEF McpInv, MS!SessionServesItsServer
<1>2. \A s \in MS!Servers : Right(s, MS!Opened(s))
  <2> TAKE s \in MS!Servers
  <2>1. Clashes(s) => MS!Opened(s) = [is |-> "throws", items |-> {}]
    BY OpenedIs
  <2>2. ~Clashes(s) => MS!Opened(s) = [is |-> "open", items |-> Items(s)]
    BY OpenedIs
  <2> HIDE DEF Clashes, Items
  <2> QED
    BY <2>1, <2>2
<1>3. \A s \in MS!Servers : platform = "worker" => MS!Range(mcpMiddlewares[s]) = Mine(s)
  BY DEF McpInv, WorkersHold, CreatedOf, Lists
<1>4. MS!NoSession.is = "none"
  BY DEF MS!NoSession
<1> HIDE DEF Right
<1>5. \A s \in MS!Servers : session'[s].is # "none" => Right(s, session'[s])
  BY <1>1, <1>2, <1>4
<1> QED
  BY <1>3, <1>5 DEF Right, MS!SessionServesItsServer

\* The paths of a server that is registered are among those that are left alone.
LEMMA PathsGrow ==
  ASSUME MS!PathsAreExempt, platform = "egg", ignore # "single", ignore' = ignore, NEW cs,
         mcpRoutes' = mcpRoutes \cup MS!EggRoutes(cs),
         multiple' = multiple \cup MS!WithAllPaths(cs)
  PROVE  MS!PathsAreExempt'
<1> SUFFICES ASSUME NEW r \in mcpRoutes' PROVE (MS!CsrfExempt(r.path) /\ MS!BodyKept(r.path))'
  BY DEF MS!PathsAreExempt
<1>1. \A path : MS!CsrfExempt(path) => MS!CsrfExempt(path)'
  BY DEF MS!CsrfExempt
<1>2. \A path : MS!BodyKept(path) => MS!BodyKept(path)'
  BY DEF MS!BodyKept
<1>3. CASE r \in mcpRoutes
  BY <1>1, <1>2, <1>3 DEF MS!PathsAreExempt
<1>4. CASE r \in MS!EggRoutes(cs)
  <2>1. PICK s \in {d.name : d \in MS!Range(cs)}, k \in MS!PathKeys : r = [server |-> s, path |-> MS!Path(s, k)]
    BY <1>4 DEF MS!EggRoutes
  <2>2. s # Nothing => s \in multiple'
    BY <2>1 DEF MS!WithAllPaths
  <2>3. r.path = MS!Path(s, k)
    BY <2>1
  <2> USE DEF MS!CsrfExempt, MS!BodyKept
  <2>4. CASE <<s, k>> \in {<<"s", "stream">>}
    <3>1. r.path = <<"custom", s, k>>
      BY <2>3, <2>4 DEF MS!Path
    <3> QED
      BY <2>4, <3>1
  <2>5. CASE <<s, k>> \notin {<<"s", "stream">>} /\ s = Nothing
    <3>1. r.path = <<"global", k>>
      BY <2>3, <2>5 DEF MS!Path
    <3> QED
      BY <3>1
  <2>6. CASE <<s, k>> \notin {<<"s", "stream">>} /\ s # Nothing
    <3>1. r.path = <<"mcp", s, k>>
      BY <2>3, <2>6 DEF MS!Path
    <3> QED
      BY <2>2, <2>6, <3>1
  <2> QED
    BY <2>4, <2>5, <2>6
<1> QED
  BY <1>3, <1>4

LEMMA RegisterKeeps ==
  ASSUME McpInv, NEW c \in MCClasses, MS!Register(c)
  PROVE  McpInv'
<1> DEFINE cs == MS!ToRegister(Append(created, c))
           Named(s) == {e \in MCClasses : e.name = s}
<1> USE DEF McpInv
<1>1. /\ c \notin MS!Range(created) /\ session = [s \in MS!Servers |-> MS!NoSession]
      /\ metadata' = [metadata EXCEPT ![c] = MS!Build(c)]
      /\ created' = Append(created, c) /\ registered' = registered \cup MS!Range(cs)
      /\ registerMap' = [s \in MS!Servers |-> registerMap[s] \o MS!OfServer(cs, s)]
      /\ UNCHANGED <<platform, ignore, session, mcpCall>>
  BY DEF MS!Register
<1>2. \/ /\ platform = "egg"
         /\ mcpRoutes' = mcpRoutes \cup MS!EggRoutes(cs) /\ multiple' = multiple \cup MS!WithAllPaths(cs)
         /\ UNCHANGED mcpMiddlewares
      \/ /\ platform = "worker"
         /\ mcpMiddlewares' = [s \in MS!Servers |-> mcpMiddlewares[s] \o MS!OfServer(cs, s)]
         /\ UNCHANGED <<mcpRoutes, multiple>>
  BY DEF MS!Register, MS!EggRegister, MS!WorkerRegister
<1>3. Lists(created', MCClasses, MS!Range(created) \cup {c})
  BY <1>1, ListsMore DEF McpTypes
<1>4. MS!Range(created)' = MS!Range(created) \cup {c}
  <2>1. MS!Range(created)' = MS!Range(created')
    BY DEF MS!Range
  <2> QED
    BY <1>3, <2>1 DEF Lists
<1>5. Lists(cs, MCClasses, {c})
  <2>1. Lists(cs, MCClasses, (MS!Range(created) \cup {c}) \cap (MCClasses \ registered))
    BY <1>1, <1>3, WithinIs DEF MS!ToRegister
  <2>2. (MS!Range(created) \cup {c}) \cap (MCClasses \ registered) = {c}
    BY <1>1 DEF McpTypes
  <2> QED
    BY <2>1, <2>2
<1> HIDE DEF cs
<1>6. \A s : Lists(MS!OfServer(cs, s), MCClasses, {c} \cap Named(s))
  BY <1>5, WithinIs DEF MS!OfServer
<1>7. \A s : CreatedOf(s)' = CreatedOf(s) \cup ({c} \cap Named(s)) /\ CreatedOf(s) \cap ({c} \cap Named(s)) = {}
  BY <1>1, <1>4 DEF CreatedOf
<1>8. ASSUME NEW s \in MS!Servers, NEW q, Lists(q, MCClasses, CreatedOf(s))
      PROVE  Lists(q \o MS!OfServer(cs, s), MCClasses, CreatedOf(s)')
  BY <1>6, <1>7, <1>8, ListsBoth
<1>9. McpTypes'
  <2>1. registered' = MS!Range(created)' /\ Lists(created', MCClasses, MS!Range(created)')
    BY <1>1, <1>3, <1>4, <1>5 DEF McpTypes, Lists
  <2>2. DOMAIN metadata' = MCClasses /\ \A e \in MCClasses : metadata'[e] \in {{}, MS!Build(e)}
    BY <1>1 DEF McpTypes
  <2> QED
    BY <1>1, <2>1, <2>2 DEF McpTypes
<1>10. ServersHold'
  <2>1. \A s \in MS!Servers : Lists(registerMap'[s], MCClasses, CreatedOf(s)')
    BY <1>1, <1>8 DEF ServersHold
  <2> QED
    BY <1>1, <2>1 DEF ServersHold
<1>11. WorkersHold'
  <2> SUFFICES ASSUME platform = "worker"
               PROVE  DOMAIN mcpMiddlewares' = MS!Servers
                      /\ \A s \in MS!Servers : Lists(mcpMiddlewares'[s], MCClasses, CreatedOf(s)')
    BY <1>1 DEF WorkersHold
  <2>1. mcpMiddlewares' = [s \in MS!Servers |-> mcpMiddlewares[s] \o MS!OfServer(cs, s)]
    BY <1>2
  <2> QED
    BY <1>8, <2>1 DEF WorkersHold
<1>12. CalledForAnItem'
  <2>1. MS!Register(c) => mcpCall = Nothing
    BY DEF MS!Register
  <2> QED
    BY <1>1, <2>1 DEF CalledForAnItem
<1>13. MS!SessionServesItsServer'
  <2>1. \A s \in MS!Servers : session'[s].is = "none"
    BY <1>1 DEF MS!NoSession
  <2> QED
    BY <2>1 DEF MS!SessionServesItsServer
<1>14. MS!PathsAreExempt'
  <2>1. CASE platform = "egg"
    BY <1>1, <1>2, <2>1, PathsGrow DEF McpTypes
  <2>2. CASE platform = "worker"
    BY <1>1, <2>2 DEF MS!PathsAreExempt
  <2> QED
    BY <2>1, <2>2 DEF McpTypes
<1> QED
  BY <1>9, <1>10, <1>11, <1>12, <1>13, <1>14

\* What a session of a server is, once it is opened.
LEMMA OpenedTypes ==
  ASSUME McpInv, MS!Range(created) = MCClasses, NEW s \in MS!Servers
  PROVE  MS!Opened(s) \in [is : {"none", "open", "throws"}, items : SUBSET MCItems]
<1> DEFINE items == UNION {metadata[c] : c \in {e \in MCClasses : e.name = s}}
<1>1. MS!Opened(s) \in {[is |-> "throws", items |-> {}], [is |-> "open", items |-> items]}
      /\ items \subseteq MCItems
  BY OpenedIs
<1> HIDE DEF items
<1> QED
  BY <1>1

\* What the steps that open sessions keep.
LEMMA OpeningKeeps ==
  ASSUME McpInv, MS!Range(created) = MCClasses,
         UNCHANGED <<platform, ignore, metadata, created, registered, registerMap, multiple,
                     mcpMiddlewares, mcpCall>>,
         platform = "egg" => mcpRoutes' = mcpRoutes, DOMAIN session' = MS!Servers,
         session' = [s \in MS!Servers |-> session'[s]],
         \A s \in MS!Servers : session'[s] \in {session[s], MS!NoSession, MS!Opened(s)}
  PROVE  McpInv'
<1> USE DEF McpInv
<1>1. session' \in [MS!Servers -> [is : {"none", "open", "throws"}, items : SUBSET MCItems]]
  <2>1. \A s \in MS!Servers : session[s] \in [is : {"none", "open", "throws"}, items : SUBSET MCItems]
    BY DEF McpTypes
  <2>2. MS!NoSession \in [is : {"none", "open", "throws"}, items : SUBSET MCItems]
    BY DEF MS!NoSession
  <2> QED
    BY <2>1, <2>2, OpenedTypes
<1>2. McpTypes'
  BY <1>1 DEF McpTypes
<1>3. ServersHold' /\ WorkersHold'
  BY DEF ServersHold, WorkersHold, CreatedOf
<1>4. CalledForAnItem'
  BY DEF CalledForAnItem, MS!BuildArgs, MS!SdkArgs, MS!ExtraOf, MS!HasSchema
<1>5. MS!SessionServesItsServer'
  BY <1>1, OpenedServes
<1>6. MS!PathsAreExempt'
  BY DEF MS!PathsAreExempt, MS!CsrfExempt, MS!BodyKept
<1> QED
  BY <1>2, <1>3, <1>4, <1>5, <1>6

LEMMA NextMcp == McpInv /\ [MS!Next]_mcpVars => McpInv'
<1> SUFFICES ASSUME McpInv, [MS!Next]_mcpVars PROVE McpInv'
  OBVIOUS
<1>1. ASSUME NEW c \in MCClasses, MS!Register(c) PROVE McpInv'
  BY <1>1, RegisterKeeps
<1>2. ASSUME NEW s \in MS!Servers, MS!Open(s) PROVE McpInv'
  <2>1. /\ MS!Range(created) = MCClasses /\ session' = [session EXCEPT ![s] = MS!Opened(s)]
        /\ UNCHANGED <<platform, ignore, metadata, created, registered, registerMap, mcpRoutes,
                       multiple, mcpMiddlewares, mcpCall>>
    BY <1>2 DEF MS!Open
  <2>2. session' = [t \in MS!Servers |-> session'[t]]
        /\ \A t \in MS!Servers : session'[t] \in {session[t], MS!NoSession, MS!Opened(t)}
    BY <2>1 DEF McpInv, McpTypes
  <2> QED
    BY <2>1, <2>2, OpeningKeeps
<1>3. CASE MS!DoRegister
  <2>1. /\ platform = "worker" /\ MS!Range(created) = MCClasses
        /\ UNCHANGED <<platform, ignore, metadata, created, registered, registerMap, multiple,
                       mcpMiddlewares, mcpCall>>
    BY <1>3 DEF MS!DoRegister
  <2>2. PICK names : session' = [s \in MS!Servers |-> IF s \in names THEN MS!Opened(s) ELSE MS!NoSession]
    BY <1>3 DEF MS!DoRegister
  <2>3. session' = [t \in MS!Servers |-> session'[t]]
        /\ \A t \in MS!Servers : session'[t] \in {session[t], MS!NoSession, MS!Opened(t)}
    BY <2>2
  <2> QED
    BY <2>1, <2>3, OpeningKeeps
<1>4. ASSUME NEW s \in MS!Servers, MS!Call(s) PROVE McpInv'
  <2>1. PICK item \in session[s].items : mcpCall' = [item |-> item, args |-> MS!BuildArgs(item)]
    BY <1>4 DEF MS!Call
  <2>2. UNCHANGED <<platform, ignore, metadata, created, registered, registerMap, mcpRoutes,
                    multiple, mcpMiddlewares, session>>
    BY <1>4 DEF MS!Call
  <2>3. item \in MCItems
    BY <2>1 DEF McpInv, McpTypes
  <2>4. MS!BuildArgs(item)' = MS!BuildArgs(item)
    BY <2>2 DEF MS!BuildArgs, MS!SdkArgs, MS!ExtraOf, MS!HasSchema
  <2>5. CalledForAnItem'
    BY <2>1, <2>3, <2>4 DEF CalledForAnItem
  <2>6. McpTypes' /\ ServersHold' /\ WorkersHold'
    BY <2>2 DEF McpInv, McpTypes, ServersHold, WorkersHold, CreatedOf
  <2>7. MS!SessionServesItsServer' /\ MS!PathsAreExempt'
    BY <2>2 DEF McpInv, MS!SessionServesItsServer, MS!PathsAreExempt, MS!CsrfExempt, MS!BodyKept
  <2> QED
    BY <2>5, <2>6, <2>7 DEF McpInv
<1>5. CASE UNCHANGED mcpVars
  <2>1. UNCHANGED <<platform, ignore, metadata, created, registered, registerMap, mcpRoutes,
                    multiple, mcpMiddlewares, session, mcpCall>>
    BY <1>5 DEF mcpVars
  <2>2. McpTypes' /\ ServersHold' /\ WorkersHold'
    BY <2>1 DEF McpInv, McpTypes, ServersHold, WorkersHold, CreatedOf
  <2>3. CalledForAnItem'
    BY <2>1 DEF McpInv, CalledForAnItem, MS!BuildArgs, MS!SdkArgs, MS!ExtraOf, MS!HasSchema
  <2>4. MS!SessionServesItsServer' /\ MS!PathsAreExempt'
    BY <2>1 DEF McpInv, MS!SessionServesItsServer, MS!PathsAreExempt, MS!CsrfExempt, MS!BodyKept
  <2> QED
    BY <2>2, <2>3, <2>4 DEF McpInv
<1> QED
  BY <1>1, <1>2, <1>3, <1>4, <1>5 DEF MS!Next

LEMMA McpHolds == MS!McpServerAssumption /\ McpInv => SessionServesItsServer
<1> SUFFICES ASSUME MS!McpServerAssumption, McpInv PROVE SessionServesItsServer
  OBVIOUS
<1>1. MS!ArgumentsAsAsked
  <2> SUFFICES ASSUME mcpCall # Nothing PROVE MS!ArgumentsAsAsked
    BY DEF MS!ArgumentsAsAsked
  <2>1. PICK item \in MCItems : mcpCall = [item |-> item, args |-> MS!BuildArgs(item)]
    BY DEF McpInv, CalledForAnItem
  <2>2. mcpCall.item = item /\ mcpCall.args = MS!BuildArgs(item)
    BY <2>1
  <2> QED
    BY <2>2, ArgsOfItem DEF MS!ArgumentsAsAsked
<1> QED
  BY <1>1 DEF McpInv, SessionServesItsServer

-----------------------------------------------------------------------------
(* Routes: priorities, and the methods of one kind *)

RouteHosts == R!Hosts \cup {""}
Places == R!Kinds \X RouteHosts
Checks == [Places -> Seq(R!Layers)]

LEMMA PathPriority ==
  ASSUME NEW D, NEW path \in Seq(D)
  PROVE  /\ R!CalcPathPriority(path) \in Nat
         /\ ":" \notin R!Range(path) => R!CalcPathPriority(path) = 100000
         /\ ":" \in R!Range(path) /\ Len(path) <= 10 => R!CalcPathPriority(path) < 100000
<1> DEFINE n == Len(path)
           Next1(i, v) == v + IF path[i] = ":" THEN (i - 1) * 1000 ELSE 0
           Body(f) == [i \in 0 .. n |-> IF i = 0 THEN 0 ELSE Next1(i, f[i - 1])]
           sum == CHOOSE f : f = Body(f)
           G == [i \in 1 .. n |-> [v \in Nat |-> Next1(i, v)]]
           Good == {i \in 0 .. n : sum[i] \in Nat /\ (i <= 10 => sum[i] <= 9000 * i)}
<1>1. n \in Nat
  OBVIOUS
<1>2. \A i \in 1 .. n, v \in Nat :
        Next1(i, v) \in Nat /\ (i <= 10 => Next1(i, v) <= v + 9000)
  BY <1>1
<1> HIDE DEF Next1
<1>3. sum = Body(sum)
  <2>1. G \in [1 .. n -> [Nat -> Nat]] /\ 0 \in Nat
    BY <1>1, <1>2
  <2> HIDE DEF n, G
  <2>2. Computed(n, Nat, 0, G)
    BY <1>1, <2>1, Recursion
  <2>3. PICK f \in [0 .. n -> Nat] : f[0] = 0 /\ \A i \in 1 .. n : f[i] = G[i][f[i - 1]]
    BY <2>2 DEF Computed, Computes
  <2>4. \A i \in 1 .. n : f[i - 1] \in Nat
    BY <1>1, <2>3
  <2>5. \A i \in 1 .. n : f[i] = Next1(i, f[i - 1])
    BY <1>1, <2>3, <2>4 DEF G
  <2>6. f = Body(f)
    BY <1>1, <2>3, <2>5
  <2> QED
    BY <2>6
<1> HIDE DEF sum
<1>4. sum[0] = 0 /\ \A i \in 1 .. n : sum[i] = Next1(i, sum[i - 1])
  BY <1>1, <1>3
<1>5. R!CalcPathPriority(path) = IF ":" \in R!Range(path) THEN sum[n] ELSE 100000
  BY DEF R!CalcPathPriority, R!TOKEN_PRIORITY, R!DEFAULT_PRIORITY, sum, Next1
<1> HIDE DEF n
<1>6. 0 \in Good
  BY <1>1, <1>4
<1>7. ASSUME NEW i \in 1 .. n, i - 1 \in Good PROVE i \in Good
  <2> DEFINE v == sum[i - 1]
  <2>1. v \in Nat /\ (i - 1 <= 10 => v <= 9000 * (i - 1)) /\ sum[i] = Next1(i, v) /\ i \in 0 .. n
    BY <1>1, <1>4, <1>7
  <2> HIDE DEF v
  <2>2. sum[i] \in Nat /\ (i <= 10 => sum[i] <= v + 9000)
    BY <1>2, <2>1
  <2> QED
    BY <2>1, <2>2
<1> HIDE DEF Good
<1>8. 0 .. n \subseteq Good
  BY <1>1, <1>6, <1>7, Climb
<1>9. sum[n] \in Nat /\ (n <= 10 => sum[n] <= 9000 * n)
  <2>1. n \in 0 .. n
    BY <1>1
  <2> QED
    BY <1>8, <2>1 DEF Good
<1> QED
  BY <1>1, <1>5, <1>9 DEF n

LEMMA PriorityIs ==
  ASSUME R!RoutesAssumption, NEW c \in MCControllerRoutes
  PROVE  R!GetPriority(c) \in Int
<1>1. c.path \in Seq(R!Range(c.path)) /\ c.priority \in Int
  BY DEF R!RoutesAssumption
<1> QED
  BY <1>1, PathPriority DEF R!GetPriority

\* The priorities of methods fall.
Falls(cs) == \A i, j \in DOMAIN cs : i < j => R!GetPriority(cs[i]) >= R!GetPriority(cs[j])

LEMMA WithinFalls ==
  ASSUME NEW cs \in Seq(MCControllerRoutes), Falls(cs), NEW T
  PROVE  /\ R!Within(cs, T) \in Seq(MCControllerRoutes) /\ Falls(R!Within(cs, T))
         /\ \A k \in DOMAIN R!Within(cs, T) : R!Within(cs, T)[k] \in T
         /\ R!Range(R!Within(cs, T)) \subseteq R!Range(cs)
<1> DEFINE t == R!Within(cs, T)
<1>1. PICK pos : PlacedBy(pos, t, cs, Len(cs), T)
  BY WithinPicks DEF Picked
<1>2. DOMAIN cs = 1 .. Len(cs) /\ t \in Seq(MCControllerRoutes)
  BY WithinPicks
<1>3. R!Range(t) \subseteq R!Range(cs)
  BY WithinRange
<1> HIDE DEF t
<1>4. Falls(t)
  BY <1>1, <1>2 DEF Falls, PlacedBy
<1>5. \A k \in DOMAIN t : t[k] \in T
  BY <1>1 DEF PlacedBy
<1> QED
  BY <1>2, <1>3, <1>4, <1>5 DEF t

LEMMA PutFalls ==
  ASSUME R!RoutesAssumption, NEW cs \in Seq(MCControllerRoutes), Falls(cs),
         NEW c \in MCControllerRoutes
  PROVE  /\ R!Put(c, cs) \in Seq(MCControllerRoutes) /\ Falls(R!Put(c, cs))
         /\ R!Range(R!Put(c, cs)) \subseteq R!Range(cs) \cup {c}
<1> DEFINE below == {d \in MCControllerRoutes : R!GetPriority(d) < R!GetPriority(c)}
           P(d) == R!GetPriority(d)
           s == R!Within(cs, MCControllerRoutes \ below)
           t == R!Within(cs, below)
           u == Append(s, c) \o t
           m == Len(s)
           n == Len(t)
<1>1. /\ s \in Seq(MCControllerRoutes) /\ Falls(s) /\ \A k \in DOMAIN s : s[k] \in MCControllerRoutes \ below
      /\ R!Range(s) \subseteq R!Range(cs)
  BY WithinFalls
<1>2. /\ t \in Seq(MCControllerRoutes) /\ Falls(t) /\ \A k \in DOMAIN t : t[k] \in below
      /\ R!Range(t) \subseteq R!Range(cs)
  BY WithinFalls
<1>3. \A d \in MCControllerRoutes : P(d) \in Int
  BY PriorityIs
<1> HIDE DEF s, t
<1>4. /\ u \in Seq(MCControllerRoutes) /\ m \in Nat /\ n \in Nat /\ DOMAIN u = 1 .. m + 1 + n
      /\ DOMAIN s = 1 .. m /\ DOMAIN t = 1 .. n
      /\ \A i \in 1 .. m + 1 + n : u[i] = IF i <= m THEN s[i] ELSE IF i = m + 1 THEN c ELSE t[i - (m + 1)]
  <2>1. /\ Append(s, c) \in Seq(MCControllerRoutes) /\ Len(Append(s, c)) = m + 1
        /\ Append(s, c)[m + 1] = c /\ \A i \in 1 .. m : Append(s, c)[i] = s[i]
    BY <1>1, AppendProperties
  <2>2. m \in Nat /\ n \in Nat /\ DOMAIN s = 1 .. m /\ DOMAIN t = 1 .. n
    BY <1>1, <1>2
  <2> DEFINE a == Append(s, c)
  <2>3. a \in Seq(MCControllerRoutes) /\ Len(a) = m + 1
    BY <2>1
  <2> HIDE DEF a
  <2>4. /\ a \o t \in Seq(MCControllerRoutes) /\ Len(a \o t) = m + 1 + n
        /\ \A i \in 1 .. m + 1 + n : (a \o t)[i] = IF i <= m + 1 THEN a[i] ELSE t[i - (m + 1)]
    <3>1. /\ a \o t \in Seq(MCControllerRoutes) /\ Len(a \o t) = Len(a) + n
          /\ \A i \in 1 .. Len(a) + n : (a \o t)[i] = IF i <= Len(a) THEN a[i] ELSE t[i - Len(a)]
      BY <1>2, <2>3, ConcatProperties
    <3> QED
      BY <2>3, <3>1
  <2>5. u = a \o t
    BY DEF a
  <2> HIDE DEF u, m, n
  <2>6. \A i \in 1 .. m + 1 + n : u[i] = IF i <= m THEN s[i] ELSE IF i = m + 1 THEN c ELSE t[i - (m + 1)]
    BY <2>1, <2>2, <2>4, <2>5 DEF a
  <2> QED
    BY <2>2, <2>4, <2>5, <2>6
<1> HIDE DEF m, n, u
<1>5. \A i \in 1 .. m + 1 + n :
        \/ i \in 1 .. m /\ u[i] = s[i] /\ u[i] \in MCControllerRoutes /\ P(u[i]) >= P(c)
        \/ i = m + 1 /\ u[i] = c
        \/ i - (m + 1) \in 1 .. n /\ u[i] = t[i - (m + 1)] /\ u[i] \in MCControllerRoutes /\ P(u[i]) < P(c)
  <2> TAKE i \in 1 .. m + 1 + n
  <2>1. CASE i <= m
    <3>1. i \in 1 .. m /\ u[i] = s[i]
      BY <1>4, <2>1
    <3>2. u[i] \in MCControllerRoutes /\ ~(P(u[i]) < P(c))
      BY <1>1, <1>4, <3>1
    <3> HIDE DEF P
    <3> QED
      BY <1>3, <3>1, <3>2
  <2>2. CASE i = m + 1
    BY <1>4, <2>2
  <2>3. CASE i > m + 1
    <3>1. i - (m + 1) \in 1 .. n /\ u[i] = t[i - (m + 1)]
      BY <1>4, <2>3
    <3>2. u[i] \in below
      BY <1>2, <1>4, <3>1
    <3> QED
      BY <3>1, <3>2
  <2> QED
    BY <1>4, <2>1, <2>2, <2>3
<1> HIDE DEF P
<1>6. ASSUME NEW i \in 1 .. m + 1 + n, NEW j \in 1 .. m + 1 + n, i < j PROVE P(u[i]) >= P(u[j])
  <2>0. P(c) \in Int /\ \A k \in 1 .. m + 1 + n : P(u[k]) \in Int
    BY <1>3, <1>5
  <2>1. CASE j \in 1 .. m
    <3>1. i \in 1 .. m /\ u[i] = s[i] /\ u[j] = s[j]
      BY <1>4, <1>6, <2>1
    <3> QED
      BY <1>1, <1>4, <1>6, <2>1, <3>1 DEF Falls, P
  <2>2. CASE i - (m + 1) \in 1 .. n
    <3>1. u[i] = t[i - (m + 1)] /\ u[j] = t[j - (m + 1)] /\ j - (m + 1) \in 1 .. n
          /\ i - (m + 1) < j - (m + 1)
      BY <1>4, <1>6, <2>2
    <3> QED
      BY <1>2, <1>4, <2>2, <3>1 DEF Falls, P
  <2>3. CASE j \notin 1 .. m /\ i - (m + 1) \notin 1 .. n
    <3>1. P(u[i]) >= P(c)
      <4>1. u[i] = c => P(u[i]) = P(c)
        OBVIOUS
      <4> QED
        BY <1>5, <2>0, <2>3, <4>1
    <3>2. P(c) >= P(u[j])
      <4>1. u[j] = c => P(u[j]) = P(c)
        OBVIOUS
      <4> QED
        BY <1>5, <2>0, <2>3, <4>1
    <3> QED
      BY <2>0, <3>1, <3>2
  <2> QED
    BY <2>1, <2>2, <2>3
<1>7. Falls(u)
  BY <1>4, <1>6 DEF Falls, P
<1>8. R!Range(u) \subseteq R!Range(cs) \cup {c}
  <2>1. \A i \in 1 .. m + 1 + n : u[i] \in R!Range(cs) \cup {c}
    <3>1. \A i \in 1 .. m : s[i] \in R!Range(cs)
      BY <1>1, <1>4 DEF R!Range
    <3>2. \A i \in 1 .. n : t[i] \in R!Range(cs)
      BY <1>2, <1>4 DEF R!Range
    <3> QED
      BY <1>5, <3>1, <3>2
  <2> QED
    BY <1>4, <2>1 DEF R!Range
<1> QED
  BY <1>4, <1>7, <1>8 DEF R!Put, u, s, t

LEMMA SortedIs ==
  ASSUME R!RoutesAssumption, NEW cs \in Seq(MCControllerRoutes)
  PROVE  /\ R!Sorted(cs) \in Seq(MCControllerRoutes) /\ Falls(R!Sorted(cs))
         /\ R!Range(R!Sorted(cs)) \subseteq R!Range(cs)
<1> DEFINE n == Len(cs)
           X == {s \in Seq(MCControllerRoutes) : Falls(s) /\ R!Range(s) \subseteq R!Range(cs)}
           Body(f) == [i \in 0 .. n |-> IF i = 0 THEN <<>> ELSE R!Put(cs[i], f[i - 1])]
           sorted == CHOOSE f : f = Body(f)
           G == [i \in 1 .. n |-> [s \in X |-> R!Put(cs[i], s)]]
           Good == {i \in 0 .. n : sorted[i] \in X}
<1>1. n \in Nat /\ DOMAIN cs = 1 .. n /\ \A i \in 1 .. n : cs[i] \in MCControllerRoutes /\ cs[i] \in R!Range(cs)
  BY DEF R!Range
<1>2. \A i \in 1 .. n, s \in X : R!Put(cs[i], s) \in X
  <2> TAKE i \in 1 .. n, s \in X
  <2>1. /\ R!Put(cs[i], s) \in Seq(MCControllerRoutes) /\ Falls(R!Put(cs[i], s))
        /\ R!Range(R!Put(cs[i], s)) \subseteq R!Range(s) \cup {cs[i]}
    BY <1>1, PutFalls
  <2> QED
    BY <1>1, <2>1
<1>3. <<>> \in X
  BY DEF Falls, R!Range
<1> HIDE DEF X
<1>4. sorted = Body(sorted)
  <2>1. G \in [1 .. n -> [X -> X]]
    BY <1>1, <1>2
  <2> HIDE DEF n, G
  <2>2. Computed(n, X, <<>>, G)
    BY <1>1, <1>3, <2>1, Recursion
  <2>3. PICK f \in [0 .. n -> X] : f[0] = <<>> /\ \A i \in 1 .. n : f[i] = G[i][f[i - 1]]
    BY <2>2 DEF Computed, Computes
  <2>4. \A i \in 1 .. n : f[i - 1] \in X
    BY <1>1, <2>3
  <2>5. \A i \in 1 .. n : f[i] = R!Put(cs[i], f[i - 1])
    BY <1>1, <2>3, <2>4 DEF G
  <2>6. f = Body(f)
    BY <1>1, <2>3, <2>5
  <2> QED
    BY <2>6
<1> HIDE DEF sorted
<1>5. sorted[0] = <<>> /\ \A i \in 1 .. n : sorted[i] = R!Put(cs[i], sorted[i - 1])
  BY <1>1, <1>4
<1>6. R!Sorted(cs) = sorted[n]
  BY DEF R!Sorted, sorted
<1> HIDE DEF n
<1>7. 0 \in Good
  BY <1>1, <1>3, <1>5
<1>8. ASSUME NEW i \in 1 .. n, i - 1 \in Good PROVE i \in Good
  BY <1>1, <1>2, <1>5, <1>8
<1> HIDE DEF Good
<1>9. 0 .. n \subseteq Good
  BY <1>1, <1>7, <1>8, Climb
<1>10. sorted[n] \in X
  <2>1. n \in 0 .. n
    BY <1>1
  <2> QED
    BY <1>9, <2>1 DEF Good
<1> QED
  BY <1>6, <1>10 DEF X

LEMMA MethodsAre ==
  ASSUME R!RoutesAssumption, controllers \in Seq(MCControllerRoutes), NEW kind
  PROVE  /\ R!AllMethods(kind) \in Seq(MCControllerRoutes) /\ Falls(R!AllMethods(kind))
         /\ \A i \in DOMAIN R!AllMethods(kind) : R!AllMethods(kind)[i].kind = kind
<1> DEFINE T == {c \in MCControllerRoutes : c.kind = kind}
           cs == R!Within(controllers, T)
           s == R!Sorted(cs)
<1>1. cs \in Seq(MCControllerRoutes) /\ R!Range(cs) \subseteq T
  BY WithinPicks, WithinRange
<1>2. s = R!AllMethods(kind)
  BY DEF R!AllMethods
<1> HIDE DEF cs, T
<1>3. s \in Seq(MCControllerRoutes) /\ Falls(s) /\ R!Range(s) \subseteq R!Range(cs)
  BY <1>1, SortedIs
<1> HIDE DEF s
<1>4. \A i \in DOMAIN s : s[i] \in T
  BY <1>1, <1>3 DEF R!Range
<1> QED
  BY <1>2, <1>3, <1>4 DEF T

-----------------------------------------------------------------------------
(* Routes: the check of conflicts *)

\* The hosts whose routers a method is checked in.
CheckedIn(kind, c) == IF kind = "HTTP" THEN c.hosts ELSE R!HostsOf(c)

LEMMA HostsAre ==
  ASSUME R!RoutesAssumption, NEW c \in MCControllerRoutes
  PROVE  /\ R!HostsOf(c) \in Seq(RouteHosts) /\ c.hosts \in Seq(RouteHosts)
         /\ \A i, j \in DOMAIN R!HostsOf(c) : R!HostsOf(c)[i] = R!HostsOf(c)[j] => i = j
         /\ "" \notin R!Range(c.hosts)
         /\ "" \in R!Range(R!HostsOf(c)) => c.hosts = <<>>
<1> DEFINE hosts == c.hosts
<1>1. hosts \in Seq(R!Range(hosts)) /\ "" \notin R!Range(hosts) /\ IsInjective(hosts)
  BY DEF R!RoutesAssumption, R!IsInjective, IsInjective
<1>2. R!Range(hosts) \subseteq RouteHosts
  BY DEF RouteHosts, R!Hosts
<1> HIDE DEF hosts
<1>3. hosts \in Seq(RouteHosts)
  <2> DEFINE S == R!Range(hosts)
  <2>0. hosts \in Seq(S)
    BY <1>1
  <2> HIDE DEF S
  <2>1. Len(hosts) \in Nat /\ DOMAIN hosts = 1 .. Len(hosts) /\ hosts = [i \in DOMAIN hosts |-> hosts[i]]
    BY <2>0
  <2>2. \A i \in DOMAIN hosts : hosts[i] \in RouteHosts
    BY <1>2 DEF R!Range
  <2>3. hosts \in [1 .. Len(hosts) -> RouteHosts]
    BY <2>1, <2>2
  <2> QED
    BY <2>1, <2>3
<1>4. \A i, j \in DOMAIN hosts : hosts[i] = hosts[j] => i = j
  BY <1>1 DEF IsInjective
<1>5. CASE hosts = <<>>
  <2>1. R!HostsOf(c) = <<"">>
    BY <1>5 DEF R!HostsOf, hosts
  <2>2. "" \in RouteHosts
    BY DEF RouteHosts
  <2>3. /\ <<"">> \in Seq(RouteHosts) /\ \A i, j \in DOMAIN <<"">> : <<"">>[i] = <<"">>[j] => i = j
    BY <2>2, ListsOne DEF Lists
  <2> QED
    BY <1>1, <1>3, <1>5, <2>1, <2>3 DEF hosts
<1>6. CASE hosts # <<>>
  <2>1. R!HostsOf(c) = hosts
    BY <1>6 DEF R!HostsOf, hosts
  <2> QED
    BY <1>1, <1>3, <1>4, <2>1 DEF hosts
<1> QED
  BY <1>5, <1>6

\* What checking a method in the routers of its hosts comes to.
LEMMA CheckIs ==
  ASSUME NEW kind \in R!Kinds, NEW check, NEW layers, NEW c
  PROVE  LET hosts == CheckedIn(kind, c)
             inRouter == kind = "HTTP" /\ R!Duplicate(layers, c) IN
         /\ inRouter => R!Check(kind, check, layers, c) = [ok |-> FALSE, check |-> check]
         /\ ~inRouter => R!Check(kind, check, layers, c) = R!InHosts(kind, check, c, hosts)
BY DEF R!Kinds, R!Check, R!HTTPCheckDuplicate, R!WebSocketCheckDuplicate, CheckedIn

LEMMA LayersHave == \A c \in MCControllerRoutes, h \in RouteHosts : R!Layer(c, h) \in R!Layers
<1>1. R!Layers = {R!Layer(d, g) : d \in MCControllerRoutes, g \in RouteHosts}
  BY DEF R!Layers, RouteHosts
<1> QED
  BY <1>1

LEMMA CheckTypes ==
  ASSUME R!RoutesAssumption, NEW kind \in R!Kinds, NEW check \in Checks, NEW layers,
         NEW c \in MCControllerRoutes
  PROVE  /\ R!Check(kind, check, layers, c) \in [ok : BOOLEAN, check : Checks]
         /\ \A at \in Places : at[1] # kind => R!Check(kind, check, layers, c).check[at] = check[at]
<1> DEFINE hosts == CheckedIn(kind, c)
           clashing == {k \in DOMAIN hosts : R!Duplicate(check[<<kind, hosts[k]>>], c)}
           passed == {<<kind, hosts[k]>> : k \in {k \in DOMAIN hosts : \A j \in clashing : k < j}}
           after == [at \in Places |-> IF at \in passed THEN Append(check[at], R!Layer(c, at[2])) ELSE check[at]]
<1>1. DOMAIN check = Places /\ \A at \in Places : check[at] \in Seq(R!Layers)
  BY DEF Checks
<1>2. R!InHosts(kind, check, c, hosts) = [ok |-> clashing = {}, check |-> after]
  BY <1>1 DEF R!InHosts
<1>3. \A at \in passed : at[1] = kind
  OBVIOUS
<1> HIDE DEF passed, clashing
<1>4. \A at \in Places : R!Layer(c, at[2]) \in R!Layers
  <2>1. \A h \in RouteHosts : R!Layer(c, h) \in R!Layers
    BY LayersHave
  <2>2. \A at \in Places : at[2] \in RouteHosts
    BY DEF Places
  <2> QED
    BY <2>1, <2>2
<1>5. after \in Checks
  BY <1>1, <1>4, AppendProperties DEF Checks
<1>6. \A at \in Places : at[1] # kind => after[at] = check[at]
  BY <1>3
<1> HIDE DEF hosts, after
<1>7. [ok |-> clashing = {}, check |-> after] \in [ok : BOOLEAN, check : Checks]
      /\ [ok |-> FALSE, check |-> check] \in [ok : BOOLEAN, check : Checks]
  BY <1>5
<1>8. \/ R!Check(kind, check, layers, c) = [ok |-> FALSE, check |-> check]
      \/ R!Check(kind, check, layers, c) = R!InHosts(kind, check, c, hosts)
  BY CheckIs DEF hosts
<1>9. CASE R!Check(kind, check, layers, c) = [ok |-> FALSE, check |-> check]
  BY <1>7, <1>9
<1>10. CASE R!Check(kind, check, layers, c) = R!InHosts(kind, check, c, hosts)
  <2>1. R!Check(kind, check, layers, c) = [ok |-> clashing = {}, check |-> after]
    BY <1>2, <1>10
  <2> QED
    BY <1>6, <1>7, <2>1
<1> QED
  BY <1>8, <1>9, <1>10

\* Two routers' checks agree in what is of a kind.
Agree(kind, check, other) == \A h \in RouteHosts : check[<<kind, h>>] = other[<<kind, h>>]

LEMMA CheckAgrees ==
  ASSUME R!RoutesAssumption, NEW kind \in R!Kinds, NEW check \in Checks, NEW other \in Checks,
         Agree(kind, check, other), NEW layers, NEW others, kind = "HTTP" => layers = others,
         NEW c \in MCControllerRoutes
  PROVE  /\ R!Check(kind, check, layers, c).ok = R!Check(kind, other, others, c).ok
         /\ Agree(kind, R!Check(kind, check, layers, c).check, R!Check(kind, other, others, c).check)
<1> DEFINE hosts == CheckedIn(kind, c)
           Clashing(s) == {k \in DOMAIN hosts : R!Duplicate(s[<<kind, hosts[k]>>], c)}
           Passed(s) == {<<kind, hosts[k]>> : k \in {k \in DOMAIN hosts : \A j \in Clashing(s) : k < j}}
           After(s) == [at \in Places |-> IF at \in Passed(s) THEN Append(s[at], R!Layer(c, at[2])) ELSE s[at]]
<1>1. \A k \in DOMAIN hosts : hosts[k] \in RouteHosts
  <2>1. \A s \in Seq(RouteHosts) : \A k \in DOMAIN s : s[k] \in RouteHosts
    OBVIOUS
  <2>2. hosts \in Seq(RouteHosts)
    BY HostsAre DEF CheckedIn
  <2> QED
    BY <2>1, <2>2
<1>2. DOMAIN check = Places /\ DOMAIN other = Places
  BY DEF Checks
<1>3. /\ R!InHosts(kind, check, c, hosts) = [ok |-> Clashing(check) = {}, check |-> After(check)]
      /\ R!InHosts(kind, other, c, hosts) = [ok |-> Clashing(other) = {}, check |-> After(other)]
  BY <1>2 DEF R!InHosts
<1> HIDE DEF hosts
<1>4. Clashing(check) = Clashing(other)
  BY <1>1 DEF Agree
<1>5. Passed(check) = Passed(other)
  BY <1>4
<1> HIDE DEF Clashing, Passed
<1>6. Agree(kind, After(check), After(other))
  <2>1. \A h \in RouteHosts : <<kind, h>> \in Places
    BY DEF Places
  <2> QED
    BY <1>5, <2>1 DEF Agree
<1> HIDE DEF After
<1>7. CASE kind = "HTTP" /\ R!Duplicate(layers, c)
  <2>1. /\ R!Check(kind, check, layers, c) = [ok |-> FALSE, check |-> check]
        /\ R!Check(kind, other, others, c) = [ok |-> FALSE, check |-> other]
    BY <1>7, CheckIs
  <2> QED
    BY <2>1
<1>8. CASE ~(kind = "HTTP" /\ R!Duplicate(layers, c))
  <2>1. /\ R!Check(kind, check, layers, c) = R!InHosts(kind, check, c, hosts)
        /\ R!Check(kind, other, others, c) = R!InHosts(kind, other, c, hosts)
    BY <1>8, CheckIs DEF hosts
  <2> QED
    BY <1>3, <1>4, <1>6, <2>1
<1> QED
  BY <1>7, <1>8

\* The checks of all methods, one after the other.
Follows(after, kind, check, layers) ==
  LET methods == R!AllMethods(kind) IN
  /\ after \in [0 .. Len(methods) -> [ok : BOOLEAN, check : Checks]]
  /\ after[0] = [ok |-> TRUE, check |-> check]
  /\ \A i \in 1 .. Len(methods) :
       after[i] = IF ~after[i - 1].ok THEN after[i - 1]
                  ELSE R!Check(kind, after[i - 1].check, layers, methods[i])

LEMMA CheckAllIs ==
  ASSUME R!RoutesAssumption, controllers \in Seq(MCControllerRoutes),
         NEW kind \in R!Kinds, NEW check \in Checks, NEW layers
  PROVE  \E after : /\ Follows(after, kind, check, layers)
                    /\ R!CheckAll(kind, check, layers) = after[Len(R!AllMethods(kind))]
<1> DEFINE methods == R!AllMethods(kind)
           n == Len(methods)
           X == [ok : BOOLEAN, check : Checks]
           x0 == [ok |-> TRUE, check |-> check]
           One(i, s) == IF ~s.ok THEN s ELSE R!Check(kind, s.check, layers, methods[i])
           Body(f) == [i \in 0 .. n |-> IF i = 0 THEN x0 ELSE One(i, f[i - 1])]
           after == CHOOSE f : f = Body(f)
           G == [i \in 1 .. n |-> [s \in X |-> One(i, s)]]
<1>1. n \in Nat /\ \A i \in 1 .. n : methods[i] \in MCControllerRoutes
  <2>1. methods \in Seq(MCControllerRoutes)
    BY MethodsAre
  <2> QED
    BY <2>1
<1>2. x0 \in X
  OBVIOUS
<1>3. \A i \in 1 .. n, s \in X : One(i, s) \in X
  <2> TAKE i \in 1 .. n, s \in X
  <2>1. R!Check(kind, s.check, layers, methods[i]) \in X
    BY <1>1, CheckTypes
  <2> QED
    BY <2>1
<1>4. R!CheckAll(kind, check, layers) = after[n]
  BY DEF R!CheckAll
<1> HIDE DEF One, methods, x0
<1>5. \E f \in [0 .. n -> X] : f[0] = x0 /\ \A i \in 1 .. n : f[i] = One(i, f[i - 1])
  <2>1. G \in [1 .. n -> [X -> X]]
    BY <1>1, <1>3
  <2> HIDE DEF n, G, X
  <2>2. Computed(n, X, x0, G)
    BY <1>1, <1>2, <2>1, Recursion
  <2>3. PICK f \in [0 .. n -> X] : f[0] = x0 /\ \A i \in 1 .. n : f[i] = G[i][f[i - 1]]
    BY <2>2 DEF Computed, Computes
  <2>4. \A i \in 1 .. n : f[i - 1] \in X
    BY <1>1, <2>3
  <2>5. \A i \in 1 .. n : f[i] = One(i, f[i - 1])
    BY <1>1, <2>3, <2>4 DEF G
  <2> QED
    BY <2>3, <2>5
<1> HIDE DEF X
<1>6. after = Body(after)
  <2>1. PICK f \in [0 .. n -> X] : f[0] = x0 /\ \A i \in 1 .. n : f[i] = One(i, f[i - 1])
    BY <1>5
  <2>2. f = Body(f)
    BY <1>1, <2>1
  <2> QED
    BY <2>2
<1> HIDE DEF after
<1>7. after[0] = x0 /\ DOMAIN after = 0 .. n /\ \A i \in 1 .. n : after[i] = One(i, after[i - 1])
  BY <1>1, <1>6
<1> DEFINE Good == {i \in 0 .. n : after[i] \in X}
<1> HIDE DEF n
<1>8. 0 .. n \subseteq Good
  <2>1. 0 \in Good
    BY <1>1, <1>2, <1>7
  <2>2. \A i \in 1 .. n : i - 1 \in Good => i \in Good
    BY <1>1, <1>3, <1>7
  <2> HIDE DEF Good
  <2> QED
    BY <1>1, <2>1, <2>2, Climb
<1>9. after \in [0 .. n -> X]
  <2>1. after = [i \in 0 .. n |-> after[i]]
    BY <1>6 DEF n
  <2>2. \A i \in 0 .. n : after[i] \in X
    BY <1>8
  <2> HIDE DEF Good
  <2> QED
    BY <2>1, <2>2
<1>10. Follows(after, kind, check, layers)
  BY <1>7, <1>9 DEF Follows, n, X, x0, One, methods
<1> QED
  BY <1>4, <1>10 DEF n, methods

LEMMA CheckAllTypes ==
  ASSUME R!RoutesAssumption, controllers \in Seq(MCControllerRoutes),
         NEW kind \in R!Kinds, NEW check \in Checks, NEW layers
  PROVE  /\ R!CheckAll(kind, check, layers) \in [ok : BOOLEAN, check : Checks]
         /\ \A at \in Places : at[1] # kind => R!CheckAll(kind, check, layers).check[at] = check[at]
<1> DEFINE methods == R!AllMethods(kind)
           n == Len(methods)
<1>1. PICK after : Follows(after, kind, check, layers) /\ R!CheckAll(kind, check, layers) = after[n]
  BY CheckAllIs
<1>2. n \in Nat /\ \A i \in 1 .. n : methods[i] \in MCControllerRoutes
  <2>1. methods \in Seq(MCControllerRoutes)
    BY MethodsAre
  <2> QED
    BY <2>1
<1>3. /\ after[0] = [ok |-> TRUE, check |-> check]
      /\ \A i \in 0 .. n : after[i] \in [ok : BOOLEAN, check : Checks]
      /\ \A i \in 1 .. n : after[i] = IF ~after[i - 1].ok THEN after[i - 1]
                                      ELSE R!Check(kind, after[i - 1].check, layers, methods[i])
  BY <1>1 DEF Follows
<1> HIDE DEF methods, n
<1> DEFINE Kept(s) == \A at \in Places : at[1] # kind => s.check[at] = check[at]
           Good == {i \in 0 .. n : Kept(after[i])}
<1>4. 0 \in Good
  BY <1>2, <1>3
<1>5. ASSUME NEW i \in 1 .. n, i - 1 \in Good PROVE i \in Good
  <2> DEFINE s == after[i - 1]
             c == methods[i]
  <2>1. /\ s \in [ok : BOOLEAN, check : Checks] /\ Kept(s) /\ c \in MCControllerRoutes /\ i \in 0 .. n
        /\ after[i] = IF ~s.ok THEN s ELSE R!Check(kind, s.check, layers, c)
    BY <1>2, <1>3, <1>5
  <2> HIDE DEF s, c
  <2>2. \A at \in Places : at[1] # kind => R!Check(kind, s.check, layers, c).check[at] = s.check[at]
    BY <2>1, CheckTypes
  <2> QED
    BY <2>1, <2>2
<1> HIDE DEF Good
<1>6. 0 .. n \subseteq Good
  BY <1>2, <1>4, <1>5, Climb
<1>7. n \in 0 .. n
  BY <1>2
<1> QED
  BY <1>1, <1>3, <1>6, <1>7 DEF Good

LEMMA CheckAllAgrees ==
  ASSUME R!RoutesAssumption, controllers \in Seq(MCControllerRoutes),
         NEW kind \in R!Kinds, NEW check \in Checks, NEW other \in Checks,
         Agree(kind, check, other), NEW layers, NEW others, kind = "HTTP" => layers = others
  PROVE  R!CheckAll(kind, check, layers).ok = R!CheckAll(kind, other, others).ok
<1> DEFINE methods == R!AllMethods(kind)
           n == Len(methods)
<1>1. PICK f : Follows(f, kind, check, layers) /\ R!CheckAll(kind, check, layers) = f[n]
  BY CheckAllIs
<1>2. PICK g : Follows(g, kind, other, others) /\ R!CheckAll(kind, other, others) = g[n]
  BY CheckAllIs
<1>3. n \in Nat /\ \A i \in 1 .. n : methods[i] \in MCControllerRoutes
  <2>1. methods \in Seq(MCControllerRoutes)
    BY MethodsAre
  <2> QED
    BY <2>1
<1>4. /\ f[0] = [ok |-> TRUE, check |-> check]
      /\ \A i \in 0 .. n : f[i] \in [ok : BOOLEAN, check : Checks]
      /\ \A i \in 1 .. n : f[i] = IF ~f[i - 1].ok THEN f[i - 1]
                                  ELSE R!Check(kind, f[i - 1].check, layers, methods[i])
  BY <1>1 DEF Follows
<1>5. /\ g[0] = [ok |-> TRUE, check |-> other]
      /\ \A i \in 0 .. n : g[i] \in [ok : BOOLEAN, check : Checks]
      /\ \A i \in 1 .. n : g[i] = IF ~g[i - 1].ok THEN g[i - 1]
                                  ELSE R!Check(kind, g[i - 1].check, others, methods[i])
  BY <1>2 DEF Follows
<1> HIDE DEF methods, n
<1> DEFINE Alike(s, t) == s.ok = t.ok /\ Agree(kind, s.check, t.check)
           Good == {i \in 0 .. n : Alike(f[i], g[i])}
<1>6. 0 \in Good
  BY <1>3, <1>4, <1>5
<1>7. ASSUME NEW i \in 1 .. n, i - 1 \in Good PROVE i \in Good
  <2> DEFINE s == f[i - 1]
             t == g[i - 1]
             c == methods[i]
  <2>1. /\ s \in [ok : BOOLEAN, check : Checks] /\ t \in [ok : BOOLEAN, check : Checks]
        /\ Alike(s, t) /\ c \in MCControllerRoutes /\ i \in 0 .. n
        /\ f[i] = IF ~s.ok THEN s ELSE R!Check(kind, s.check, layers, c)
        /\ g[i] = IF ~t.ok THEN t ELSE R!Check(kind, t.check, others, c)
    BY <1>3, <1>4, <1>5, <1>7
  <2> HIDE DEF s, t, c
  <2>2. /\ R!Check(kind, s.check, layers, c).ok = R!Check(kind, t.check, others, c).ok
        /\ Agree(kind, R!Check(kind, s.check, layers, c).check, R!Check(kind, t.check, others, c).check)
    BY <2>1, CheckAgrees
  <2>3. Alike(f[i], g[i])
    BY <2>1, <2>2
  <2> QED
    BY <2>1, <2>3
<1> HIDE DEF Good
<1>8. 0 .. n \subseteq Good
  BY <1>3, <1>6, <1>7, Climb
<1>9. n \in 0 .. n
  BY <1>3
<1> QED
  BY <1>1, <1>2, <1>8, <1>9 DEF Good

-----------------------------------------------------------------------------
(* Routes: what fails *)

NoChecks == [at \in Places |-> <<>>]
Conflict == \E kind \in R!Kinds : ~R!CheckAll(kind, NoChecks, <<>>).ok

LEMMA NoChecksType == NoChecks \in Checks
BY DEF NoChecks, Checks

RouteTypes ==
  /\ host \in {"egg", "worker"} /\ controllers \in Seq(MCControllerRoutes)
  /\ checkRouters \in Checks /\ DOMAIN event = Events /\ faults \in Nat
  /\ fetchInit \in {"none", "running", "done"} /\ wsInit \in {"none", "done"}
  /\ phase \in {"collect", "ready", "duplicate controller", "conflict", "closed"}

\* While controllers are collected nothing is checked yet; an egg application has no events
\* that initialise its routes.
Collected ==
  phase \in {"collect", "duplicate controller"} =>
    /\ checkRouters = NoChecks /\ fetchInit = "none" /\ wsInit = "none" /\ listening = FALSE
    /\ \A e \in Events : event[e] = "new"
    /\ host = "worker" => router = <<>>
EggEvents == host = "egg" => fetchInit = "none" /\ \A e \in Events : event[e] # "failed"

\* What was not checked of a kind in a service worker has left nothing behind.
Unchecked ==
  host = "worker" =>
    /\ phase \in {"collect", "ready", "duplicate controller"}
    /\ ~Conflict /\ faults = 0 => \A e \in Events : event[e] # "failed"
    /\ ~Conflict /\ faults = 0 /\ fetchInit = "none" => router = <<>> /\ Agree("HTTP", checkRouters, NoChecks)
    /\ ~Conflict /\ wsInit = "none" => Agree("WEBSOCKET", checkRouters, NoChecks)

CauseInv == RouteTypes /\ Collected /\ EggEvents /\ Unchecked

LEMMA InitCause == R!Init => CauseInv
<1> SUFFICES ASSUME R!Init PROVE CauseInv
  OBVIOUS
<1>1. checkRouters = NoChecks
  BY DEF R!Init, NoChecks, Places, RouteHosts
<1>2. /\ host \in {"egg", "worker"} /\ controllers = <<>> /\ phase = "collect" /\ fetchInit = "none"
      /\ wsInit = "none" /\ event = [e \in Events |-> "new"] /\ faults = 0 /\ listening = FALSE
      /\ host = "worker" => router = <<>>
  BY DEF R!Init
<1>3. RouteTypes
  BY <1>1, <1>2, NoChecksType DEF RouteTypes
<1> QED
  BY <1>1, <1>2, <1>3 DEF CauseInv, Collected, EggEvents, Unchecked, Agree

LEMMA ConflictStays == controllers' = controllers => Conflict' = Conflict
BY DEF Conflict, R!CheckAll, R!AllMethods, NoChecks

\* What a check of one kind leaves as it was.
LEMMA CheckLeaves ==
  ASSUME R!RoutesAssumption, RouteTypes, NEW kind \in R!Kinds, NEW other \in R!Kinds, kind # other
  PROVE  /\ R!CheckAll(kind, checkRouters, router).check \in Checks
         /\ Agree(other, R!CheckAll(kind, checkRouters, router).check, checkRouters)
<1>0. controllers \in Seq(MCControllerRoutes) /\ checkRouters \in Checks
  BY DEF RouteTypes
<1>1. /\ R!CheckAll(kind, checkRouters, router) \in [ok : BOOLEAN, check : Checks]
      /\ \A at \in Places : at[1] # kind =>
           R!CheckAll(kind, checkRouters, router).check[at] = checkRouters[at]
  BY <1>0, CheckAllTypes
<1>2. \A h \in RouteHosts : <<other, h>> \in Places
  BY DEF Places
<1> QED
  BY <1>1, <1>2 DEF Agree

\* A check that fails where nothing was checked fails for a conflict.
LEMMA FailsForConflict ==
  ASSUME R!RoutesAssumption, RouteTypes, NEW kind \in R!Kinds, Agree(kind, checkRouters, NoChecks),
         kind = "HTTP" => router = <<>>, ~R!CheckAll(kind, checkRouters, router).ok
  PROVE  Conflict
<1>0. controllers \in Seq(MCControllerRoutes) /\ checkRouters \in Checks /\ NoChecks \in Checks
  BY NoChecksType DEF RouteTypes
<1>1. R!CheckAll(kind, checkRouters, router).ok = R!CheckAll(kind, NoChecks, <<>>).ok
  BY <1>0, CheckAllAgrees
<1> QED
  BY <1>1 DEF Conflict

\* The initialisation of a service worker's routes, by a fetch event or an upgrade.
LEMMA InitRoutesKeeps ==
  ASSUME R!RoutesAssumption, CauseInv, NEW e \in Events, host = "worker", phase = "ready",
         fetchInit = "none", R!DoInitRoutes(e),
         UNCHANGED <<host, controllers, phase, wsInit, faults>>
  PROVE  CauseInv'
<1> DEFINE checked == R!CheckAll("HTTP", checkRouters, router)
<1> USE DEF CauseInv
<1>1. /\ checkRouters' = checked.check
      /\ IF checked.ok THEN fetchInit' = "running" /\ event' = [event EXCEPT ![e] = "init"]
         ELSE event' = [event EXCEPT ![e] = "failed"] /\ UNCHANGED <<fetchInit, router>>
  BY DEF R!DoInitRoutes, R!HTTPDoRegister, R!Answer
<1>2. "HTTP" \in R!Kinds /\ "WEBSOCKET" \in R!Kinds
  BY DEF R!Kinds
<1>3. checked.check \in Checks /\ Agree("WEBSOCKET", checked.check, checkRouters)
  BY <1>2, CheckLeaves
<1>4. ~checked.ok /\ ~Conflict => faults # 0
  BY <1>2, FailsForConflict DEF Unchecked
<1> HIDE DEF checked
<1>5. RouteTypes'
  BY <1>1, <1>3 DEF RouteTypes
<1>6. Collected' /\ EggEvents'
  BY DEF Collected, EggEvents
<1>7. Unchecked'
  <2>1. ~Conflict' => ~Conflict
    BY ConflictStays
  <2>2. ~Conflict' /\ faults' = 0 => checked.ok /\ \A d \in Events : event'[d] # "failed"
    BY <1>1, <1>4, <2>1 DEF Unchecked, RouteTypes
  <2>3. ~Conflict' /\ wsInit' = "none" => Agree("WEBSOCKET", checkRouters', NoChecks)
    BY <1>1, <1>3, <2>1 DEF Unchecked, Agree
  <2>4. Agree("WEBSOCKET", checkRouters, NoChecks)' = Agree("WEBSOCKET", checkRouters', NoChecks)
    BY DEF Agree, NoChecks
  <2> QED
    BY <1>1, <2>2, <2>3, <2>4 DEF Unchecked
<1> QED
  BY <1>5, <1>6, <1>7

LEMMA WebSocketInitKeeps ==
  ASSUME R!RoutesAssumption, CauseInv, NEW e \in Events, host = "worker", phase = "ready",
         wsInit = "none", R!WebSocketDoRegister,
         NEW how \in {"missing", "served"},
         event' = [event EXCEPT ![e] = IF wsInit' = "none" THEN "failed" ELSE how],
         UNCHANGED <<host, controllers, phase, router, fetchInit, faults>>
  PROVE  CauseInv'
<1> DEFINE checked == R!CheckAll("WEBSOCKET", checkRouters, router)
<1> USE DEF CauseInv
<1>1. checkRouters' = checked.check /\ IF checked.ok THEN wsInit' = "done" ELSE UNCHANGED wsInit
  BY DEF R!WebSocketDoRegister
<1>2. "HTTP" \in R!Kinds /\ "WEBSOCKET" \in R!Kinds
  BY DEF R!Kinds
<1>3. checked.check \in Checks /\ Agree("HTTP", checked.check, checkRouters)
  BY <1>2, CheckLeaves
<1>4. ~Conflict => checked.ok
  BY <1>2, FailsForConflict DEF Unchecked
<1> HIDE DEF checked
<1>5. RouteTypes'
  BY <1>1, <1>3 DEF RouteTypes
<1>6. Collected' /\ EggEvents'
  BY DEF Collected, EggEvents
<1>7. Unchecked'
  <2>1. ~Conflict' => ~Conflict
    BY ConflictStays
  <2>2. ~Conflict' /\ faults' = 0 => \A d \in Events : event'[d] # "failed"
    BY <1>1, <1>4, <2>1 DEF Unchecked, RouteTypes
  <2>3. ~Conflict' => wsInit' # "none"
    BY <1>1, <1>4, <2>1
  <2>4. ~Conflict' /\ faults' = 0 /\ fetchInit' = "none" => Agree("HTTP", checkRouters', NoChecks)
    BY <1>1, <1>3, <2>1 DEF Unchecked, Agree
  <2>5. Agree("HTTP", checkRouters, NoChecks)' = Agree("HTTP", checkRouters', NoChecks)
    BY DEF Agree, NoChecks
  <2>6. ~Conflict' /\ faults' = 0 /\ fetchInit' = "none" => router' = <<>>
    BY <2>1 DEF Unchecked
  <2> QED
    BY <2>2, <2>3, <2>4, <2>5, <2>6 DEF Unchecked
<1> QED
  BY <1>5, <1>6, <1>7

\* What leaves the checks alone and fails no event.
LEMMA OthersKeep ==
  ASSUME CauseInv, UNCHANGED <<host, controllers, checkRouters, router, wsInit>>,
         phase' = phase \/ (phase = "collect" /\ phase' = "ready"),
         fetchInit' = fetchInit \/ (fetchInit = "running" /\ fetchInit' = "done")
           \/ (fetchInit = "running" /\ fetchInit' = "none" /\ faults' # 0),
         faults' = faults \/ (faults' \in Nat /\ faults' # 0 /\ fetchInit = "running"),
         DOMAIN event' = Events,
         (event' = event /\ listening' = listening) \/ phase \notin {"collect", "duplicate controller"},
         \A e \in Events : event'[e] = "failed" => event[e] = "failed" \/ (faults' # 0 /\ fetchInit = "running")
  PROVE  CauseInv'
<1> USE DEF CauseInv
<1>1. RouteTypes'
  BY DEF RouteTypes
<1>2. Collected'
  <2>1. NoChecks' = NoChecks
    BY DEF NoChecks
  <2> QED
    BY <2>1 DEF Collected
<1>3. EggEvents'
  BY DEF EggEvents
<1>4. Unchecked'
  <2>1. Conflict' = Conflict
    BY ConflictStays
  <2>2. \A kind : Agree(kind, checkRouters, NoChecks)' = Agree(kind, checkRouters, NoChecks)
    BY DEF Agree, NoChecks
  <2>4. faults' = faults \/ faults' # 0
    OBVIOUS
  <2>5. faults \in Nat /\ faults' \in Nat
    BY <1>1 DEF RouteTypes
  <2>6. faults' = 0 => faults = 0
    BY <2>4, <2>5
  <2>8. ASSUME host' = "worker"
        PROVE  /\ phase' \in {"collect", "ready", "duplicate controller"}
               /\ ~Conflict' /\ faults' = 0 => \A e \in Events : event'[e] # "failed"
    BY <2>1, <2>6, <2>8 DEF Unchecked
  <2>9. ASSUME host' = "worker", ~Conflict', faults' = 0, fetchInit' = "none"
        PROVE  router' = <<>> /\ Agree("HTTP", checkRouters, NoChecks)'
    BY <2>1, <2>2, <2>6, <2>9 DEF Unchecked
  <2>10. ASSUME host' = "worker", ~Conflict', wsInit' = "none"
         PROVE  Agree("WEBSOCKET", checkRouters, NoChecks)'
    BY <2>1, <2>2, <2>10 DEF Unchecked
  <2> QED
    BY <2>8, <2>9, <2>10 DEF Unchecked
<1> QED
  BY <1>1, <1>2, <1>3, <1>4

LEMMA DidLoadKeeps == ASSUME R!RoutesAssumption, CauseInv, R!DidLoad PROVE CauseInv'
<1> DEFINE http == R!CheckAll("HTTP", checkRouters, router)
           webSocket == R!CheckAll("WEBSOCKET", http.check, router)
<1> USE DEF CauseInv
<1>1. /\ host = "egg" /\ phase = "collect" /\ phase' \in {"ready", "conflict"}
      /\ checkRouters' = IF http.ok THEN webSocket.check ELSE http.check
      /\ UNCHANGED <<host, controllers, fetchInit, wsInit, event, faults>>
  BY DEF R!DidLoad, R!HTTPDoRegister
<1>2. http.check \in Checks /\ webSocket.check \in Checks
  <2>1. controllers \in Seq(MCControllerRoutes) /\ checkRouters \in Checks
        /\ "HTTP" \in R!Kinds /\ "WEBSOCKET" \in R!Kinds
    BY DEF RouteTypes, R!Kinds
  <2>2. http \in [ok : BOOLEAN, check : Checks]
    BY <2>1, CheckAllTypes
  <2> HIDE DEF http
  <2>3. http.check \in Checks
    BY <2>2
  <2>4. webSocket \in [ok : BOOLEAN, check : Checks]
    BY <2>1, <2>3, CheckAllTypes
  <2> HIDE DEF webSocket
  <2> QED
    BY <2>3, <2>4
<1> HIDE DEF http, webSocket
<1>3. RouteTypes'
  BY <1>1, <1>2 DEF RouteTypes
<1> QED
  BY <1>1, <1>3 DEF Collected, EggEvents, Unchecked

LEMMA CollectKeeps ==
  ASSUME CauseInv, NEW c \in MCControllerRoutes, R!Collect(c) PROVE CauseInv'
<1> USE DEF CauseInv
<1>1. /\ phase = "collect" /\ controllers' = Append(controllers, c)
      /\ phase' \in {"collect", "duplicate controller"}
      /\ UNCHANGED <<host, checkRouters, router, fetchInit, wsInit, event, listening, faults>>
  BY DEF R!Collect
<1>2. RouteTypes'
  <2>1. controllers' \in Seq(MCControllerRoutes)
    BY <1>1, AppendProperties DEF RouteTypes
  <2> QED
    BY <1>1, <2>1 DEF RouteTypes
<1>3. NoChecks' = NoChecks
  BY DEF NoChecks
<1>4. Collected'
  BY <1>1, <1>3 DEF Collected
<1>5. EggEvents'
  BY <1>1 DEF EggEvents
<1>6. Unchecked'
  <2>1. checkRouters' = NoChecks' /\ (host = "worker" => router = <<>>)
        /\ \A e \in Events : event[e] = "new"
    BY <1>1, <1>3 DEF Collected
  <2>2. \A kind : Agree(kind, checkRouters, NoChecks)'
    BY <2>1 DEF Agree
  <2> QED
    BY <1>1, <2>1, <2>2 DEF Unchecked
<1> QED
  BY <1>2, <1>4, <1>5, <1>6

LEMMA CleanKeeps == ASSUME CauseInv, R!Clean PROVE CauseInv'
<1> USE DEF CauseInv
<1>1. /\ host = "egg" /\ phase' = "closed" /\ controllers' = <<>>
      /\ checkRouters' = [kh \in DOMAIN checkRouters |-> <<>>]
      /\ UNCHANGED <<host, fetchInit, wsInit, event, faults>>
  BY DEF R!Clean
<1>2. checkRouters' = NoChecks
  BY <1>1 DEF RouteTypes, Checks, NoChecks
<1>3. RouteTypes'
  <2>1. controllers' \in Seq(MCControllerRoutes)
    BY <1>1
  <2>2. /\ host \in {"egg", "worker"} /\ DOMAIN event = Events /\ faults \in Nat
        /\ fetchInit \in {"none", "running", "done"} /\ wsInit \in {"none", "done"}
    BY DEF RouteTypes
  <2>3. checkRouters' \in Checks
    BY <1>2, NoChecksType
  <2> QED
    BY <1>1, <2>1, <2>2, <2>3 DEF RouteTypes
<1> QED
  BY <1>1, <1>3 DEF Collected, EggEvents, Unchecked

LEMMA NextCause == R!RoutesAssumption /\ CauseInv /\ [R!Next]_routeVars => CauseInv'
<1> SUFFICES ASSUME R!RoutesAssumption, CauseInv, [R!Next]_routeVars PROVE CauseInv'
  OBVIOUS
<1> USE DEF CauseInv
<1>0. /\ DOMAIN event = Events /\ faults \in Nat
      /\ phase \in {"collect", "duplicate controller"} =>
           fetchInit = "none" /\ listening = FALSE /\ \A e \in Events : event[e] = "new"
  BY DEF RouteTypes, Collected
<1>1. ASSUME NEW c \in MCControllerRoutes, R!Collect(c) PROVE CauseInv'
  BY <1>1, CollectKeeps
<1>2. CASE R!DidLoad
  BY <1>2, DidLoadKeeps
<1>3. CASE R!Loaded \/ R!Listen
  <2>1. /\ UNCHANGED <<host, controllers, checkRouters, router, wsInit, fetchInit, faults, event>>
        /\ listening' = listening \/ phase = "ready"
        /\ phase' = phase \/ (phase = "collect" /\ phase' = "ready")
    BY <1>3 DEF R!Loaded, R!Listen
  <2> QED
    BY <1>0, <2>1, OthersKeep
<1>4. CASE R!Clean
  BY <1>4, CleanKeeps
<1>5. CASE R!McpRegistered
  <2>1. /\ UNCHANGED <<host, controllers, phase, checkRouters, router, wsInit, faults>>
        /\ fetchInit = "running" /\ fetchInit' = "done"
        /\ event' = [e \in Events |-> IF e \in R!Waiting THEN "handling" ELSE event[e]]
    BY <1>5 DEF R!McpRegistered, R!AnswerWaiting
  <2>2. \A e \in Events : event'[e] = "failed" => event[e] = "failed"
    BY <2>1
  <2> QED
    BY <1>0, <2>1, <2>2, OthersKeep
<1>6. CASE R!McpFails
  <2>1. /\ UNCHANGED <<host, controllers, phase, checkRouters, router, wsInit>>
        /\ fetchInit = "running" /\ fetchInit' = "none" /\ faults' = faults + 1
        /\ event' = [e \in Events |-> IF e \in R!Waiting THEN "failed" ELSE event[e]]
    BY <1>6 DEF R!McpFails, R!AnswerWaiting
  <2>2. faults' \in Nat /\ faults' # 0
    <3>1. faults \in Nat /\ faults' = faults + 1
      BY <1>0, <2>1
    <3> QED
      BY <3>1
  <2>3. DOMAIN event' = Events
    BY <2>1
  <2> QED
    BY <1>0, <2>1, <2>2, <2>3, OthersKeep
<1>7. ASSUME NEW e \in Events, R!FetchEvent(e) PROVE CauseInv'
  <2>1. host = "worker" /\ phase = "ready" /\ UNCHANGED <<host, controllers, phase, wsInit, faults>>
    BY <1>7 DEF R!FetchEvent
  <2>2. CASE fetchInit = "none" /\ R!DoInitRoutes(e)
    BY <2>1, <2>2, InitRoutesKeeps
  <2>3. CASE /\ \E how \in {"init", "handling"} : event' = [event EXCEPT ![e] = how]
             /\ UNCHANGED <<checkRouters, router, fetchInit>>
    <3>1. DOMAIN event' = Events /\ \A d \in Events : event'[d] = "failed" => event[d] = "failed"
      BY <1>0, <2>3
    <3> QED
      BY <2>1, <2>3, <3>1, OthersKeep
  <2> QED
    BY <1>7, <2>2, <2>3 DEF R!FetchEvent, R!InitRoutes, R!Answer
<1>8. ASSUME NEW e \in Events, NEW q \in MCRequests, R!WebSocketEvent(e, q) PROVE CauseInv'
  <2>1. host = "worker" /\ phase = "ready"
        /\ UNCHANGED <<host, controllers, phase, router, fetchInit, faults>>
    BY <1>8 DEF R!WebSocketEvent
  <2>2. \E how \in {"missing", "served"} :
          event' = [event EXCEPT ![e] = IF wsInit' = "none" THEN "failed" ELSE how]
    BY <1>8 DEF R!WebSocketEvent, R!Answer
  <2>3. CASE wsInit = "none" /\ R!WebSocketDoRegister
    BY <2>1, <2>2, <2>3, WebSocketInitKeeps
  <2>4. CASE wsInit = "done" /\ UNCHANGED <<checkRouters, wsInit>>
    <3>1. DOMAIN event' = Events /\ \A d \in Events : event'[d] = "failed" => event[d] = "failed"
      BY <1>0, <2>2, <2>4
    <3> QED
      BY <2>1, <2>4, <3>1, OthersKeep
  <2> QED
    BY <1>8, <2>3, <2>4 DEF R!WebSocketEvent
<1>9. ASSUME NEW e \in Events,
             R!Unclaimed(e) \/ \E q \in MCRequests : R!HandleFetch(e, q) \/ R!Upgrade(e, q)
      PROVE  CauseInv'
  <2> DEFINE Ends ==
        /\ UNCHANGED <<host, controllers, phase, checkRouters, router, wsInit, fetchInit, faults>>
        /\ event[e] # "new" \/ listening = TRUE
        /\ \E how \in {"missing", "served", "unclaimed", "claimed"} : event' = [event EXCEPT ![e] = how]
  <2>1. Ends
    <3>1. ASSUME NEW q \in MCRequests, R!HandleFetch(e, q) PROVE Ends
      BY <3>1 DEF R!HandleFetch, R!Answer
    <3>2. ASSUME NEW q \in MCRequests, R!Upgrade(e, q) PROVE Ends
      BY <3>2 DEF R!Upgrade, R!Answer
    <3>3. CASE R!Unclaimed(e)
      BY <3>3 DEF R!Unclaimed, R!Answer
    <3> QED
      BY <1>9, <3>1, <3>2, <3>3
  <2>2. phase \notin {"collect", "duplicate controller"}
    BY <1>0, <2>1
  <2>3. DOMAIN event' = Events /\ \A d \in Events : event'[d] = "failed" => event[d] = "failed"
    BY <1>0, <2>1
  <2> QED
    BY <2>1, <2>2, <2>3, OthersKeep
<1>10. CASE UNCHANGED routeVars
  <2>1. UNCHANGED <<host, controllers, phase, checkRouters, router, wsInit, fetchInit, faults, event, listening>>
    BY <1>10 DEF routeVars
  <2> QED
    BY <1>0, <2>1, OthersKeep
<1> QED
  BY <1>1, <1>2, <1>3, <1>4, <1>5, <1>6, <1>7, <1>8, <1>9, <1>10 DEF R!Next

LEMMA CauseHolds == CauseInv => EventsFailForACause
<1> SUFFICES ASSUME CauseInv, NEW e \in Events, event[e] = "failed", faults = 0 PROVE Conflict
  <2>1. R!EventsFailForACause <=>
          \A e \in Events : event[e] = "failed" =>
            \/ faults > 0
            \/ \E kind \in R!Kinds : ~R!CheckAll(kind, [kh \in DOMAIN checkRouters |-> <<>>], <<>>).ok
    BY DEF R!EventsFailForACause
  <2>2. CauseInv => DOMAIN checkRouters = Places /\ faults \in Nat
    BY DEF CauseInv, RouteTypes, Checks
  <2>3. CauseInv => [kh \in DOMAIN checkRouters |-> <<>>] = NoChecks
    BY <2>2 DEF NoChecks
  <2>4. faults \in Nat /\ faults # 0 => faults > 0
    OBVIOUS
  <2> QED
    BY <2>1, <2>2, <2>3, <2>4 DEF EventsFailForACause, Conflict
<1>1. host \in {"egg", "worker"}
  BY DEF CauseInv, RouteTypes
<1> QED
  BY <1>1 DEF CauseInv, EggEvents, Unchecked

-----------------------------------------------------------------------------
(* Routes: their layers, in order *)

\* Of a sequence's layers: each is of a method, at one of its hosts, and two are in the
\* order of theirs, or of one method and at two hosts.
LayerFor(l, c) == \E h \in R!Range(R!HostsOf(c)) : l = R!Layer(c, h)
InOrder(l, other, cs, n) ==
  \E j, k \in 1 .. n : /\ j <= k /\ l.controller = cs[j] /\ other.controller = cs[k]
                       /\ j = k => l.host # other.host
Laid(s, cs, n) ==
  /\ \A a \in DOMAIN s : \E k \in 1 .. n : LayerFor(s[a], cs[k])
  /\ \A a, b \in DOMAIN s : a < b => InOrder(s[a], s[b], cs, n)

LEMMA LayerIs ==
  /\ \A c, h : LET l == R!Layer(c, h) IN
       l.verb = c.verb /\ l.path = c.path /\ l.host = h /\ l.controller = c
  /\ \A l \in R!Layers : l # R!NotFound
<1>1. \A c, h : LET l == R!Layer(c, h) IN
        l.verb = c.verb /\ l.path = c.path /\ l.host = h /\ l.controller = c
  BY DEF R!Layer
<1>2. \A c, h : "verb" \in DOMAIN R!Layer(c, h)
  BY DEF R!Layer
<1>3. "verb" \notin DOMAIN R!NotFound
  BY DEF R!NotFound
<1>4. R!Layers = {R!Layer(d, g) : d \in MCControllerRoutes, g \in RouteHosts}
  BY DEF R!Layers, RouteHosts
<1> QED
  BY <1>1, <1>2, <1>3, <1>4

LEMMA LaidMore ==
  ASSUME R!RoutesAssumption, NEW cs, NEW n \in Nat, cs[n + 1] \in MCControllerRoutes,
         NEW s \in Seq(R!Layers), Laid(s, cs, n)
  PROVE  LET hosts == R!HostsOf(cs[n + 1])
             t == [j \in DOMAIN hosts |-> R!Layer(cs[n + 1], hosts[j])] IN
         s \o t \in Seq(R!Layers) /\ Laid(s \o t, cs, n + 1)
<1> DEFINE c == cs[n + 1]
           hosts == R!HostsOf(c)
           t == [j \in DOMAIN hosts |-> R!Layer(c, hosts[j])]
           u == s \o t
           m == Len(s)
           p == Len(hosts)
<1>1. /\ hosts \in Seq(RouteHosts) /\ \A i, j \in DOMAIN hosts : hosts[i] = hosts[j] => i = j
      /\ c \in MCControllerRoutes
  BY HostsAre
<1> HIDE DEF c, hosts
<1>2. /\ p \in Nat /\ DOMAIN hosts = 1 .. p /\ \A j \in 1 .. p : hosts[j] \in RouteHosts
      /\ \A j \in 1 .. p : hosts[j] \in R!Range(hosts)
  BY <1>1 DEF R!Range
<1>3. t = [j \in 1 .. p |-> R!Layer(c, hosts[j])]
  BY <1>2
<1> HIDE DEF p, t
<1>4. \A j \in 1 .. p : R!Layer(c, hosts[j]) \in R!Layers
  BY <1>1, <1>2, LayersHave
<1>5. t \in Seq(R!Layers) /\ Len(t) = p
  BY <1>2, <1>3, <1>4
<1>6. /\ u \in Seq(R!Layers) /\ m \in Nat /\ DOMAIN s = 1 .. m /\ DOMAIN u = 1 .. m + p
      /\ \A i \in 1 .. m + p : u[i] = IF i <= m THEN s[i] ELSE t[i - m]
  <2>1. u \in Seq(R!Layers) /\ Len(u) = m + p /\ \A i \in 1 .. m + p : u[i] = IF i <= m THEN s[i] ELSE t[i - m]
    BY <1>5, ConcatProperties
  <2>2. m \in Nat /\ DOMAIN s = 1 .. m
    OBVIOUS
  <2> HIDE DEF u, m
  <2> QED
    BY <2>1, <2>2
<1> HIDE DEF u, m
<1>7. ASSUME NEW i \in 1 .. m + p
      PROVE  \/ i \in 1 .. m /\ u[i] = s[i]
             \/ i > m /\ i - m \in 1 .. p /\ u[i] = R!Layer(c, hosts[i - m])
  <2>1. CASE i <= m
    BY <1>6, <2>1
  <2>2. CASE ~(i <= m)
    <3>1. i > m /\ i - m \in 1 .. p
      BY <1>2, <1>6, <2>2
    <3> QED
      BY <1>3, <1>6, <2>2, <3>1
  <2> QED
    BY <2>1, <2>2
<1>8. n + 1 \in 1 .. n + 1 /\ \A k \in 1 .. n : k \in 1 .. n + 1 /\ k < n + 1 /\ k # n + 1 /\ k <= n + 1
  OBVIOUS
<1>9. ASSUME NEW i \in 1 .. m + p PROVE \E k \in 1 .. n + 1 : LayerFor(u[i], cs[k])
  <2>1. CASE i \in 1 .. m /\ u[i] = s[i]
    BY <1>6, <1>8, <2>1 DEF Laid
  <2>2. CASE i - m \in 1 .. p /\ u[i] = R!Layer(c, hosts[i - m])
    <3>1. LayerFor(u[i], c)
      BY <1>2, <2>2 DEF LayerFor, hosts
    <3> QED
      BY <1>8, <3>1 DEF c
  <2> QED
    BY <1>7, <2>1, <2>2
<1>10. ASSUME NEW a \in 1 .. m + p, NEW b \in 1 .. m + p, a < b PROVE InOrder(u[a], u[b], cs, n + 1)
  <2>1. CASE b \in 1 .. m /\ u[b] = s[b]
    <3>1. a \in 1 .. m /\ u[a] = s[a]
      BY <1>6, <1>10, <2>1
    <3>2. InOrder(s[a], s[b], cs, n)
      BY <1>6, <1>10, <2>1, <3>1 DEF Laid
    <3>3. PICK j \in 1 .. n, k \in 1 .. n :
            /\ j <= k /\ s[a].controller = cs[j] /\ s[b].controller = cs[k]
            /\ j = k => s[a].host # s[b].host
      BY <3>2 DEF InOrder
    <3> QED
      BY <1>8, <2>1, <3>1, <3>3 DEF InOrder
  <2>2. CASE b - m \in 1 .. p /\ u[b] = R!Layer(c, hosts[b - m])
    <3>1. u[b].controller = cs[n + 1] /\ u[b].host = hosts[b - m]
      BY <2>2, LayerIs DEF c
    <3>2. CASE a \in 1 .. m /\ u[a] = s[a]
      <4>1. PICK k \in 1 .. n : LayerFor(s[a], cs[k])
        BY <1>6, <3>2 DEF Laid
      <4>2. u[a].controller = cs[k]
        BY <3>2, <4>1, LayerIs DEF LayerFor
      <4>3. k \in 1 .. n + 1 /\ n + 1 \in 1 .. n + 1 /\ k <= n + 1 /\ k # n + 1
        BY <1>8
      <4> QED
        BY <3>1, <4>2, <4>3 DEF InOrder
    <3>3. CASE a - m \in 1 .. p /\ u[a] = R!Layer(c, hosts[a - m])
      <4>1. u[a].controller = cs[n + 1] /\ u[a].host = hosts[a - m]
        BY <3>3, LayerIs DEF c
      <4>2. a - m # b - m
        BY <1>6, <1>2, <1>10
      <4>3. u[a].host # u[b].host
        BY <1>1, <1>2, <2>2, <3>1, <3>3, <4>1, <4>2
      <4>4. n + 1 \in 1 .. n + 1 /\ n + 1 <= n + 1
        BY <1>8
      <4> QED
        BY <3>1, <4>1, <4>3, <4>4 DEF InOrder
    <3> QED
      BY <1>7, <3>2, <3>3
  <2> QED
    BY <1>7, <2>1, <2>2
<1>11. Laid(u, cs, n + 1)
  BY <1>6, <1>9, <1>10 DEF Laid
<1> QED
  BY <1>6, <1>11 DEF u, t, hosts, c

LEMMA LayersAre ==
  ASSUME R!RoutesAssumption, NEW cs \in Seq(MCControllerRoutes)
  PROVE  R!LayersOf(cs) \in Seq(R!Layers) /\ Laid(R!LayersOf(cs), cs, Len(cs))
<1> DEFINE n == Len(cs)
           X == Seq(R!Layers)
           T(i) == [j \in DOMAIN R!HostsOf(cs[i]) |-> R!Layer(cs[i], R!HostsOf(cs[i])[j])]
           More(i, s) == s \o T(i)
           Body(f) == [i \in 0 .. n |-> IF i = 0 THEN <<>> ELSE More(i, f[i - 1])]
           layers == CHOOSE f : f = Body(f)
           G == [i \in 1 .. n |-> [s \in X |-> More(i, s)]]
           Good == {i \in 0 .. n : layers[i] \in X /\ Laid(layers[i], cs, i)}
<1>1. n \in Nat /\ \A i \in 1 .. n : cs[i] \in MCControllerRoutes
  OBVIOUS
<1>2. ASSUME NEW i \in 1 .. n PROVE T(i) \in X
  <2> DEFINE c == cs[i]
             hosts == R!HostsOf(c)
  <2>1. c \in MCControllerRoutes
    BY <1>1
  <2> HIDE DEF c
  <2>2. hosts \in Seq(RouteHosts)
    BY <2>1, HostsAre
  <2> HIDE DEF hosts
  <2>3. Len(hosts) \in Nat /\ DOMAIN hosts = 1 .. Len(hosts) /\ \A j \in 1 .. Len(hosts) : hosts[j] \in RouteHosts
    BY <2>2
  <2>4. \A j \in 1 .. Len(hosts) : R!Layer(c, hosts[j]) \in R!Layers
    BY <2>1, <2>3, LayersHave
  <2>5. [j \in DOMAIN hosts |-> R!Layer(c, hosts[j])] \in Seq(R!Layers)
    BY <2>3, <2>4
  <2> QED
    BY <2>5 DEF hosts, c
<1> HIDE DEF T
<1>3. \A i \in 1 .. n, s \in X : More(i, s) \in X
  BY <1>2, ConcatProperties
<1>4. R!LayersOf(cs) = layers[n]
  BY DEF R!LayersOf, T
<1>5. <<>> \in X
  OBVIOUS
<1> HIDE DEF More, X
<1>6. layers = Body(layers)
  <2>1. G \in [1 .. n -> [X -> X]]
    BY <1>1, <1>3
  <2> HIDE DEF n, G
  <2>2. Computed(n, X, <<>>, G)
    BY <1>1, <1>5, <2>1, Recursion
  <2>3. PICK f \in [0 .. n -> X] : f[0] = <<>> /\ \A i \in 1 .. n : f[i] = G[i][f[i - 1]]
    BY <2>2 DEF Computed, Computes
  <2>4. \A i \in 1 .. n : f[i - 1] \in X
    BY <1>1, <2>3
  <2>5. \A i \in 1 .. n : f[i] = More(i, f[i - 1])
    BY <1>1, <2>3, <2>4 DEF G
  <2>6. f = Body(f)
    BY <1>1, <2>3, <2>5
  <2> QED
    BY <2>6
<1> HIDE DEF layers
<1>7. layers[0] = <<>> /\ \A i \in 1 .. n : layers[i] = More(i, layers[i - 1])
  BY <1>1, <1>6
<1> HIDE DEF n
<1>8. 0 \in Good
  <2>1. Laid(<<>>, cs, 0)
    BY DEF Laid
  <2> QED
    BY <1>1, <1>5, <1>7, <2>1
<1>9. ASSUME NEW i \in 1 .. n, i - 1 \in Good PROVE i \in Good
  <2> DEFINE k == i - 1
             s == layers[k]
  <2>1. k \in Nat /\ k + 1 = i /\ s \in Seq(R!Layers) /\ Laid(s, cs, k) /\ cs[k + 1] \in MCControllerRoutes
    BY <1>1, <1>9 DEF X
  <2> HIDE DEF k, s
  <2>2. s \o T(k + 1) \in Seq(R!Layers) /\ Laid(s \o T(k + 1), cs, k + 1)
    BY <2>1, LaidMore DEF T
  <2>3. layers[i] = s \o T(i) /\ i \in 0 .. n
    BY <1>1, <1>7 DEF s, k, More
  <2> QED
    BY <2>1, <2>2, <2>3 DEF X
<1> HIDE DEF Good
<1>10. 0 .. n \subseteq Good
  BY <1>1, <1>8, <1>9, Climb
<1>11. n \in 0 .. n
  BY <1>1
<1> QED
  BY <1>4, <1>10, <1>11 DEF Good, X, n

\* The first of some layers that a request gets to.
Hits(s, verbs, q, hosts) ==
  {i \in DOMAIN s : s[i].verb \in verbs /\ s[i].host \in hosts /\ R!Matches(s[i].path, q.path)}

LEMMA FirstIs ==
  ASSUME NEW S, NEW s \in Seq(S), NEW verbs, NEW q, NEW hosts
  PROVE  LET hits == Hits(s, verbs, q, hosts) IN
         /\ hits = {} => R!FirstOf(s, verbs, q, hosts) = R!NotFound
         /\ hits # {} => \E i \in hits : /\ R!FirstOf(s, verbs, q, hosts) = s[i]
                                         /\ \A j \in hits : i <= j
<1> DEFINE hits == Hits(s, verbs, q, hosts)
<1>1. R!FirstOf(s, verbs, q, hosts) = IF hits = {} THEN R!NotFound ELSE s[R!Min(hits)]
  BY DEF R!FirstOf, Hits
<1>2. hits \subseteq Nat
  BY DEF Hits
<1> HIDE DEF hits
<1>3. hits # {} => \E i \in hits : \A j \in hits : i <= j
  BY <1>2, LeastOf
<1>4. hits # {} => R!Min(hits) \in hits /\ \A j \in hits : R!Min(hits) <= j
  BY <1>3 DEF R!Min
<1> QED
  BY <1>1, <1>4 DEF hits

-----------------------------------------------------------------------------
(* Routes: what passed a check is apart *)

LEMMA CheckedHosts ==
  ASSUME R!RoutesAssumption, NEW kind \in R!Kinds, NEW c \in MCControllerRoutes
  PROVE  \A h \in R!Range(CheckedIn(kind, c)) : h \in RouteHosts /\ <<kind, h>> \in Places
<1> DEFINE hosts == CheckedIn(kind, c)
<1>1. hosts \in Seq(RouteHosts)
  BY HostsAre DEF CheckedIn
<1> HIDE DEF hosts
<1>2. \A h \in R!Range(hosts) : h \in RouteHosts
  BY <1>1 DEF R!Range
<1> QED
  BY <1>2 DEF Places, hosts

\* What was checked stays, and a method that passes is there for those that follow.
LEMMA CheckGrows ==
  ASSUME R!RoutesAssumption, NEW kind \in R!Kinds, NEW check \in Checks, NEW layers,
         NEW c \in MCControllerRoutes
  PROVE  LET r == R!Check(kind, check, layers, c) IN
         /\ \A at \in Places : R!Range(check[at]) \subseteq R!Range(r.check[at])
         /\ r.ok => /\ kind = "HTTP" => ~R!Duplicate(layers, c)
                    /\ \A h \in R!Range(CheckedIn(kind, c)) :
                         /\ ~R!Duplicate(check[<<kind, h>>], c)
                         /\ R!Layer(c, h) \in R!Range(r.check[<<kind, h>>])
<1> DEFINE hosts == CheckedIn(kind, c)
           clashing == {k \in DOMAIN hosts : R!Duplicate(check[<<kind, hosts[k]>>], c)}
           passed == {<<kind, hosts[k]>> : k \in {k \in DOMAIN hosts : \A j \in clashing : k < j}}
           after == [at \in Places |-> IF at \in passed THEN Append(check[at], R!Layer(c, at[2])) ELSE check[at]]
           r == R!Check(kind, check, layers, c)
<1>1. DOMAIN check = Places /\ \A at \in Places : check[at] \in Seq(R!Layers)
  BY DEF Checks
<1>2. R!InHosts(kind, check, c, hosts) = [ok |-> clashing = {}, check |-> after]
  BY <1>1 DEF R!InHosts
<1>3. \A h \in R!Range(hosts) : h \in RouteHosts /\ <<kind, h>> \in Places
  BY CheckedHosts
<1>4. clashing = {} => \A h \in R!Range(hosts) : <<kind, h>> \in passed
  BY DEF R!Range
<1>5. clashing = {} => \A h \in R!Range(hosts) : ~R!Duplicate(check[<<kind, h>>], c)
  BY DEF R!Range
<1> HIDE DEF hosts, passed, clashing
<1>6. \A s \in Seq(R!Layers), e \in R!Layers :
        R!Range(s) \subseteq R!Range(Append(s, e)) /\ e \in R!Range(Append(s, e))
  <2> SUFFICES ASSUME NEW s \in Seq(R!Layers), NEW e \in R!Layers
               PROVE  R!Range(s) \subseteq R!Range(Append(s, e)) /\ e \in R!Range(Append(s, e))
    OBVIOUS
  <2> DEFINE u == Append(s, e)
  <2>1. /\ Len(s) \in Nat /\ DOMAIN s = 1 .. Len(s) /\ DOMAIN u = 1 .. Len(s) + 1
        /\ u[Len(s) + 1] = e /\ \A i \in 1 .. Len(s) : u[i] = s[i]
    BY AppendProperties
  <2> HIDE DEF u
  <2>2. Len(s) + 1 \in DOMAIN u /\ \A i \in DOMAIN s : i \in DOMAIN u /\ u[i] = s[i]
    BY <2>1
  <2> QED
    BY <2>1, <2>2 DEF R!Range, u
<1>7. \A at \in Places : R!Layer(c, at[2]) \in R!Layers
  <2>1. \A h \in RouteHosts : R!Layer(c, h) \in R!Layers
    BY LayersHave
  <2>2. \A at \in Places : at[2] \in RouteHosts
    BY DEF Places
  <2> QED
    BY <2>1, <2>2
<1>8. \A at \in Places : /\ R!Range(check[at]) \subseteq R!Range(after[at])
                         /\ at \in passed => R!Layer(c, at[2]) \in R!Range(after[at])
  <2> SUFFICES ASSUME NEW at \in Places
               PROVE  /\ R!Range(check[at]) \subseteq R!Range(after[at])
                      /\ at \in passed => R!Layer(c, at[2]) \in R!Range(after[at])
    OBVIOUS
  <2>1. after[at] = IF at \in passed THEN Append(check[at], R!Layer(c, at[2])) ELSE check[at]
    OBVIOUS
  <2>2. check[at] \in Seq(R!Layers) /\ R!Layer(c, at[2]) \in R!Layers
    BY <1>1, <1>7
  <2> HIDE DEF after
  <2> QED
    BY <1>6, <2>1, <2>2
<1> HIDE DEF after
<1>9. \/ r = [ok |-> FALSE, check |-> check]
      \/ r = [ok |-> clashing = {}, check |-> after] /\ (kind = "HTTP" => ~R!Duplicate(layers, c))
  BY <1>2, CheckIs DEF hosts
<1>10. CASE r = [ok |-> FALSE, check |-> check]
  BY <1>10
<1>11. CASE r = [ok |-> clashing = {}, check |-> after] /\ (kind = "HTTP" => ~R!Duplicate(layers, c))
  <2>1. r.check = after /\ r.ok = (clashing = {})
    BY <1>11
  <2> HIDE DEF r
  <2>2. ASSUME r.ok, NEW h \in R!Range(hosts)
        PROVE  ~R!Duplicate(check[<<kind, h>>], c) /\ R!Layer(c, h) \in R!Range(r.check[<<kind, h>>])
    <3>1. clashing = {} /\ <<kind, h>> \in passed /\ <<kind, h>> \in Places
      BY <1>3, <1>4, <2>1, <2>2
    <3>2. <<kind, h>>[2] = h
      OBVIOUS
    <3> QED
      BY <1>5, <1>8, <2>1, <3>1, <3>2
  <2>3. \A at \in Places : R!Range(check[at]) \subseteq R!Range(r.check[at])
    BY <1>8, <2>1
  <2> QED
    BY <1>11, <2>2, <2>3 DEF r, hosts
<1> QED
  BY <1>9, <1>10, <1>11

\* Two methods that passed a check: no request for the later one gets to the earlier one.
LEMMA CheckAllApart ==
  ASSUME R!RoutesAssumption, controllers \in Seq(MCControllerRoutes),
         NEW kind \in R!Kinds, NEW check \in Checks, NEW layers,
         R!CheckAll(kind, check, layers).ok
  PROVE  LET methods == R!AllMethods(kind) IN
         /\ \A i \in 1 .. Len(methods) : kind = "HTTP" => ~R!Duplicate(layers, methods[i])
         /\ \A i, j \in 1 .. Len(methods) :
              i < j => \A h \in R!Range(CheckedIn(kind, methods[i])) \cap R!Range(CheckedIn(kind, methods[j])) :
                         ~(methods[i].verb = methods[j].verb /\ R!Matches(methods[i].path, methods[j].path))
<1> DEFINE methods == R!AllMethods(kind)
           n == Len(methods)
<1>1. PICK after : Follows(after, kind, check, layers) /\ R!CheckAll(kind, check, layers) = after[n]
  BY CheckAllIs
<1>2. n \in Nat /\ \A i \in 1 .. n : methods[i] \in MCControllerRoutes
  <2>1. methods \in Seq(MCControllerRoutes)
    BY MethodsAre
  <2> QED
    BY <2>1
<1>3. /\ \A i \in 0 .. n : after[i] \in [ok : BOOLEAN, check : Checks]
      /\ \A i \in 1 .. n : after[i] = IF ~after[i - 1].ok THEN after[i - 1]
                                      ELSE R!Check(kind, after[i - 1].check, layers, methods[i])
      /\ after[n].ok
  BY <1>1 DEF Follows
<1> HIDE DEF methods, n
<1>4. ASSUME NEW m \in 0 .. n PROVE after[m].ok
  <2> SUFFICES ASSUME ~after[m].ok PROVE FALSE
    OBVIOUS
  <2> DEFINE Good == {i \in 0 .. n : i >= m => ~after[i].ok}
  <2>1. 0 \in Good
    <3>1. 0 >= m => m = 0
      BY <1>2, <1>4
    <3> QED
      BY <1>2, <3>1
  <2>2. ASSUME NEW i \in 1 .. n, i - 1 \in Good PROVE i \in Good
    <3>1. i \in 0 .. n /\ (i >= m => i = m \/ i - 1 >= m) /\ i - 1 \in 0 .. n
      BY <1>2, <1>4
    <3>2. i >= m => ~after[i].ok
      BY <1>3, <2>2, <3>1
    <3> QED
      BY <3>1, <3>2
  <2> HIDE DEF Good
  <2>3. 0 .. n \subseteq Good
    BY <1>2, <2>1, <2>2, Climb
  <2>4. n \in 0 .. n /\ n >= m
    BY <1>2, <1>4
  <2> QED
    BY <1>3, <2>3, <2>4 DEF Good
<1>5. ASSUME NEW i \in 1 .. n
      PROVE  LET s == after[i - 1].check IN
             /\ s \in Checks /\ after[i].check \in Checks
             /\ \A at \in Places : R!Range(s[at]) \subseteq R!Range(after[i].check[at])
             /\ kind = "HTTP" => ~R!Duplicate(layers, methods[i])
             /\ \A h \in R!Range(CheckedIn(kind, methods[i])) :
                  /\ ~R!Duplicate(s[<<kind, h>>], methods[i])
                  /\ R!Layer(methods[i], h) \in R!Range(after[i].check[<<kind, h>>])
  <2> DEFINE s == after[i - 1].check
  <2>1. i - 1 \in 0 .. n /\ i \in 0 .. n
    BY <1>2
  <2>2. s \in Checks /\ after[i].check \in Checks /\ after[i].ok
        /\ after[i] = R!Check(kind, s, layers, methods[i])
    BY <1>3, <1>4, <2>1
  <2> HIDE DEF s
  <2>3. methods[i] \in MCControllerRoutes
    BY <1>2
  <2>4. LET r == R!Check(kind, s, layers, methods[i]) IN
        /\ \A at \in Places : R!Range(s[at]) \subseteq R!Range(r.check[at])
        /\ r.ok => /\ kind = "HTTP" => ~R!Duplicate(layers, methods[i])
                   /\ \A h \in R!Range(CheckedIn(kind, methods[i])) :
                        /\ ~R!Duplicate(s[<<kind, h>>], methods[i])
                        /\ R!Layer(methods[i], h) \in R!Range(r.check[<<kind, h>>])
    BY <2>2, <2>3, CheckGrows
  <2> QED
    BY <2>2, <2>4 DEF s
<1> DEFINE There(i) == \A j \in 1 .. i : \A h \in R!Range(CheckedIn(kind, methods[j])) :
                         R!Layer(methods[j], h) \in R!Range(after[i].check[<<kind, h>>])
           Good == {i \in 0 .. n : There(i)}
<1>6. 0 \in Good
  BY <1>2
<1>7. ASSUME NEW i \in 1 .. n, i - 1 \in Good PROVE i \in Good
  <2>1. i \in 0 .. n /\ There(i - 1) /\ \A j \in 1 .. i : j = i \/ j \in 1 .. i - 1
    BY <1>2, <1>7
  <2>2. ASSUME NEW j \in 1 .. i, NEW h \in R!Range(CheckedIn(kind, methods[j]))
        PROVE  R!Layer(methods[j], h) \in R!Range(after[i].check[<<kind, h>>])
    <3>1. CASE j = i
      BY <1>5, <2>2, <3>1
    <3>2. CASE j \in 1 .. i - 1
      <4>1. R!Layer(methods[j], h) \in R!Range(after[i - 1].check[<<kind, h>>])
        BY <2>1, <2>2, <3>2
      <4>2. methods[j] \in MCControllerRoutes
        BY <1>2, <2>1, <3>2
      <4>3. <<kind, h>> \in Places
        BY <2>2, <4>2, CheckedHosts
      <4> QED
        BY <1>5, <4>1, <4>3
    <3> QED
      BY <2>1, <3>1, <3>2
  <2> QED
    BY <2>1, <2>2
<1> HIDE DEF Good
<1>8. 0 .. n \subseteq Good
  BY <1>2, <1>6, <1>7, Climb
<1>9. ASSUME NEW i \in 1 .. n, NEW j \in 1 .. n, i < j,
             NEW h \in R!Range(CheckedIn(kind, methods[i])), h \in R!Range(CheckedIn(kind, methods[j]))
      PROVE  ~(methods[i].verb = methods[j].verb /\ R!Matches(methods[i].path, methods[j].path))
  <2>1. j - 1 \in 0 .. n /\ i \in 1 .. j - 1
    BY <1>2, <1>9
  <2>2. There(j - 1)
    BY <1>8, <2>1 DEF Good
  <2>3. R!Layer(methods[i], h) \in R!Range(after[j - 1].check[<<kind, h>>])
    BY <1>9, <2>1, <2>2
  <2>4. ~R!Duplicate(after[j - 1].check[<<kind, h>>], methods[j])
    BY <1>5, <1>9
  <2> QED
    BY <2>3, <2>4, LayerIs DEF R!Duplicate
<1> QED
  BY <1>5, <1>9 DEF methods, n

-----------------------------------------------------------------------------
(* Routes: what is reached *)

HttpLayers == R!LayersOf(R!AllMethods("HTTP"))
EggLayers == [i \in DOMAIN MCEggRoutes |-> R!EggLayer(MCEggRoutes[i])]
NoRoots == [vh \in R!Verbs \X RouteHosts |-> <<>>]
Apart(s) == \A a, b \in DOMAIN s :
              a < b /\ s[a].host = s[b].host => ~R!Matches(s[a].path, s[b].path)

\* WebSocket routes are apart; the router has egg's own, and then each method of HTTP once,
\* in the order of their priorities, and so has the manager of prototypes.
ReachInv ==
  /\ routes \in Seq(R!Layers) /\ Apart(routes)
  /\ host = "egg" /\ phase = "collect" => router = EggLayers /\ rootProtos = NoRoots
  /\ host = "egg" /\ phase = "ready" =>
       router = EggLayers \o HttpLayers /\ rootProtos = R!RegisterRootProtos(NoRoots, HttpLayers)
  /\ host = "worker" => router \in {<<>>, HttpLayers}

LEMMA MatchesItself == ASSUME R!RoutesAssumption, NEW c \in MCControllerRoutes PROVE R!Matches(c.path, c.path)
BY DEF R!Matches

\* A layer is of a method of the sequence, at one of its hosts.
LEMMA LaidLayer ==
  ASSUME R!RoutesAssumption, NEW cs \in Seq(MCControllerRoutes), NEW s, Laid(s, cs, Len(cs)),
         NEW a \in DOMAIN s
  PROVE  \E k \in 1 .. Len(cs) :
           /\ cs[k] \in MCControllerRoutes /\ s[a].controller = cs[k] /\ s[a].verb = cs[k].verb
           /\ s[a].path = cs[k].path /\ s[a].host \in R!Range(R!HostsOf(cs[k]))
<1>1. PICK k \in 1 .. Len(cs) : LayerFor(s[a], cs[k])
  BY DEF Laid
<1>2. PICK h \in R!Range(R!HostsOf(cs[k])) : s[a] = R!Layer(cs[k], h)
  BY <1>1 DEF LayerFor
<1> QED
  BY <1>2, LayerIs

LEMMA WebSocketApart ==
  ASSUME R!RoutesAssumption, controllers \in Seq(MCControllerRoutes), NEW check \in Checks, NEW layers,
         R!CheckAll("WEBSOCKET", check, layers).ok
  PROVE  R!CreateWebSocketRoutes \in Seq(R!Layers) /\ Apart(R!CreateWebSocketRoutes)
<1> DEFINE cs == R!AllMethods("WEBSOCKET")
           n == Len(cs)
           s == R!LayersOf(cs)
<1>1. cs \in Seq(MCControllerRoutes) /\ "WEBSOCKET" \in R!Kinds /\ \A i \in DOMAIN cs : cs[i].kind = "WEBSOCKET"
  BY MethodsAre DEF R!Kinds
<1>2. s \in Seq(R!Layers) /\ Laid(s, cs, n)
  BY <1>1, LayersAre
<1>3. \A i, j \in 1 .. n :
        i < j => \A h \in R!Range(CheckedIn("WEBSOCKET", cs[i])) \cap R!Range(CheckedIn("WEBSOCKET", cs[j])) :
                   ~(cs[i].verb = cs[j].verb /\ R!Matches(cs[i].path, cs[j].path))
  BY <1>1, CheckAllApart
<1>4. R!CreateWebSocketRoutes = s
  BY DEF R!CreateWebSocketRoutes
<1> HIDE DEF s, cs
<1>5. n \in Nat /\ DOMAIN cs = 1 .. n /\ \A i \in 1 .. n : cs[i] \in MCControllerRoutes
  BY <1>1
<1>6. \A c : CheckedIn("WEBSOCKET", c) = R!HostsOf(c)
  BY DEF CheckedIn
<1>7. \A i \in 1 .. n : cs[i].verb = "GET"
  BY <1>1, <1>5 DEF R!RoutesAssumption
<1>8. ASSUME NEW a \in DOMAIN s, NEW b \in DOMAIN s, a < b, s[a].host = s[b].host
      PROVE  ~R!Matches(s[a].path, s[b].path)
  <2>1. PICK i \in 1 .. n, j \in 1 .. n :
          /\ i <= j /\ s[a].controller = cs[i] /\ s[b].controller = cs[j]
          /\ i = j => s[a].host # s[b].host
    BY <1>2, <1>8 DEF Laid, InOrder
  <2>2. i < j
    BY <1>8, <2>1
  <2>3. s[a].path = cs[i].path /\ s[a].host \in R!Range(R!HostsOf(cs[i]))
    BY <1>1, <1>2, <2>1, LaidLayer
  <2>4. s[b].path = cs[j].path /\ s[b].host \in R!Range(R!HostsOf(cs[j]))
    BY <1>1, <1>2, <2>1, LaidLayer
  <2>5. s[a].host \in R!Range(CheckedIn("WEBSOCKET", cs[i])) \cap R!Range(CheckedIn("WEBSOCKET", cs[j]))
    BY <1>6, <1>8, <2>3, <2>4
  <2>6. ~(cs[i].verb = cs[j].verb /\ R!Matches(cs[i].path, cs[j].path))
    BY <1>3, <2>2, <2>5
  <2> QED
    BY <1>7, <2>3, <2>4, <2>6
<1> QED
  BY <1>2, <1>4, <1>8 DEF Apart

\* The layers of HTTP: their methods' priorities fall.
LEMMA HttpLayersAre ==
  ASSUME R!RoutesAssumption, controllers \in Seq(MCControllerRoutes)
  PROVE  /\ HttpLayers \in Seq(R!Layers)
         /\ \A a \in DOMAIN HttpLayers :
              LET l == HttpLayers[a] c == l.controller IN
              /\ c \in MCControllerRoutes /\ c.kind = "HTTP" /\ l.verb = c.verb /\ l.path = c.path
              /\ \E k \in 1 .. Len(R!AllMethods("HTTP")) : c = R!AllMethods("HTTP")[k]
         /\ \A a, b \in DOMAIN HttpLayers :
              a < b => R!GetPriority(HttpLayers[a].controller) >= R!GetPriority(HttpLayers[b].controller)
<1> DEFINE cs == R!AllMethods("HTTP")
           n == Len(cs)
           s == R!LayersOf(cs)
<1>1. cs \in Seq(MCControllerRoutes) /\ Falls(cs) /\ \A i \in DOMAIN cs : cs[i].kind = "HTTP"
  BY MethodsAre
<1>2. s \in Seq(R!Layers) /\ Laid(s, cs, n)
  BY <1>1, LayersAre
<1>3. HttpLayers = s
  BY DEF HttpLayers
<1> HIDE DEF s, cs
<1>4. n \in Nat /\ DOMAIN cs = 1 .. n /\ \A i \in 1 .. n : cs[i] \in MCControllerRoutes
  BY <1>1
<1>5. ASSUME NEW a \in DOMAIN s
      PROVE  LET l == s[a] c == l.controller IN
             /\ c \in MCControllerRoutes /\ c.kind = "HTTP" /\ l.verb = c.verb /\ l.path = c.path
             /\ \E k \in 1 .. n : c = cs[k]
  <2>1. PICK k \in 1 .. n : s[a].controller = cs[k] /\ s[a].verb = cs[k].verb /\ s[a].path = cs[k].path
    BY <1>1, <1>2, LaidLayer
  <2> QED
    BY <1>1, <1>4, <2>1
<1>6. ASSUME NEW a \in DOMAIN s, NEW b \in DOMAIN s, a < b
      PROVE  R!GetPriority(s[a].controller) >= R!GetPriority(s[b].controller)
  <2>1. PICK i \in 1 .. n, j \in 1 .. n : i <= j /\ s[a].controller = cs[i] /\ s[b].controller = cs[j]
    BY <1>2, <1>6 DEF Laid, InOrder
  <2>2. R!GetPriority(cs[i]) \in Int
    BY <1>4, PriorityIs
  <2>3. CASE i = j
    BY <2>1, <2>2, <2>3
  <2>4. CASE i < j
    BY <1>1, <1>4, <2>1, <2>4 DEF Falls
  <2> QED
    BY <1>4, <2>1, <2>3, <2>4
<1> QED
  BY <1>2, <1>3, <1>5, <1>6 DEF n, cs

\* Routes that are in the router already are not registered once more.
LEMMA InitRoutesOnce ==
  ASSUME R!RoutesAssumption, controllers \in Seq(MCControllerRoutes), checkRouters \in Checks,
         router \in {<<>>, HttpLayers}, R!CheckAll("HTTP", checkRouters, router).ok
  PROVE  router \o HttpLayers = HttpLayers
<1> DEFINE cs == R!AllMethods("HTTP")
           s == HttpLayers
<1>1. s \in Seq(R!Layers)
      /\ \A a \in DOMAIN s :
           LET l == s[a] c == l.controller IN
           /\ c \in MCControllerRoutes /\ c.kind = "HTTP" /\ l.verb = c.verb /\ l.path = c.path
           /\ \E k \in 1 .. Len(cs) : c = cs[k]
  BY HttpLayersAre
<1>2. \A i \in 1 .. Len(cs) : ~R!Duplicate(router, cs[i])
  <2>1. "HTTP" \in R!Kinds
    BY DEF R!Kinds
  <2> QED
    BY <2>1, CheckAllApart
<1> HIDE DEF s, cs
<1>3. <<>> \o s = s
  BY <1>1
<1>4. router = <<>> \/ router = s
  BY DEF s
<1>5. CASE s # <<>> /\ router = s
  <2>1. 1 \in DOMAIN s
    BY <1>1, <1>5
  <2>2. PICK k \in 1 .. Len(cs) :
          cs[k] \in MCControllerRoutes /\ s[1].verb = cs[k].verb /\ s[1].path = cs[k].path
    BY <1>1, <2>1
  <2>3. R!Matches(s[1].path, cs[k].path)
    BY <2>2, MatchesItself
  <2>4. s[1] \in R!Range(s)
    BY <2>1 DEF R!Range
  <2>5. R!Duplicate(router, cs[k])
    BY <1>5, <2>2, <2>3, <2>4 DEF R!Duplicate
  <2> QED
    BY <1>2, <2>5
<1> QED
  BY <1>3, <1>4, <1>5 DEF s

LEMMA InitReach == R!Init => ReachInv
<1> SUFFICES ASSUME R!Init PROVE ReachInv
  OBVIOUS
<1>1. /\ phase = "collect" /\ routes = <<>>
      /\ host = "worker" => router = <<>>
      /\ host = "egg" => router = EggLayers
      /\ rootProtos = NoRoots
  BY DEF R!Init, EggLayers, NoRoots, RouteHosts
<1>2. Apart(<<>>) /\ <<>> \in Seq(R!Layers)
  BY DEF Apart
<1> QED
  BY <1>1, <1>2 DEF ReachInv

\* What leaves the routes alone.
LEMMA OthersReach ==
  ASSUME ReachInv, UNCHANGED <<host, controllers, router, rootProtos, routes>>,
         phase' = phase \/ (host = "worker" /\ phase' = "ready")
  PROVE  ReachInv'
<1>1. HttpLayers' = HttpLayers
  BY DEF HttpLayers, R!AllMethods
<1>2. EggLayers' = EggLayers /\ NoRoots' = NoRoots
  BY DEF EggLayers, NoRoots
<1>3. Apart(routes)' = Apart(routes)
  BY DEF Apart
<1>4. R!RegisterRootProtos(NoRoots, HttpLayers)' = R!RegisterRootProtos(NoRoots, HttpLayers)
  BY <1>1, <1>2 DEF R!RegisterRootProtos
<1> QED
  BY <1>1, <1>2, <1>3, <1>4 DEF ReachInv

LEMMA CollectReach ==
  ASSUME CauseInv, ReachInv, NEW c \in MCControllerRoutes, R!Collect(c) PROVE ReachInv'
<1>1. /\ phase = "collect" /\ phase' \in {"collect", "duplicate controller"}
      /\ UNCHANGED <<host, router, rootProtos, routes>>
  BY DEF R!Collect
<1>2. host = "worker" => router = <<>>
  BY <1>1 DEF CauseInv, Collected
<1>3. EggLayers' = EggLayers /\ NoRoots' = NoRoots
  BY DEF EggLayers, NoRoots
<1>4. Apart(routes)' = Apart(routes)
  BY <1>1 DEF Apart
<1> QED
  BY <1>1, <1>2, <1>3, <1>4 DEF ReachInv

LEMMA CleanReach == ASSUME CauseInv, ReachInv, R!Clean PROVE ReachInv'
<1>1. host = "egg" /\ phase' = "closed" /\ routes' = <<>> /\ UNCHANGED host
  BY DEF R!Clean
<1>2. Apart(routes') /\ routes' \in Seq(R!Layers)
  BY <1>1 DEF Apart
<1>3. Apart(routes)' = Apart(routes')
  BY DEF Apart
<1> QED
  BY <1>1, <1>2, <1>3 DEF ReachInv

LEMMA DidLoadReach == ASSUME R!RoutesAssumption, CauseInv, ReachInv, R!DidLoad PROVE ReachInv'
<1> DEFINE http == R!CheckAll("HTTP", checkRouters, router)
           webSocket == R!CheckAll("WEBSOCKET", http.check, router)
<1>0. controllers \in Seq(MCControllerRoutes) /\ checkRouters \in Checks
      /\ "HTTP" \in R!Kinds /\ "WEBSOCKET" \in R!Kinds
  BY DEF CauseInv, RouteTypes, R!Kinds
<1>1. http \in [ok : BOOLEAN, check : Checks]
  BY <1>0, CheckAllTypes
<1>2. /\ host = "egg" /\ phase = "collect" /\ UNCHANGED <<host, controllers>>
      /\ router' = IF http.ok THEN router \o HttpLayers ELSE router
      /\ rootProtos' = IF http.ok THEN R!RegisterRootProtos(rootProtos, HttpLayers) ELSE rootProtos
      /\ IF http.ok /\ webSocket.ok
         THEN phase' = "ready" /\ routes' = R!CreateWebSocketRoutes
         ELSE phase' = "conflict" /\ UNCHANGED routes
  BY DEF R!DidLoad, R!HTTPDoRegister, HttpLayers
<1> HIDE DEF http
<1>3. webSocket.ok => R!CreateWebSocketRoutes \in Seq(R!Layers) /\ Apart(R!CreateWebSocketRoutes)
  <2>1. http.check \in Checks
    BY <1>1
  <2> QED
    BY <1>0, <2>1, WebSocketApart
<1> HIDE DEF webSocket
<1>4. routes' \in Seq(R!Layers) /\ Apart(routes')
  BY <1>2, <1>3 DEF ReachInv
<1>5. Apart(routes)' = Apart(routes')
  BY DEF Apart
<1>6. HttpLayers' = HttpLayers /\ EggLayers' = EggLayers /\ NoRoots' = NoRoots
  BY <1>2 DEF HttpLayers, R!AllMethods, EggLayers, NoRoots
<1>7. R!RegisterRootProtos(NoRoots, HttpLayers)' = R!RegisterRootProtos(NoRoots, HttpLayers)
  BY <1>6 DEF R!RegisterRootProtos
<1>8. phase' = "ready" => router' = EggLayers \o HttpLayers
                          /\ rootProtos' = R!RegisterRootProtos(NoRoots, HttpLayers)
  BY <1>2 DEF ReachInv
<1>9. host' = "egg" /\ phase' \in {"ready", "conflict"}
  BY <1>2
<1> QED
  BY <1>4, <1>5, <1>6, <1>7, <1>8, <1>9 DEF ReachInv

LEMMA InitRoutesReach ==
  ASSUME R!RoutesAssumption, CauseInv, ReachInv, NEW e \in Events, host = "worker",
         R!DoInitRoutes(e), UNCHANGED <<host, controllers, phase, routes>>
  PROVE  ReachInv'
<1> DEFINE checked == R!CheckAll("HTTP", checkRouters, router)
<1>0. controllers \in Seq(MCControllerRoutes) /\ checkRouters \in Checks /\ router \in {<<>>, HttpLayers}
  BY DEF CauseInv, RouteTypes, ReachInv
<1>1. router' = IF checked.ok THEN router \o HttpLayers ELSE router
  BY DEF R!DoInitRoutes, R!HTTPDoRegister, HttpLayers
<1>2. checked.ok => router \o HttpLayers = HttpLayers
  BY <1>0, InitRoutesOnce
<1> HIDE DEF checked
<1>3. router' \in {<<>>, HttpLayers}
  BY <1>0, <1>1, <1>2
<1>4. HttpLayers' = HttpLayers
  BY DEF HttpLayers, R!AllMethods
<1>5. Apart(routes)' = Apart(routes)
  BY DEF Apart
<1> QED
  BY <1>3, <1>4, <1>5 DEF ReachInv

LEMMA WebSocketInitReach ==
  ASSUME R!RoutesAssumption, CauseInv, ReachInv, host = "worker",
         R!WebSocketDoRegister, UNCHANGED <<host, controllers, phase, router>>
  PROVE  ReachInv'
<1> DEFINE checked == R!CheckAll("WEBSOCKET", checkRouters, router)
<1>0. controllers \in Seq(MCControllerRoutes) /\ checkRouters \in Checks
  BY DEF CauseInv, RouteTypes
<1>1. routes' = IF checked.ok THEN R!CreateWebSocketRoutes ELSE routes
  BY DEF R!WebSocketDoRegister
<1>2. checked.ok => R!CreateWebSocketRoutes \in Seq(R!Layers) /\ Apart(R!CreateWebSocketRoutes)
  BY <1>0, WebSocketApart
<1> HIDE DEF checked
<1>3. routes' \in Seq(R!Layers) /\ Apart(routes')
  BY <1>1, <1>2 DEF ReachInv
<1>4. HttpLayers' = HttpLayers
  BY DEF HttpLayers, R!AllMethods
<1>5. Apart(routes)' = Apart(routes')
  BY DEF Apart
<1> QED
  BY <1>3, <1>4, <1>5 DEF ReachInv

LEMMA NextReach == R!RoutesAssumption /\ CauseInv /\ ReachInv /\ [R!Next]_routeVars => ReachInv'
<1> SUFFICES ASSUME R!RoutesAssumption, CauseInv, ReachInv, [R!Next]_routeVars PROVE ReachInv'
  OBVIOUS
<1>1. ASSUME NEW c \in MCControllerRoutes, R!Collect(c) PROVE ReachInv'
  BY <1>1, CollectReach
<1>2. CASE R!DidLoad
  BY <1>2, DidLoadReach
<1>3. CASE R!Clean
  BY <1>3, CleanReach
<1>4. ASSUME NEW e \in Events, R!FetchEvent(e) PROVE ReachInv'
  <2>1. host = "worker" /\ UNCHANGED <<host, controllers, phase, routes>>
    BY <1>4 DEF R!FetchEvent
  <2>2. CASE R!DoInitRoutes(e)
    BY <2>1, <2>2, InitRoutesReach
  <2>3. CASE UNCHANGED <<router, rootProtos>>
    BY <2>1, <2>3, OthersReach
  <2> QED
    BY <1>4, <2>2, <2>3 DEF R!FetchEvent, R!InitRoutes
<1>5. ASSUME NEW e \in Events, NEW q \in MCRequests, R!WebSocketEvent(e, q) PROVE ReachInv'
  <2>1. host = "worker" /\ UNCHANGED <<host, controllers, phase, router>>
    BY <1>5 DEF R!WebSocketEvent
  <2>2. CASE R!WebSocketDoRegister
    BY <2>1, <2>2, WebSocketInitReach
  <2>3. CASE UNCHANGED <<routes, rootProtos>>
    BY <2>1, <2>3, OthersReach
  <2> QED
    BY <1>5, <2>2, <2>3 DEF R!WebSocketEvent
<1>6. CASE UNCHANGED <<host, controllers, router, rootProtos, routes>>
           /\ (phase' = phase \/ (host = "worker" /\ phase' = "ready"))
  BY <1>6, OthersReach
<1>7. CASE R!Loaded \/ R!Listen \/ R!McpRegistered \/ R!McpFails \/ UNCHANGED routeVars
  BY <1>6, <1>7 DEF R!Loaded, R!Listen, R!McpRegistered, R!McpFails, routeVars
<1>8. ASSUME NEW e \in Events,
             R!Unclaimed(e) \/ \E q \in MCRequests : R!HandleFetch(e, q) \/ R!Upgrade(e, q)
      PROVE  ReachInv'
  BY <1>6, <1>8 DEF R!HandleFetch, R!Upgrade, R!Unclaimed
<1> QED
  BY <1>1, <1>2, <1>3, <1>4, <1>5, <1>7, <1>8 DEF R!Next

LEMMA VerbsHave == \A l \in R!Layers : l.verb \in R!Verbs
<1>1. R!Layers = {R!Layer(d, g) : d \in MCControllerRoutes, g \in RouteHosts}
  BY DEF R!Layers, RouteHosts
<1>2. \A c \in MCControllerRoutes : c.verb \in R!Verbs
  BY DEF R!Verbs
<1> QED
  BY <1>1, <1>2, LayerIs

LEMMA WebSocketReached == R!RoutesAssumption /\ ReachInv => R!WebSocketRoutesAreReachable
<1> SUFFICES ASSUME R!RoutesAssumption, ReachInv, NEW r \in R!Range(routes)
             PROVE  LET at == IF r.host = "" THEN "other" ELSE r.host
                        hit == R!MatchWebSocketRoute([verb |-> "GET", path |-> r.path, host |-> at]) IN
                    hit # R!NotFound /\ (hit = r \/ hit.host # r.host)
  BY DEF R!WebSocketRoutesAreReachable
<1> DEFINE at == IF r.host = "" THEN "other" ELSE r.host
           q == [verb |-> "GET", path |-> r.path, host |-> at]
           hosts == {"", at}
           hit == R!MatchWebSocketRoute(q)
           hits == Hits(routes, R!Verbs, q, hosts)
<1>1. routes \in Seq(R!Layers) /\ Apart(routes)
  BY DEF ReachInv
<1>2. q.path = r.path /\ q.host = at /\ r.host \in hosts
  OBVIOUS
<1>3. hit = R!FirstOf(routes, R!Verbs, q, hosts)
  BY <1>2 DEF R!MatchWebSocketRoute
<1> HIDE DEF at, q, hosts, hit
<1>4. PICK k \in DOMAIN routes : routes[k] = r
  BY DEF R!Range
<1>5. r \in R!Layers /\ \A i \in DOMAIN routes : routes[i] \in R!Layers
  BY <1>1, <1>4
<1>6. R!Matches(r.path, r.path)
  <2>1. R!Layers = {R!Layer(d, g) : d \in MCControllerRoutes, g \in RouteHosts}
    BY DEF R!Layers, RouteHosts
  <2>2. PICK d \in MCControllerRoutes : r.path = d.path
    BY <1>5, <2>1, LayerIs
  <2> QED
    BY <2>2, MatchesItself
<1>7. k \in hits
  BY <1>2, <1>4, <1>5, <1>6, VerbsHave DEF Hits
<1>8. PICK i \in hits : hit = routes[i] /\ \A j \in hits : i <= j
  BY <1>1, <1>3, <1>7, FirstIs
<1>9. i \in DOMAIN routes /\ i <= k /\ R!Matches(hit.path, r.path)
  BY <1>2, <1>7, <1>8 DEF Hits
<1>10. hit # R!NotFound
  BY <1>5, <1>8, <1>9, LayerIs
<1>11. i = k => hit = r
  BY <1>4, <1>8
<1>12. i < k => hit.host # r.host
  BY <1>1, <1>4, <1>8, <1>9 DEF Apart
<1>13. i = k \/ i < k
  <2>1. i \in Nat /\ k \in Nat
    BY <1>1, <1>9
  <2> QED
    BY <1>9, <2>1
<1>14. hit # R!NotFound /\ (hit = r \/ hit.host # r.host)
  BY <1>10, <1>11, <1>12, <1>13
<1> QED
  BY <1>14 DEF hit, q, at

\* A router: some layers of egg, and then those of HTTP.
Routed(m) ==
  /\ m \in Nat /\ router \in Seq(R!Layers \cup R!Range(EggLayers))
  /\ \A i \in DOMAIN router : i <= m => router[i].controller.kind = "egg"
  /\ \A i \in DOMAIN router : i > m => i - m \in DOMAIN HttpLayers /\ router[i] = HttpLayers[i - m]
  /\ host = "egg" => \A i \in DOMAIN HttpLayers : i + m \in DOMAIN router

LEMMA RouterIs ==
  ASSUME R!RoutesAssumption, CauseInv, ReachInv, host = "worker" \/ phase = "ready"
  PROVE  \E m : Routed(m)
<1> DEFINE s == HttpLayers
           D == R!Layers \cup R!Range(EggLayers)
<1>1. s \in Seq(R!Layers)
  BY HttpLayersAre DEF CauseInv, RouteTypes
<1> HIDE DEF s
<1>2. s \in Seq(D)
  BY <1>1
<1>3. CASE host = "worker"
  <2>1. router \in {<<>>, s}
    BY <1>3 DEF ReachInv, s
  <2>2. router \in Seq(D)
    <3>1. <<>> \in Seq(D)
      OBVIOUS
    <3> HIDE DEF D
    <3> QED
      BY <1>2, <2>1, <3>1
  <2>3. \A i \in DOMAIN router : i \in Nat /\ i > 0 /\ i - 0 = i /\ i \in DOMAIN s /\ router[i] = s[i]
    BY <1>1, <2>1
  <2>4. \A i \in DOMAIN router : ~(i <= 0)
    BY <2>3
  <2>5. Routed(0)
    BY <1>3, <2>2, <2>3, <2>4 DEF Routed, s
  <2> QED
    BY <2>5
<1>4. CASE host = "egg" /\ phase = "ready"
  <2> DEFINE e == EggLayers
             m == Len(e)
  <2>1. router = e \o s
    BY <1>4 DEF ReachInv, s
  <2>2. e = <<R!EggLayer([verb |-> "GET", path |-> <<"egg">>])>>
    BY DEF EggLayers, MCEggRoutes
  <2>3. e \in Seq(R!Range(e)) /\ m \in Nat /\ DOMAIN e = 1 .. m
    BY <2>2 DEF R!Range
  <2>4. \A i \in 1 .. m : e[i].controller.kind = "egg"
    <3> DEFINE x == R!EggLayer([verb |-> "GET", path |-> <<"egg">>])
    <3>1. x.controller.kind = "egg"
      BY DEF R!EggLayer
    <3> HIDE DEF x, e
    <3>2. e = <<x>>
      BY <2>2 DEF x
    <3>3. m = 1 /\ e[1] = x
      BY <3>2
    <3> QED
      BY <3>1, <3>3
  <2>5. e \in Seq(D)
    BY <2>3
  <2> HIDE DEF e, m, D
  <2>6. /\ router \in Seq(D) /\ DOMAIN router = 1 .. m + Len(s) /\ Len(s) \in Nat /\ DOMAIN s = 1 .. Len(s)
        /\ \A i \in 1 .. m + Len(s) : router[i] = IF i <= m THEN e[i] ELSE s[i - m]
    BY <1>1, <1>2, <2>1, <2>5, ConcatProperties DEF m
  <2>7. \A i \in DOMAIN router : i <= m => router[i].controller.kind = "egg"
    BY <2>3, <2>4, <2>6
  <2>8. \A i \in DOMAIN router : i > m => i - m \in DOMAIN s /\ router[i] = s[i - m]
    BY <2>3, <2>6
  <2>9. \A i \in DOMAIN s : i + m \in DOMAIN router
    BY <2>3, <2>6
  <2>10. Routed(m)
    BY <2>3, <2>6, <2>7, <2>8, <2>9 DEF Routed, s, D
  <2> QED
    BY <2>10
<1> QED
  BY <1>3, <1>4 DEF CauseInv, RouteTypes

\* A path of one segment that is a parameter is below every literal path.
LEMMA ParametersAreBelow ==
  ASSUME R!RoutesAssumption, NEW c \in MCControllerRoutes, ":" \in R!Range(c.path)
  PROVE  R!CalcPathPriority(c.path) \in Nat /\ R!CalcPathPriority(c.path) < 100000
<1>1. c.path \in Seq(R!Range(c.path))
  BY DEF R!RoutesAssumption
<1>2. Len(c.path) = 1
  BY DEF MCControllerRoutes, Controller
<1>3. Len(c.path) <= 10
  BY <1>2
<1> QED
  BY <1>1, <1>3, PathPriority

LEMMA LiteralFirst == R!RoutesAssumption /\ CauseInv /\ ReachInv => R!LiteralIsServedFirst
<1> SUFFICES ASSUME R!RoutesAssumption, CauseInv, ReachInv,
                    fetchInit # "none" \/ (host = "egg" /\ phase = "ready"), NEW q \in MCRequests,
                    R!Serve(q) # R!NotFound, R!Serve(q).controller.kind # "egg",
                    R!Serve(q).controller.priority = 0, NEW l \in R!Range(router),
                    l.verb = q.verb, l.path = q.path, l.host = R!Serve(q).host
             PROVE  R!Serve(q).path = q.path \/ (l.controller.kind = "HTTP" /\ l.controller.priority # 0)
  BY DEF R!LiteralIsServedFirst
<1> DEFINE hit == R!Serve(q)
           hosts == {"", q.host}
           hits == Hits(router, {q.verb}, q, hosts)
<1>1. host = "worker" \/ phase = "ready"
  BY DEF CauseInv, RouteTypes, EggEvents
<1>2. PICK m : Routed(m)
  BY <1>1, RouterIs
<1>3. router \in Seq(R!Layers \cup R!Range(EggLayers)) /\ m \in Nat
  BY <1>2 DEF Routed
<1>4. hit = R!FirstOf(router, {q.verb}, q, hosts)
  BY DEF R!Serve
<1>5. hit # R!NotFound /\ hit.controller.kind # "egg" /\ hit.controller.priority = 0 /\ l.host = hit.host
  OBVIOUS
<1> HIDE DEF hit, hosts
<1>6. PICK i \in hits : hit = router[i] /\ \A j \in hits : i <= j
  BY <1>3, <1>4, <1>5, FirstIs
<1>7. PICK k \in DOMAIN router : router[k] = l
  BY DEF R!Range
<1>8. i \in DOMAIN router /\ i \in Nat /\ k \in Nat /\ hit.host \in hosts /\ R!Matches(hit.path, q.path)
  BY <1>3, <1>6, <1>7 DEF Hits
<1>9. q.path \in Seq(R!Range(q.path)) /\ ":" \notin R!Range(q.path)
  BY DEF R!RoutesAssumption
<1>10. k \in hits
  <2>1. R!Matches(l.path, q.path)
    BY DEF R!Matches
  <2> QED
    BY <1>5, <1>7, <1>8, <2>1 DEF Hits
<1>11. i <= k
  BY <1>6, <1>10
<1>12. CASE i = k
  BY <1>6, <1>7, <1>12 DEF hit
<1>13. CASE i < k
  <2> DEFINE c == hit.controller
             d == l.controller
             s == HttpLayers
  <2>1. i > m /\ k > m
    BY <1>2, <1>3, <1>5, <1>6, <1>8, <1>13 DEF Routed
  <2>2. /\ i - m \in DOMAIN s /\ hit = s[i - m] /\ k - m \in DOMAIN s /\ l = s[k - m]
        /\ i - m < k - m
    BY <1>2, <1>3, <1>6, <1>7, <1>8, <1>13, <2>1 DEF Routed
  <2>3. controllers \in Seq(MCControllerRoutes)
    BY DEF CauseInv, RouteTypes
  <2>4. R!GetPriority(c) >= R!GetPriority(d)
    BY <2>2, <2>3, HttpLayersAre
  <2>5. /\ c \in MCControllerRoutes /\ hit.path = c.path
        /\ d \in MCControllerRoutes /\ l.path = d.path /\ d.kind = "HTTP"
    BY <2>2, <2>3, HttpLayersAre
  <2>6. c.priority = 0
    BY <1>5
  <2> HIDE DEF c, d
  <2> SUFFICES ASSUME c.path # q.path, d.priority = 0 PROVE FALSE
    BY <2>5 DEF hit, c, d
  <2>7. ":" \in R!Range(c.path)
    <3>1. c.path \in Seq(R!Range(c.path))
      BY <2>5 DEF R!RoutesAssumption
    <3>2. Len(c.path) = Len(q.path) /\ \A j \in DOMAIN q.path : c.path[j] \in {":", q.path[j]}
      BY <1>8, <2>5 DEF R!Matches
    <3>3. \E j \in DOMAIN q.path : c.path[j] # q.path[j]
      BY <1>9, <3>1, <3>2
    <3>4. DOMAIN q.path = DOMAIN c.path
      BY <1>9, <3>1, <3>2
    <3> QED
      BY <3>2, <3>3, <3>4 DEF R!Range
  <2>8. R!CalcPathPriority(c.path) < 100000 /\ R!CalcPathPriority(c.path) \in Nat
    BY <2>5, <2>7, ParametersAreBelow
  <2>9. R!CalcPathPriority(d.path) = 100000
    BY <1>9, <2>5, PathPriority
  <2>10. R!GetPriority(c) = R!CalcPathPriority(c.path) /\ R!GetPriority(d) = R!CalcPathPriority(d.path)
    BY <2>6 DEF R!GetPriority
  <2> QED
    BY <2>4, <2>8, <2>9, <2>10
<1> QED
  BY <1>8, <1>11, <1>12, <1>13

\* What the manager of prototypes has at one host for a request.
RootAt(q, h) ==
  IF <<q.verb, h>> \in DOMAIN rootProtos
  THEN R!FirstOf(rootProtos[<<q.verb, h>>], {q.verb}, q, {h}) ELSE R!NotFound

\* What of the layers it has there.
LEMMA RootsAre ==
  ASSUME NEW s \in Seq(R!Layers), rootProtos = R!RegisterRootProtos(NoRoots, s),
         NEW v \in R!Verbs, NEW h \in RouteHosts
  PROVE  rootProtos[<<v, h>>] = R!Within(s, {l \in R!Layers : l.verb = v /\ l.host = h})
<1> DEFINE at == <<v, h>>
           T(a) == {l \in R!Layers : l.verb = a[1] /\ l.host = a[2]}
           t == R!Within(s, T(at))
<1>1. DOMAIN NoRoots = R!Verbs \X RouteHosts /\ at \in DOMAIN NoRoots /\ NoRoots[at] = <<>>
  BY DEF NoRoots
<1>2. rootProtos = [a \in DOMAIN NoRoots |-> NoRoots[a] \o R!Within(s, T(a))]
  BY DEF R!RegisterRootProtos
<1>3. T(at) = {l \in R!Layers : l.verb = v /\ l.host = h}
  OBVIOUS
<1> HIDE DEF at, T
<1>4. t \in Seq(R!Layers)
  BY WithinPicks
<1> HIDE DEF t
<1>5. rootProtos[at] = <<>> \o t
  BY <1>1, <1>2 DEF t
<1>6. <<>> \o t = t
  BY <1>4
<1> QED
  BY <1>3, <1>5, <1>6 DEF t, at

LEMMA RootOfHost ==
  ASSUME NEW s \in Seq(R!Layers), rootProtos = R!RegisterRootProtos(NoRoots, s),
         NEW q, NEW h, RootAt(q, h) # R!NotFound
  PROVE  RootAt(q, h).host = h
<1> DEFINE t == rootProtos[<<q.verb, h>>]
           T == {l \in R!Layers : l.verb = q.verb /\ l.host = h}
<1>1. q.verb \in R!Verbs /\ h \in RouteHosts
  BY DEF RootAt, R!RegisterRootProtos, NoRoots
<1>2. t = R!Within(s, T)
  BY <1>1, RootsAre
<1>3. t \in Seq(R!Layers)
  BY <1>2, WithinPicks
<1>4. RootAt(q, h) = R!FirstOf(t, {q.verb}, q, {h})
  BY DEF RootAt
<1> HIDE DEF t
<1>5. PICK i \in Hits(t, {q.verb}, q, {h}) : RootAt(q, h) = t[i]
  BY <1>3, <1>4, FirstIs
<1> QED
  BY <1>5 DEF Hits

\* The first of the layers that a request gets to at a host.
LEMMA RootIsFirst ==
  ASSUME NEW s \in Seq(R!Layers), rootProtos = R!RegisterRootProtos(NoRoots, s),
         NEW q, NEW h \in RouteHosts, NEW i \in Hits(s, {q.verb}, q, {h}),
         \A j \in Hits(s, {q.verb}, q, {h}) : i <= j
  PROVE  RootAt(q, h) = s[i]
<1> DEFINE t == rootProtos[<<q.verb, h>>]
           T == {l \in R!Layers : l.verb = q.verb /\ l.host = h}
           found == Hits(s, {q.verb}, q, {h})
           hits == Hits(t, {q.verb}, q, {h})
<1>1. i \in DOMAIN s /\ s[i] \in R!Layers /\ s[i].verb = q.verb /\ s[i].host = h /\ DOMAIN s = 1 .. Len(s)
      /\ i \in found /\ \A j \in found : i <= j
  BY DEF Hits
<1>2. q.verb \in R!Verbs
  BY <1>1, VerbsHave
<1>3. t = R!Within(s, T)
  BY <1>2, RootsAre
<1>4. <<q.verb, h>> \in DOMAIN rootProtos
  BY <1>2 DEF R!RegisterRootProtos, NoRoots
<1>5. RootAt(q, h) = R!FirstOf(t, {q.verb}, q, {h})
  BY <1>4 DEF RootAt
<1>6. t \in Seq(R!Layers) /\ Picked(t, s, Len(s), T)
  BY <1>3, WithinPicks
<1>7. PICK pos : PlacedBy(pos, t, s, Len(s), T)
  BY <1>6 DEF Picked
<1>8. s[i] \in T
  BY <1>1
<1> HIDE DEF t, T
<1>9. PICK k \in DOMAIN t : pos[k] = i
  BY <1>1, <1>7, <1>8 DEF PlacedBy
<1>10. \A j \in DOMAIN t : t[j] = s[pos[j]] /\ pos[j] \in DOMAIN s
  BY <1>1, <1>7 DEF PlacedBy
<1>11. \A j \in hits : j \in DOMAIN t /\ pos[j] \in found
  BY <1>10 DEF Hits
<1>12. k \in hits
  BY <1>1, <1>9, <1>10 DEF Hits
<1> HIDE DEF found
<1>13. PICK n \in hits : RootAt(q, h) = t[n] /\ \A j \in hits : n <= j
  BY <1>5, <1>6, <1>12, FirstIs
<1>14. n \in DOMAIN t /\ n <= k /\ i <= pos[n] /\ pos[n] \in Nat /\ n \in Nat /\ k \in Nat /\ i \in Nat
  <2>1. n \in DOMAIN t /\ pos[n] \in found
    BY <1>11, <1>13
  <2>2. n <= k
    BY <1>12, <1>13
  <2>3. i <= pos[n]
    BY <1>1, <2>1
  <2>4. pos[n] \in DOMAIN s
    BY <1>10, <2>1
  <2>5. \A j \in DOMAIN s : j \in Nat
    BY <1>1
  <2>6. \A j \in DOMAIN t : j \in Nat
    BY <1>6
  <2> HIDE DEF hits
  <2> QED
    BY <1>1, <1>9, <2>1, <2>2, <2>3, <2>4, <2>5, <2>6
<1>15. ~(n < k)
  <2>1. n < k => pos[n] < i
    BY <1>7, <1>9, <1>14 DEF PlacedBy
  <2> QED
    BY <1>14, <2>1
<1>16. n = k
  BY <1>14, <1>15
<1> QED
  BY <1>9, <1>10, <1>13, <1>16

LEMMA RootServed == R!RoutesAssumption /\ CauseInv /\ ReachInv => R!RootProtoIsServed
<1> SUFFICES ASSUME R!RoutesAssumption, CauseInv, ReachInv, host = "egg", phase = "ready",
                    NEW q \in MCRequests,
                    R!Serve(q) # R!NotFound, R!Serve(q).controller.kind = "HTTP"
             PROVE  /\ R!GetRootProto(q) # R!NotFound
                    /\ \/ R!GetRootProto(q) = R!Serve(q)
                       \/ R!Serve(q).host = "" /\ R!GetRootProto(q).host = q.host
  BY DEF R!RootProtoIsServed
<1> DEFINE hit == R!Serve(q)
           s == HttpLayers
           hosts == {"", q.host}
           hits == Hits(router, {q.verb}, q, hosts)
<1>1. PICK m : Routed(m)
  BY RouterIs
<1>2. router \in Seq(R!Layers \cup R!Range(EggLayers)) /\ m \in Nat
  BY <1>1 DEF Routed
<1>3. s \in Seq(R!Layers) /\ rootProtos = R!RegisterRootProtos(NoRoots, s)
  BY HttpLayersAre DEF CauseInv, RouteTypes, ReachInv
<1>4. hit = R!FirstOf(router, {q.verb}, q, hosts)
  BY DEF R!Serve
<1>5. hit # R!NotFound /\ hit.controller.kind = "HTTP"
  OBVIOUS
<1>6. R!GetRootProto(q) = IF RootAt(q, q.host) # R!NotFound THEN RootAt(q, q.host) ELSE RootAt(q, "")
  BY DEF R!GetRootProto, RootAt
<1>0. q.host \in hosts /\ \A h \in hosts : h = q.host \/ h = ""
  OBVIOUS
<1> HIDE DEF hit, hosts, s
<1>7. PICK n \in hits : hit = router[n] /\ \A j \in hits : n <= j
  BY <1>2, <1>4, <1>5, FirstIs
<1>8. n \in DOMAIN router /\ n \in Nat /\ hit.verb = q.verb /\ hit.host \in hosts /\ R!Matches(hit.path, q.path)
  BY <1>2, <1>7 DEF Hits
<1>9. n > m
  <2>1. ~(n <= m)
    BY <1>1, <1>5, <1>7, <1>8 DEF Routed
  <2> QED
    BY <1>2, <1>8, <2>1
<1>10. n - m \in DOMAIN s /\ hit = s[n - m] /\ s[n - m] \in R!Layers
  <2>1. n - m \in DOMAIN s /\ hit = s[n - m]
    BY <1>1, <1>7, <1>8, <1>9 DEF Routed, s
  <2> QED
    BY <1>3, <2>1
<1>11. n - m \in Hits(s, {q.verb}, q, {hit.host})
  BY <1>8, <1>10 DEF Hits
<1>12. ASSUME NEW j \in Hits(s, {q.verb}, q, {hit.host}) PROVE n - m <= j
  <2>1. /\ j \in DOMAIN s /\ j \in Nat /\ j > 0 /\ s[j].verb = q.verb /\ s[j].host = hit.host
        /\ R!Matches(s[j].path, q.path)
    <3>1. \A k \in DOMAIN s : k \in Nat /\ k > 0
      BY <1>3
    <3> QED
      BY <3>1 DEF Hits
  <2>2. j + m \in DOMAIN router
    BY <1>1, <2>1 DEF Routed, s
  <2>3. j + m > m /\ (j + m) - m = j
    BY <1>2, <2>1
  <2>4. router[j + m] = s[j]
    BY <1>1, <2>2, <2>3 DEF Routed, s
  <2>5. j + m \in hits
    BY <1>8, <2>1, <2>2, <2>4 DEF Hits
  <2>6. n <= j + m
    BY <1>7, <2>5
  <2> QED
    BY <1>2, <1>8, <2>1, <2>6
<1>13. hit.host \in RouteHosts /\ hit # R!NotFound
  <2>1. R!Layers = {R!Layer(d, g) : d \in MCControllerRoutes, g \in RouteHosts}
    BY DEF R!Layers, RouteHosts
  <2> QED
    BY <1>5, <1>10, <2>1, LayerIs
<1>14. RootAt(q, hit.host) = hit
  BY <1>3, <1>10, <1>11, <1>12, <1>13, RootIsFirst
<1>15. hit.host = q.host \/ hit.host = ""
  BY <1>0, <1>8
<1>16. RootAt(q, q.host) # R!NotFound => RootAt(q, q.host).host = q.host
  BY <1>3, RootOfHost
<1> QED
  BY <1>6, <1>13, <1>14, <1>15, <1>16 DEF hit

-----------------------------------------------------------------------------
\* A handler that is built is called with every argument its decorators bind, and with
\* what its event brings, for any methods and declarations of a class and of the one
\* it extends (checkParamDecorators, isAllowedParamType, buildMethodArgs).
THEOREM HandlersHold == MCSpec => []HandlersGetWhatTheyBind
<1>1. MCInit => MetaInv
  BY InitMeta DEF MCInit
<1>2. MetaInv /\ [MCNext]_partVars => MetaInv'
  <2>1. [MCNext]_partVars => [Next]_vars
    BY DEF MCNext, partVars
  <2> QED BY <2>1, NextMeta
<1> QED BY <1>1, <1>2, MetaHolds, PTL DEF MCSpec

\* For any middlewares, advices and hosts of a method, on either host: the method runs
\* only for a host it has, inside every middleware and advice of its class and its own,
\* each entered once in its layer and in its order, after the middlewares of the layers of
\* the hosts before it; and the response has what the method returned only when it
\* returned in time and its advices let it through (register of both HTTPMethodRegisters,
\* createHandler, TimerUtil.timeout).
THEOREM AnswersHold == MCSpec => []AnswersOnce
<1>1. H!HttpAssumption
  BY InstancesAssumption
<1>2. MCInit => RequestInv
  BY <1>1, InitRequest DEF MCInit
<1>3. RequestInv /\ [MCNext]_partVars => RequestInv'
  <2>1. [MCNext]_partVars => [H!Next]_httpVars
    BY DEF MCNext, partVars
  <2> QED BY <1>1, <2>1, NextRequest
<1>4. RequestInv => AnswersOnce
  BY <1>1, RequestHolds
<1> QED BY <1>2, <1>3, <1>4, PTL DEF MCSpec

\* A session has every method of every controller of its server, or throws for a name that
\* two of them took, a call has the arguments where the method asks for them, and neither
\* csrf nor the body parser gets at a server's paths, for any assignment of decorators
\* that gives a parameter one thing (MCPControllerRegister, MCPServerHelper, MCPConfig).
THEOREM SessionsServe == MCSpec => []SessionServesItsServer
<1>1. MS!McpServerAssumption
  BY InstancesAssumption
<1>2. MCInit => McpInv
  <2>1. MCInit => ignore \in {"none", "list"} /\ MS!Init
    BY DEF MCInit, MS!Init
  <2> QED
    BY <2>1, InitMcp
<1>3. McpInv /\ [MCNext]_partVars => McpInv'
  <2>1. [MCNext]_partVars => [MS!Next]_mcpVars
    BY DEF MCNext, partVars
  <2> QED
    BY <2>1, NextMcp
<1>4. McpInv => SessionServesItsServer
  BY <1>1, McpHolds
<1> QED BY <1>2, <1>3, <1>4, PTL DEF MCSpec

\* A service worker refuses an event only when a registration failed, or two routes of one
\* kind clash whatever came before: no event that comes while routes are initialised, and
\* no try again, is taken for a conflict with the first, for any controllers
\* (FetchEventHandler.initRoutes, WebSocketEventHandler, checkDuplicate).
THEOREM EventsFail == MCSpec => []EventsFailForACause
<1>1. R!RoutesAssumption
  BY InstancesAssumption
<1>2. MCInit => CauseInv
  BY InitCause DEF MCInit
<1>3. CauseInv /\ [MCNext]_partVars => CauseInv'
  <2>1. [MCNext]_partVars => [R!Next]_routeVars
    BY DEF MCNext, partVars
  <2> QED
    BY <1>1, <2>1, NextCause
<1>4. CauseInv => EventsFailForACause
  BY CauseHolds
<1> QED BY <1>2, <1>3, <1>4, PTL DEF MCSpec

\* A WebSocket route that passed the check is reached by its own path at its host, a literal
\* path is served before a parameter, and what is served is what the request was set up for,
\* however many registrations failed before, for any controllers of one segment, hosts and
\* priorities of their own (checkDuplicate, doRegister, RootProtoManager.getRootProto).
THEOREM RoutesReached == MCSpec => []RoutesAreReached
<1>1. R!RoutesAssumption
  BY InstancesAssumption
<1>2. MCInit => CauseInv /\ ReachInv
  BY InitCause, InitReach DEF MCInit
<1>3. CauseInv /\ ReachInv /\ [MCNext]_partVars => CauseInv' /\ ReachInv'
  <2>1. [MCNext]_partVars => [R!Next]_routeVars
    BY DEF MCNext, partVars
  <2> QED
    BY <1>1, <2>1, NextCause, NextReach
<1>4. CauseInv /\ ReachInv => RoutesAreReached
  BY <1>1, WebSocketReached, LiteralFirst, RootServed DEF RoutesAreReached
<1> QED BY <1>2, <1>3, <1>4, PTL DEF MCSpec
=============================================================================
