--------------------------------- MODULE Orm ---------------------------------
(***************************************************************************)
(* The orm plugin: one realm (a leoric client) for each database.  The     *)
(* models are noted while their prototypes are made, registered with the   *)
(* realms of their data sources once the modules are ready, and the realms *)
(* connected then.  The Orm object gives realms to anyone who asks, at any *)
(* time, and makes those that are not there (LeoricRegister, Orm).         *)
(***************************************************************************)
EXTENDS Naturals, FiniteSets, SequencesExt

CONSTANTS
  Models,
  Lists,        \* the databases config.orm.datasources may list; if none, Single
  Single,       \* the database of the default config
  MaxRealms,    \* bound: realms made for those who ask
  None

OrmAssumption ==
  None \notin (UNION Lists) \cup {Single} /\ MaxRealms \in Nat

VARIABLES
  listed,       \* the databases that are listed
  database,     \* of a model: the data source it names, or None
  stage,        \* "loading", "connecting", "ready" or "failed"
  protos,       \* ModelProtoManager.protos
  made,         \* how many realms were made; a realm is its number
  realmMap,     \* of a database: its realm, or 0
  connecting,   \* the realms whose connect was called
  connected,
  realmOf,      \* of a model: the realm it was registered with, or 0
  given         \* <<database, realm>> that Orm gave out

config == <<listed, database>>
vars == <<config, stage, protos, made, realmMap, connecting, connected, realmOf, given>>

Configs == IF listed = {} THEN {Single} ELSE listed
Databases == (UNION Lists) \cup {Single}

Init ==
  /\ listed \in Lists /\ database \in [Models -> Databases \cup {None}]
  /\ stage = "loading" /\ protos = <<>> /\ made = 0
  /\ realmMap = [d \in Databases |-> 0]
  /\ connecting = {} /\ connected = {}
  /\ realmOf = [m \in Models |-> 0] /\ given = {}

\* The config of a name, or None: without a name the default one, which is not
\* there when the data sources are listed.
GetConfig(d) ==
  IF d = None THEN IF listed = {} THEN Single ELSE None
  ELSE IF d \in Configs THEN d ELSE None

\* The realms, and how many were made, once d has one.
GetOrCreate(realms, n, d) ==
  IF realms[d] # 0 THEN [realms |-> realms, made |-> n]
  ELSE [realms |-> [realms EXCEPT ![d] = n + 1], made |-> n + 1]

AddProto(m) ==
  /\ stage = "loading" /\ ~Contains(protos, m)
  /\ protos' = Append(protos, m)
  /\ UNCHANGED <<config, stage, made, realmMap, connecting, connected, realmOf, given>>

\* Orm.getClient: of a name that is not configured it throws.
GetClient(d) ==
  /\ GetConfig(d) # None
  /\ LET got == GetOrCreate(realmMap, made, GetConfig(d)) IN
       /\ got.made <= MaxRealms
       /\ realmMap' = got.realms /\ made' = got.made
       /\ given' = given \cup {<<d, got.realms[d]>>}
  /\ UNCHANGED <<config, stage, protos, connecting, connected, realmOf>>

\* Orm.client: the realm of the default config, if it was made.
Client ==
  /\ GetConfig(None) # None /\ realmMap[Single] # 0
  /\ given' = given \cup {<<Single, realmMap[Single]>>}
  /\ UNCHANGED <<config, stage, protos, made, realmMap, connecting, connected, realmOf>>

\* What the models are registered with, in the order of their prototypes; ok
\* unless one has a config that is not there, and then those before it.
Registered ==
  LET of(i) == GetConfig(database[protos[i]])
      named == {i \in DOMAIN protos : \A j \in 1 .. i : of(j) # None}
      firsts == {i \in named : realmMap[of(i)] = 0 /\ \A j \in 1 .. i - 1 : of(j) # of(i)}
      number(i) == made + Cardinality({j \in firsts : j <= i})
      realms == [d \in Databases |->
                   IF \E i \in firsts : of(i) = d THEN number(CHOOSE i \in firsts : of(i) = d)
                   ELSE realmMap[d]] IN
  [ok |-> named = DOMAIN protos, realms |-> realms, made |-> made + Cardinality(firsts),
   of |-> [m \in Models |-> IF \E i \in named : protos[i] = m
                            THEN realms[GetConfig(database[m])] ELSE realmOf[m]]]

\* The modules are ready: the models are registered, and every realm connects.
Register ==
  /\ stage = "loading" /\ \A m \in Models : Contains(protos, m)
  /\ LET done == Registered IN
       /\ realmMap' = done.realms /\ made' = done.made /\ realmOf' = done.of
       /\ connecting' = IF done.ok THEN {done.realms[d] : d \in Databases} \ {0} ELSE {}
       /\ stage' = IF ~done.ok THEN "failed"
                   ELSE IF connecting' = {} THEN "ready" ELSE "connecting"
  /\ UNCHANGED <<config, protos, connected, given>>

\* A realm answers; the last one makes the register ready, a failure the boot fail.
Connected(r) ==
  /\ stage = "connecting" /\ r \in connecting \ connected
  /\ \/ connected' = connected \cup {r}
        /\ stage' = IF connecting \subseteq connected' THEN "ready" ELSE stage
     \/ stage' = "failed" /\ UNCHANGED connected
  /\ UNCHANGED <<config, protos, made, realmMap, connecting, realmOf, given>>

Next ==
  \/ \E m \in Models : AddProto(m)
  \/ \E d \in Databases : GetClient(d)
  \/ Client \/ Register
  \/ \E r \in 1..MaxRealms + Cardinality(Databases) : Connected(r)

Spec == Init /\ [][Next]_vars

-----------------------------------------------------------------------------
(* Properties *)

\* Whoever asks for a database, before the models were registered or after, has the
\* realm its models are in, and once the application is ready that one is connected
\* (getOrCreateRealm is called from both sides).
OneRealmForADatabase ==
  /\ \A a, b \in given : a[1] = b[1] => a[2] = b[2]
  /\ stage \in {"connecting", "ready"} => \A m \in Models :
       LET d == GetConfig(database[m]) IN
       /\ realmOf[m] = realmMap[d]
       /\ \A a \in given : a[1] = d => a[2] = realmOf[m]
       /\ stage = "ready" => realmOf[m] \in connected

\* A client that Orm gives once the application is ready is connected.
ClientsAreConnected ==
  stage = "ready" => \A a \in given : a[2] \in connected
=============================================================================
