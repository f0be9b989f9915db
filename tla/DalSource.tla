----------------------------- MODULE DalSource -----------------------------
(* The dal plugin: the data sources of the modules' configurations          *)
(* (MysqlDataSourceManager), their connection with its retries              *)
(* (MysqlDataSource), the table models and statements kept for each module, *)
(* the delegates DAOs are injected with (DataSourceDelegate), and the data  *)
(* source of a transactional method (TransactionPrototypeHook).             *)
EXTENDS Naturals, FiniteSets

CONSTANTS
  Modules,      \* the modules: [sources, tables, transactions] by module name; a source
                \* is [told, rest]: what its key tells of its configuration, and the rest
  Default,      \* the data source name of a table that gives none
  None,         \* nothing is given, or nothing is found
  RetryTimes,   \* initRetryTimes, 3 when the configuration gives none
  MaxFaults,    \* bound: connections that fail
  MaxBoots      \* bound: boots of the application in one process

VARIABLES
  clients,      \* the process's data sources: key -> its configuration, and its state,
                \* "connecting", "ready" or "failed"
  tries,        \* key -> tries of its connection
  indices,      \* module and source name -> key
  stores,       \* modules whose table models and statements are kept
  phase,        \* module -> "off", "wired", "hook", "protos", "up" or "failed"
  delegates,    \* module and source name and table -> key: the delegates created
  advices,      \* module and method -> source name: what its transactions run on
  faults, boots

vars == <<clients, tries, indices, stores, phase, delegates, advices, faults, boots>>

Names(m) == DOMAIN Modules[m].sources
(* createDataSourceKey: the name and the configuration, and not the module. *)
(* It tells the values that are true as strings: not those that are false,  *)
(* 0 or empty, and not what is in an object, as pool or ssl.                *)
SourceKey(m, name) == <<name, Modules[m].sources[name].told>>
(* The configurations that have a key.                                      *)
Given(k) ==
  UNION {{Modules[m].sources[n] : n \in {x \in Names(m) : SourceKey(m, x) = k}} :
           m \in DOMAIN Modules}
Indexed(m, name) == IF <<m, name>> \in DOMAIN indices THEN indices[<<m, name>>] ELSE None

(* What the first map has, and the second besides.                          *)
Over(f, g) == [x \in DOMAIN f \union DOMAIN g |-> IF x \in DOMAIN f THEN f[x] ELSE g[x]]

(* TableModel.build: the name a table gives, or 'default'. *)
TableSource(table) == IF table.dataSource = None THEN Default ELSE table.dataSource

(* getObjects of DataSourceDelegate: one object for each table of each      *)
(* source; a module's only source takes the tables of every name.           *)
DelegateNames(m) ==
  {<<m, y[1], y[2].clazz>> : y \in
     {x \in Names(m) \X Modules[m].tables :
        Cardinality(Names(m)) = 1 \/ TableSource(x[2]) = x[1]}}

(* The qualifier the generated DAO of a table injects its source by         *)
(* (base_dao.njk, DataSourceQualifier).                                     *)
DaoQualifier(m, table) == <<m, TableSource(table), table.clazz>>

-----------------------------------------------------------------------------
Init == /\ clients = <<>> /\ tries = <<>> /\ indices = <<>> /\ stores = {}
        /\ phase = [m \in DOMAIN Modules |-> "off"]
        /\ delegates = <<>> /\ advices = <<>> /\ faults = 0 /\ boots = 1

(* The graph of the application is built before any module is created, and  *)
(* resolves what the DAOs inject: one it does not find fails the boot.      *)
Resolved(m) == \A table \in Modules[m].tables : DaoQualifier(m, table) \in DelegateNames(m)
BuildGraph ==
  /\ \A m \in DOMAIN phase : phase[m] = "off"
  /\ phase' = [m \in DOMAIN phase |-> IF \A n \in DOMAIN phase : Resolved(n) THEN "wired" ELSE "failed"]
  /\ UNCHANGED <<clients, tries, indices, stores, delegates, advices, faults, boots>>

(* DalModuleLoadUnitHook.preCreate: createDataSource for every source, at   *)
(* once; a client there already, of whatever module, is used again.         *)
CreateDataSources(m) ==
  LET keys == {SourceKey(m, n) : n \in Names(m)}
      configured(k) == Modules[m].sources[CHOOSE n \in Names(m) : SourceKey(m, n) = k] IN
  /\ phase[m] = "wired"
  /\ \A other \in DOMAIN phase : phase[other] \in {"wired", "up"}    \* one load unit after another
  /\ phase' = [phase EXCEPT ![m] = "hook"]
  /\ clients' = Over(clients, [k \in keys |-> [config |-> configured(k), state |-> "connecting"]])
  /\ tries' = Over(tries, [k \in keys |-> 1])
  /\ indices' = Over([p \in {<<m, n>> : n \in Names(m)} |-> SourceKey(m, p[2])], indices)
  /\ UNCHANGED <<stores, delegates, advices, faults, boots>>

(* MysqlDataSource.#doInit: the initial statement succeeds, *)
Connect(k) == /\ clients[k].state = "connecting"
              /\ clients' = [clients EXCEPT ![k].state = "ready"]
              /\ UNCHANGED <<tries, indices, stores, phase, delegates, advices, faults, boots>>

(* or fails: it is tried again until the tries are used up. *)
Retry(k) ==
  /\ clients[k].state = "connecting" /\ faults < MaxFaults
  /\ faults' = faults + 1
  /\ IF tries[k] >= RetryTimes
     THEN clients' = [clients EXCEPT ![k].state = "failed"] /\ UNCHANGED tries
     ELSE tries' = [tries EXCEPT ![k] = @ + 1] /\ UNCHANGED clients
  /\ UNCHANGED <<indices, stores, phase, delegates, advices, boots>>

(* await dataSource.ready(), of all the module's sources. *)
Awaited(m, state) == {n \in Names(m) : clients[Indexed(m, n)].state = state}
SourcesReady(m) == Awaited(m, "ready") = Names(m)

(* TransactionPrototypeHook: the source a method names, or the only one.    *)
TransactionSource(m, method) ==
  CASE method.dataSource \in Names(m) -> method.dataSource
    [] method.dataSource = None /\ Cardinality(Names(m)) = 1 -> CHOOSE n \in Names(m) : TRUE
    [] OTHER -> None

(* The prototypes: DalTableEggPrototypeHook keeps the model and the         *)
(* statements of each DAO, the transactional methods get their advice.      *)
CreatePrototypes(m) ==
  /\ phase[m] = "hook" /\ SourcesReady(m)
  /\ stores' = stores \union {m}
  /\ advices' = Over([p \in {<<m, t.method>> : t \in Modules[m].transactions} |->
                        TransactionSource(m, CHOOSE t \in Modules[m].transactions : t.method = p[2])],
                     advices)
  /\ phase' = [phase EXCEPT ![m] =
                 IF \E t \in Modules[m].transactions : TransactionSource(m, t) = None
                 THEN "failed" ELSE "protos"]
  /\ UNCHANGED <<clients, tries, indices, delegates, faults, boots>>

FailHook(m) == /\ phase[m] = "hook" /\ Awaited(m, "failed") # {}
               /\ phase' = [phase EXCEPT ![m] = "failed"]
               /\ UNCHANGED <<clients, tries, indices, stores, delegates, advices, faults, boots>>

(* The constructor of DataSourceDelegate, of the singletons of the module:  *)
(* its asserts find the table, the data source and the statements.          *)
CreateDelegates(m) ==
  /\ phase[m] = "protos"
  /\ LET found == m \in stores /\ \A d \in DelegateNames(m) : Indexed(m, d[2]) # None IN
     /\ phase' = [phase EXCEPT ![m] = IF found THEN "up" ELSE "failed"]
     /\ delegates' = IF found THEN Over([d \in DelegateNames(m) |-> Indexed(m, d[2])], delegates)
                     ELSE delegates
  /\ UNCHANGED <<clients, tries, indices, stores, advices, faults, boots>>

(* beforeClose, and the next boot in the process: the indices, models and   *)
(* statements are cleared, the data sources themselves are kept.            *)
Close == /\ boots < MaxBoots
         /\ \A m \in DOMAIN phase : phase[m] \in {"wired", "up", "failed"}
         /\ \E m \in DOMAIN phase : phase[m] # "wired"
         /\ indices' = <<>> /\ stores' = {} /\ delegates' = <<>> /\ advices' = <<>>
         /\ phase' = [m \in DOMAIN Modules |-> "off"]
         /\ boots' = boots + 1
         /\ UNCHANGED <<clients, tries, faults>>

Next == \/ BuildGraph
        \/ \E m \in DOMAIN Modules : \/ CreateDataSources(m) \/ CreatePrototypes(m)
                                     \/ FailHook(m) \/ CreateDelegates(m)
        \/ \E k \in DOMAIN clients : Connect(k) \/ Retry(k)
        \/ Close

Spec == Init /\ [][Next]_vars

-----------------------------------------------------------------------------
Up == {m \in DOMAIN phase : phase[m] = "up"}

TypeOK == /\ DOMAIN clients = DOMAIN tries
          /\ \A k \in DOMAIN clients : /\ clients[k].state \in {"connecting", "ready", "failed"}
                                       /\ tries[k] \in 1..RetryTimes
          /\ \A p \in DOMAIN indices : indices[p] \in DOMAIN clients

(***************************************************************************)
(* A transaction covers the writes of its module: in a module that is up,  *)
(* the source a transactional method runs on is connected, and it is the   *)
(* client of every delegate of that source, so that what its DAOs write is *)
(* rolled back with it (TransactionalAOP, DataSourceDelegate); this is so  *)
(* after a restart too.  Its configuration is the module's own, as far as  *)
(* the key tells: the rest may be that of another module (OwnSource).      *)
(***************************************************************************)
TransactionsCoverTheirWrites ==
  \A m \in Up :
    /\ \A n \in Names(m) :
         LET client == clients[Indexed(m, n)] IN
         client.state = "ready" /\ client.config \in Given(SourceKey(m, n))
    /\ \A p \in DOMAIN advices, d \in DOMAIN delegates :
         p[1] = m /\ d[1] = m /\ d[2] = advices[p] => delegates[d] = Indexed(m, advices[p])

(* That the rest is the module's own too does not hold: two modules whose   *)
(* sources differ in what the key does not tell share the first one's.      *)
OwnSource ==
  \A m \in Up : \A n \in Names(m) : clients[Indexed(m, n)].config = Modules[m].sources[n]

(***************************************************************************)
(* A module's only data source serves its tables, whatever name they give  *)
(* (plugin/dal/README.md: @Table uses it by default): a boot fails before  *)
(* any connection is tried only for a module with several sources.         *)
(***************************************************************************)
OnlySourceServesItsTables ==
  (\E m \in DOMAIN phase : phase[m] = "failed") /\ clients = <<>> =>
    \E m \in DOMAIN Modules : Cardinality(Names(m)) # 1 /\ ~Resolved(m)
=============================================================================
