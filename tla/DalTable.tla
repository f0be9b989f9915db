------------------------------ MODULE DalTable ------------------------------
(* The data access layer of one table: the class the decorators describe,   *)
(* the model built from it (TableModel), the CREATE TABLE statement         *)
(* (SqlGenerator), the statements of its DAO (BaseSqlMapGenerator,          *)
(* TableSqlMap), and the rows the database keeps when they are executed.    *)
(* The database is outside the repository: it is modelled by what these     *)
(* statements ask of it.                                                    *)
EXTENDS Naturals, Sequences, FiniteSets, SequencesExt, FiniteSetsExt, Functions

CONSTANTS
  Tables,      \* the table classes: [columns, indices], as their decorators give them
  Values,      \* what a column may hold besides times and keys
  Null,        \* SQL's NULL, and JavaScript's null
  Undefined,   \* a property that is not given
  MaxRows,     \* bound: rows ever inserted
  MaxNow       \* bound: ticks of the database's clock

VARIABLES
  tableModel,  \* the table's model, built once when its DAO's prototype is created
  created,     \* has the table been created?
  rows,        \* the rows of the database: functions from column names
  now,         \* its clock
  serial,      \* its AUTO_INCREMENT counter
  saved        \* history: key of a row -> what its callers gave it, by property

vars == <<tableModel, created, rows, now, serial, saved>>

-----------------------------------------------------------------------------
(* Column types, by what the statements tell apart (ColumnTypeParams).      *)
Integral == {"BIT", "TINYINT", "SMALLINT", "MEDIUMINT", "INT", "BIGINT"}
Fractional == {"DECIMAL", "FLOAT", "DOUBLE"}
Timed == {"DATETIME", "TIMESTAMP", "TIME"}
Texts == {"CHAR", "VARCHAR", "TEXT", "TINYTEXT", "MEDIUMTEXT", "LONGTEXT", "ENUM", "SET"}
Bytes == {"BINARY", "VARBINARY", "TINYBLOB", "BLOB", "MEDIUMBLOB", "LONGBLOB"}
Spatial == {"GEOMETRY", "POINT", "LINESTRING", "POLYGON", "MULTIPOINT", "MULTILINESTRING",
            "MULTIPOLYGON", "GEOMETRYCOLLECTION"}
ColumnTypes == Integral \union Fractional \union Timed \union Texts \union Bytes \union Spatial
               \union {"BOOL", "DATE", "YEAR", "JSON"}

Param(params, name, default) == IF name \in DOMAIN params THEN params[name] ELSE default

(* ColumnModel.build *)
BuildColumn(property, type, params) ==
  [columnName |-> Param(params, "name", property),
   propertyName |-> property,
   type |-> type,
   canNull |-> Param(params, "canNull", FALSE) /\ ~Param(params, "primaryKey", FALSE),
   default |-> Param(params, "default", Undefined),
   autoIncrement |-> Param(params, "autoIncrement", FALSE),
   uniqueKey |-> Param(params, "uniqueKey", FALSE),
   primaryKey |-> Param(params, "primaryKey", FALSE)]

(* IndexModel.build: the property names must be columns of the class. *)
IndexIsBuilt(index, columns) ==
  \A i \in DOMAIN index.keys : \E c \in DOMAIN columns : columns[c].property = index.keys[i]
KeyOf(column) == [columnName |-> column.columnName, propertyName |-> column.propertyName]
BuildIndex(index, columns) ==
  LET type == Param(index, "type", "INDEX")
      named(p) == CHOOSE c \in ToSet(columns) : c.propertyName = p
      keys == [i \in DOMAIN index.keys |-> KeyOf(named(index.keys[i]))] IN
  [type |-> type, keys |-> keys,
   name |-> Param(index, "name", FoldLeft(LAMBDA name, key : name \o "_" \o key.columnName,
                                          IF type = "UNIQUE" THEN "uk" ELSE "idx", keys))]

(* TableModel.build: the columns in the order of the decorators, then the   *)
(* indices.                                                                 *)
BuildTable(clazz) ==
  LET columns == [i \in DOMAIN clazz.columns |->
                    BuildColumn(clazz.columns[i].property, clazz.columns[i].type, clazz.columns[i].params)] IN
  [columns |-> columns,
   indices |-> [i \in DOMAIN clazz.indices |-> BuildIndex(clazz.indices[i], columns)]]

(* TableModel.getPrimary: the primary index, or one made of the columns     *)
(* marked as primary keys; made of none, it still is an index.              *)
GetPrimary(model) ==
  LET declared == SelectSeq(model.indices, LAMBDA i : i.type = "PRIMARY")
      marked == SelectSeq(model.columns, LAMBDA c : c.primaryKey) IN
  IF declared # <<>> THEN declared[1]
  ELSE [type |-> "PRIMARY", name |-> "PRIMARY", keys |-> [i \in DOMAIN marked |-> KeyOf(marked[i])]]

-----------------------------------------------------------------------------
(* SqlGenerator.generateColumnType: the type written, and its arguments.    *)
GenerateColumnType(type) ==
  LET t == type.type
      length == Param(type, "length", 0)
      precision == Param(type, "precision", 0)
      plain == [name |-> t, args |-> <<>>, onUpdate |-> FALSE]
      sized == IF length > 0 THEN [plain EXCEPT !.args = <<length>>] ELSE plain
      timed == IF precision > 0 THEN [plain EXCEPT !.args = <<precision>>] ELSE plain IN
  CASE t \in Integral -> sized
    [] t \in Fractional ->
         IF length = 0 THEN [plain EXCEPT !.name = "TINYINT"]
         ELSE IF "fractionalLength" \in DOMAIN type
              THEN [plain EXCEPT !.args = <<length, type.fractionalLength>>] ELSE sized
    [] t \in Timed -> [timed EXCEPT !.onUpdate = t # "TIME" /\ Param(type, "autoUpdate", FALSE)]
    [] t \in {"CHAR", "TEXT", "BINARY", "BLOB", "VARCHAR", "VARBINARY"} -> sized
    [] t \in {"ENUM", "SET"} -> [plain EXCEPT !.args = type.enums]
    [] OTHER -> plain

(* SqlGenerator.generateColumn *)
GenerateColumn(column) ==
  [name |-> column.columnName, type |-> GenerateColumnType(column.type),
   null |-> column.canNull, default |-> column.default, autoIncrement |-> column.autoIncrement,
   unique |-> column.uniqueKey, primary |-> column.primaryKey]

(* SqlGenerator.generateIndex *)
GenerateIndex(index) ==
  [kind |-> CASE index.type = "INDEX" -> "KEY"
              [] index.type = "UNIQUE" -> "UNIQUE KEY"
              [] index.type = "PRIMARY" -> "PRIMARY KEY"
              [] index.type = "FULLTEXT" -> "FULLTEXT KEY"
              [] index.type = "SPATIAL" -> "SPATIAL KEY",
   name |-> index.name, columns |-> [i \in DOMAIN index.keys |-> index.keys[i].columnName]]

(* SqlGenerator.generate *)
Generate(model) ==
  [columns |-> [i \in DOMAIN model.columns |-> GenerateColumn(model.columns[i])],
   indices |-> [i \in DOMAIN model.indices |-> GenerateIndex(model.indices[i])]]

-----------------------------------------------------------------------------
(* BaseSqlMapGenerator: a statement is its conditions and its assignments.  *)
(* A condition compares a column with a parameter; with orNull it is "IS"   *)
(* when the parameter is null.                                              *)
Equal_Bug(keys, orNull) ==
  {[columnName |-> keys[i].columnName, param |-> keys[i].propertyName, orNull |-> orNull]
     : i \in DOMAIN keys \intersect {1}}
Equal(keys, orNull) ==
  {[columnName |-> keys[i].columnName, param |-> keys[i].propertyName, orNull |-> orNull]
     : i \in DOMAIN keys}

GenerateFindByPrimary(model) ==
  [type |-> "SELECT", where |-> Equal(GetPrimary(model).keys, FALSE)]

(* findBy<index> of each index that is not primary, by the name of its only *)
(* property or by its own; of two with one name the later one stays.        *)
FindName(index) == IF Len(index.keys) = 1 THEN index.keys[1].propertyName ELSE index.name
GenerateFindByIndexes(model) ==
  FoldLeft(LAMBDA map, index : (FindName(index) :> [type |-> "SELECT", where |-> Equal(index.keys, TRUE)])
                               @@ map,
           <<>>, SelectSeq(model.indices, LAMBDA i : i.type # "PRIMARY"))

(* How insert writes a value into its statement: spatial values and JSON    *)
(* are written out, the others are parameters.                              *)
InsertFilter(column) ==
  IF column.type.type \in Spatial \union {"JSON"} THEN "literal" ELSE "param"

GenerateInsert(model) ==
  [type |-> "INSERT",
   set |-> {[columnName |-> c.columnName, param |-> c.propertyName,
             filter |-> InsertFilter(c),
             now |-> c.propertyName \in {"gmtCreate", "gmtModified"}] : c \in ToSet(model.columns)}]

GenerateUpdate(model) ==
  [type |-> "UPDATE",
   set |-> {[columnName |-> c.columnName, param |-> c.propertyName, filter |-> "param",
             now |-> c.propertyName = "gmtModified"] : c \in ToSet(model.columns)},
   where |-> Equal(GetPrimary(model).keys, FALSE)]

GenerateDelete(model) == [type |-> "DELETE", where |-> Equal(GetPrimary(model).keys, FALSE)]

(* BaseSqlMapGenerator.load, and the statements the DAO's extension adds or  *)
(* replaces (SqlMapLoader).                                                 *)
Load(model, extension) ==
  extension @@ [delete |-> GenerateDelete(model), update |-> GenerateUpdate(model),
                insert |-> GenerateInsert(model), findByPrimary |-> GenerateFindByPrimary(model)]

(* TableModelInstanceBuilder: an instance's properties from a row's columns,*)
(* and the parameters of a statement from an instance.                      *)
BuildInstance(model, row) ==
  LET property(name) == LET of == {c \in ToSet(model.columns) : c.columnName = name} IN
                        IF of = {} THEN name ELSE (CHOOSE c \in of : TRUE).propertyName IN
  [p \in {property(name) : name \in DOMAIN row} |->
     row[CHOOSE name \in DOMAIN row : property(name) = p]]
BuildRow(model, instance) ==
  Restrict(instance, {p \in DOMAIN instance : /\ instance[p] # Undefined
                                              /\ \E c \in ToSet(model.columns) : c.propertyName = p})

-----------------------------------------------------------------------------
(* TableSqlMap.generate: the statement with its data put in.  insert and    *)
(* update leave out what is undefined, except the times they fill in.       *)
Assigned(statement, data) ==
  {s \in statement.set : s.now \/ s.param \in DOMAIN data}
Written(s, data) == IF s.param \in DOMAIN data THEN data[s.param] ELSE now

Holds(row, condition, data) ==
  LET given == data[condition.param]
      kept == row[condition.columnName] IN
  IF given = Null THEN condition.orNull /\ kept = Null ELSE kept = given
Matching(statement, data) ==
  {r \in rows : \A c \in statement.where : Holds(r, c, data)}

(* DataSource.execute *)
Execute(model, statement, data) == {BuildInstance(model, r) : r \in Matching(statement, data)}

(* A parameter that is an object is spread over the statement as            *)
(* assignments, which the database refuses; so does it an empty WHERE.  A   *)
(* null cannot be written out as a spatial value: the template throws.      *)
Refused(model, statement, data) ==
  \/ \E s \in Assigned(statement, data), c \in ToSet(model.columns) :
        /\ s.param = c.propertyName
        /\ \/ /\ s.filter = "param" /\ c.type.type \in Spatial \union {"JSON"}
              /\ Written(s, data) # Null
           \/ /\ s.filter = "literal" /\ c.type.type \in Spatial
              /\ Written(s, data) = Null
  \/ statement.type # "INSERT" /\ statement.where = {}

(* The keys the database keeps unique, as sets of columns.                  *)
UniqueKeys(ddl) ==
  {{c.name} : c \in {c \in ToSet(ddl.columns) : c.unique}}
    \union {{c.name : c \in {c \in ToSet(ddl.columns) : c.primary}}}
    \union {ToSet(i.columns) : i \in {i \in ToSet(ddl.indices) : i.kind \in {"UNIQUE KEY", "PRIMARY KEY"}}}
Distinct(ddl, R) ==
  \A key \in UniqueKeys(ddl) \ {{}}, r, s \in R :
     (r # s /\ \A name \in key : r[name] # Null) => \E name \in key : r[name] # s[name]

(* CREATE TABLE: at most one primary key, and no index name twice.          *)
Accepted(ddl) ==
  /\ Cardinality({i \in DOMAIN ddl.columns : ddl.columns[i].primary}) +
     Cardinality({i \in DOMAIN ddl.indices : ddl.indices[i].kind = "PRIMARY KEY"}) <= 1
  /\ IsInjective([i \in DOMAIN ddl.indices |-> ddl.indices[i].name])
  /\ IsInjective([i \in DOMAIN ddl.columns |-> ddl.columns[i].name])

Ddl == Generate(tableModel)
SqlMap == Load(tableModel, <<>>)
KeyProperties == {k.propertyName : k \in ToSet(GetPrimary(tableModel).keys)}

(* What the database stores in a column an INSERT leaves out.               *)
DefaultOf(column) == CASE column.autoIncrement -> serial + 1
                       [] column.default # Undefined -> column.default
                       [] OTHER -> Null

-----------------------------------------------------------------------------
(* What the callers of the DAO may give for a property.                     *)
Given(column) ==
  (CASE column.propertyName \in {"gmtCreate", "gmtModified"} -> {0}
     [] column.autoIncrement -> {}
     [] column.propertyName \in KeyProperties -> {1, 2}
     [] OTHER -> Values)
  \union (IF column.canNull THEN {Null} ELSE {})
Optional(column) == \/ column.autoIncrement \/ column.canNull \/ column.default # Undefined
                    \/ column.propertyName \in {"gmtCreate", "gmtModified"}
ColumnOf(p) == CHOOSE c \in ToSet(tableModel.columns) : c.propertyName = p
Properties == {c.propertyName : c \in ToSet(tableModel.columns)}
Product(S(_)) == FoldLeft(LAMBDA chosen, c : {f @@ (c.propertyName :> value) : f \in chosen, value \in S(c)},
                          {<<>>}, tableModel.columns)
Instances == Product(LAMBDA c : Given(c) \union (IF Optional(c) THEN {Undefined} ELSE {}))
Changes == Product(LAMBDA c : {Undefined} \union (IF c.propertyName \in KeyProperties THEN {} ELSE Given(c)))
(* A row is named by its key; without one, by the order it was saved in.    *)
Key(instance) == IF KeyProperties = {} THEN "row" :> serial ELSE Restrict(instance, KeyProperties)

Init == /\ \E t \in Tables : /\ \A i \in DOMAIN t.indices : IndexIsBuilt(t.indices[i], t.columns)
                            /\ tableModel = BuildTable(t)
        /\ created = FALSE /\ rows = {} /\ now = 1 /\ serial = 0
        /\ saved = <<>>

(* DatabaseForker.forkTables, or the team, executes the generated file.     *)
CreateTable == /\ ~created /\ Accepted(Ddl)
               /\ created' = TRUE
               /\ UNCHANGED <<tableModel, rows, now, serial, saved>>

Tick == /\ created /\ now < MaxNow
        /\ now' = now + 1
        /\ UNCHANGED <<tableModel, created, rows, serial, saved>>

(* BaseDAO.insert *)
Insert(instance) ==
  LET data == BuildRow(tableModel, instance)
      statement == SqlMap.insert
      set == Assigned(statement, data)
      row == [name \in {c.columnName : c \in ToSet(tableModel.columns)} |->
                IF \E s \in set : s.columnName = name
                THEN Written(CHOOSE s \in set : s.columnName = name, data)
                ELSE DefaultOf(CHOOSE c \in ToSet(tableModel.columns) : c.columnName = name)]
      whole == [p \in Properties |->
                  CASE instance[p] # Undefined -> instance[p]
                    [] p \in {"gmtCreate", "gmtModified"} -> now
                    [] OTHER -> DefaultOf(ColumnOf(p))] IN
  /\ created /\ serial < MaxRows
  /\ ~Refused(tableModel, statement, data)
  /\ row \notin rows /\ Distinct(Ddl, rows \union {row})
  /\ \A c \in ToSet(Ddl.columns) : row[c.name] = Null => c.null
  /\ rows' = rows \union {row}
  /\ serial' = serial + 1
  /\ saved' = saved @@ (Key(whole) :> whole)
  /\ UNCHANGED <<tableModel, created, now>>

(* BaseDAO.update: the row with this key, the properties that are given.    *)
Update(key, changes) ==
  LET data == BuildRow(tableModel, changes)
      statement == SqlMap.update
      set == Assigned(statement, data)
      hit == {r \in rows : \A c \in statement.where : Holds(r, c, key)}
      updated(r) == [name \in DOMAIN r |->
                       IF \E s \in set : s.columnName = name
                       THEN Written(CHOOSE s \in set : s.columnName = name, data)
                       ELSE r[name]] IN
  /\ created /\ key \in DOMAIN saved
  /\ ~Refused(tableModel, statement, data)
  /\ LET after == (rows \ hit) \union {updated(r) : r \in hit} IN
     /\ Cardinality(after) = Cardinality(rows) /\ Distinct(Ddl, after)
     /\ rows' = after
  /\ saved' = [saved EXCEPT ![key] =
                 [p \in Properties |-> CASE changes[p] # Undefined -> changes[p]
                                         [] p = "gmtModified" -> now
                                         [] OTHER -> @[p]]]
  /\ UNCHANGED <<tableModel, created, now, serial>>

(* BaseDAO.delete *)
Delete(key) ==
  LET statement == SqlMap.delete IN
  /\ created /\ key \in DOMAIN saved
  /\ statement.where # {}
  /\ rows' = rows \ Matching(statement, key)
  /\ saved' = Restrict(saved, (DOMAIN saved) \ {key})
  /\ UNCHANGED <<tableModel, created, now, serial>>

Next == \/ CreateTable \/ Tick
        \/ \E i \in Instances : Insert(i)
        \/ \E key \in DOMAIN saved : \/ Delete(key)
                                     \/ \E c \in Changes : Update(key, c)

Spec == Init /\ [][Next]_vars

-----------------------------------------------------------------------------
TypeOK == /\ created \in BOOLEAN
          /\ now \in 1..MaxNow /\ serial \in 0..MaxRows
          /\ Cardinality(rows) <= serial

(***************************************************************************)
(* Every read of the DAO gives back what its callers saved: findByPrimary  *)
(* finds the one instance with its last values, nothing of another row is  *)
(* touched by an update or a delete, and findBy<index> finds exactly the   *)
(* instances with these values, null among them (BaseSqlMapGenerator).     *)
(***************************************************************************)
SavedIsFound ==
  LET all == {saved[k] : k \in DOMAIN saved}
      finds == GenerateFindByIndexes(tableModel) IN
  created =>
    /\ Cardinality(rows) = Cardinality(DOMAIN saved)
    /\ \A k \in DOMAIN saved : KeyProperties # {} =>
         Execute(tableModel, SqlMap.findByPrimary, k) = {saved[k]}
    /\ \A index \in {i \in ToSet(tableModel.indices) : i.type # "PRIMARY"}, wanted \in all :
         Execute(tableModel, finds[FindName(index)], wanted) =
           {i \in all : \A k \in ToSet(index.keys) : i[k.propertyName] = wanted[k.propertyName]}

(***************************************************************************)
(* The column created is of the type declared: a DECIMAL is created as one *)
(* (plugin/dal/README.md, DecimalParams, where the length is optional).    *)
(***************************************************************************)
DeclaredTypeIsCreated ==
  \A i \in DOMAIN tableModel.columns : Ddl.columns[i].type.name = tableModel.columns[i].type.type
=============================================================================
