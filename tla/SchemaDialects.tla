--------------------------- MODULE SchemaDialects ---------------------------
(***************************************************************************)
(* lib/dialects/*Dialect.js as schema sync uses them: the column and index *)
(* definitions each dialect writes into its DDL, what the database server  *)
(* makes of them (external: the servers are not in this repository), and   *)
(* what the dialect's catalogue queries report of the result.              *)
(*                                                                         *)
(* A column is a record of the keys schema sync compares.  An index entry  *)
(* is [col, len, dir, path]: notes(255) is len |-> "255", email DESC is    *)
(* dir |-> "DESC", meta->>"$.a" is path |-> "$.a".                         *)
(***************************************************************************)
EXTENDS Naturals, FiniteSets, Sequences, SequencesExt, TLC

Servers == {"mysql8", "mariadb", "postgres", "sqlite"}
Dialect(s) == IF s \in {"mysql8", "mariadb"} THEN "mysql" ELSE s

Lookup(table, x, otherwise) == IF x \in DOMAIN table THEN table[x] ELSE otherwise
Entered(table, x, value) == [k \in DOMAIN table \cup {x} |-> IF k = x THEN value ELSE table[k]]

-----------------------------------------------------------------------------
(* Feature flags                                                           *)

NoFeatures == [alterColumn |-> FALSE, partialIndexes |-> FALSE, fullText |-> FALSE,
               triggers |-> FALSE, prefixIndexNames |-> FALSE, textSearch |-> ""]
MySqlFeatures    == [NoFeatures EXCEPT !.alterColumn = TRUE, !.fullText = TRUE, !.triggers = TRUE]
PostgresFeatures == [NoFeatures EXCEPT !.alterColumn = TRUE, !.fullText = TRUE,
                        !.partialIndexes = TRUE, !.prefixIndexNames = TRUE, !.textSearch = "english"]
SqliteFeatures   == [NoFeatures EXCEPT !.partialIndexes = TRUE]
Features == [mysql |-> MySqlFeatures, postgres |-> PostgresFeatures, sqlite |-> SqliteFeatures]

\* checkJsonSupport asks the server; MariaDB has no ->> operator.
JsonSupported(s) == s # "mariadb"

\* The attributes of primary keys.
MySqlKeys ==
    [idKey   |-> [type |-> "int(11)", key |-> "PRI", extra |-> "auto_increment", auto |-> "#1"],
     uuidKey |-> [type |-> "char(36)", collation |-> "utf8mb4_bin", key |-> "PRI", null |-> "#0"]]
PostgresKeys ==
    [idKey   |-> [type |-> "SERIAL", key |-> "PRI", auto |-> "#1"],
     uuidKey |-> [type |-> "UUID", key |-> "PRI", null |-> "#0", default |-> "gen_random_uuid()"]]
SqliteKeys ==
    [idKey   |-> [type |-> "INTEGER", key |-> "PRI", extra |-> "", auto |-> "#1"],
     uuidKey |-> [type |-> "TEXT", key |-> "PRI", null |-> "#0"]]
PrimaryKeys == [mysql |-> MySqlKeys, postgres |-> PostgresKeys, sqlite |-> SqliteKeys]

-----------------------------------------------------------------------------
(* Columns: what generateFieldSpec asks for                                *)

IsNotNull(f) == f.null \in {"NO", "#0"}
IsNumber(v)  == v \in {"#0", "#1"}
Printed(v)   == Lookup("#0" :> "0" @@ "#1" :> "1", v, v)

\* `default` is the clause as the server's catalogue will print it.
MySqlFieldSpec(f) ==
    LET type == IF f.type = "varchar" THEN "varchar(255)" ELSE f.type
    IN  [type |-> type, notNull |-> IsNotNull(f), key |-> f.key, collation |-> f.collation,
         extra   |-> f.extra,
         default |-> IF type = "longtext" \/ f.default = "CURRENT_TIMESTAMP" THEN ""
                     ELSE Printed(f.default)]

\* mapType: the entries definitions can reach; anything else is TEXT.
PostgresTypes ==
    [varchar |-> "VARCHAR(255)", integer |-> "INTEGER", int |-> "INTEGER", bigint |-> "BIGINT",
     double |-> "DOUBLE PRECISION", date |-> "DATE", time |-> "TIME",
     datetime |-> "TIMESTAMP", SERIAL |-> "SERIAL", UUID |-> "UUID"]
    @@ ("int(1)" :> "BOOLEAN") @@ ("char(36)" :> "CHAR(36)")
PostgresColumnType(f) == IF f.isObject THEN "JSONB" ELSE Lookup(PostgresTypes, f.type, "TEXT")

BooleanLiteral(v) == IF v \in {"#0", "0", "false", "", "no"} THEN "false" ELSE "true"

PostgresFieldSpec(f) ==
    LET type == PostgresColumnType(f)
    IN  [type |-> type, notNull |-> IsNotNull(f), key |-> f.key, collation |-> "", extra |-> "",
         default |-> IF type = "SERIAL" THEN "nextval("
                     ELSE IF f.default = "" THEN ""
                     ELSE IF type = "BOOLEAN" THEN BooleanLiteral(f.default)
                     ELSE IF f.default \in {"#0", "#1", "CURRENT_TIMESTAMP", "gen_random_uuid()"}
                     THEN Printed(f.default)
                     ELSE "quoted " \o f.default]

SqliteTypes ==
    [integer |-> "INTEGER", int |-> "INTEGER", bigint |-> "INTEGER", double |-> "REAL",
     INTEGER |-> "INTEGER"] @@ ("int(1)" :> "INTEGER")

SqliteFieldSpec(f) ==
    [type |-> Lookup(SqliteTypes, f.type, "TEXT"), notNull |-> IsNotNull(f), key |-> f.key,
     collation |-> "", extra |-> "",
     default |-> CASE f.default = "" -> ""
                   [] f.default = "CURRENT_TIMESTAMP" -> "datetime('now')"
                   [] IsNumber(f.default) -> Printed(f.default)
                   [] OTHER -> "quoted " \o f.default]

FieldSpec(d, f) == CASE d = "mysql"    -> MySqlFieldSpec(f)
                     [] d = "postgres" -> PostgresFieldSpec(f)
                     [] d = "sqlite"   -> SqliteFieldSpec(f)

-----------------------------------------------------------------------------
(* Columns: what the servers store and the catalogue queries report        *)

StoredTypes ==
    [mysql8   |-> [type \in {"integer", "int(11)", "int(1)"} |-> "int"],
     mariadb  |-> [integer |-> "int(11)", int |-> "int(11)", bigint |-> "bigint(20)"],
     sqlite   |-> <<>>,
     postgres |-> [SERIAL |-> "integer", INTEGER |-> "integer", BIGINT |-> "bigint", TEXT |-> "text",
                   BOOLEAN |-> "boolean", TIMESTAMP |-> "timestamp without time zone", DATE |-> "date",
                   TIME |-> "time without time zone", JSONB |-> "jsonb", UUID |-> "uuid"]
                  @@ ("VARCHAR(255)" :> "character varying(255)") @@ ("CHAR(36)" :> "character(36)")
                  @@ ("DOUBLE PRECISION" :> "double precision")]
DefaultCollation == [mysql8 |-> "utf8mb4_0900_ai_ci", mariadb |-> "utf8mb4_general_ci"]

\* A column that ADD or CREATE TABLE made of a specification.
Stored(s, spec) ==
    [type      |-> Lookup(StoredTypes[s], spec.type, spec.type),
     null      |-> IF spec.notNull \/ (spec.key = "PRI" /\ s # "sqlite") THEN "NO" ELSE "YES",
     key       |-> spec.key, default |-> spec.default, extra |-> spec.extra,
     collation |-> IF Dialect(s) = "mysql" /\ spec.type \in {"varchar(255)", "char(36)", "longtext"}
                   THEN IF spec.collation # "" THEN spec.collation ELSE DefaultCollation[s]
                   ELSE ""]
NewColumn(s, f) == Stored(s, FieldSpec(Dialect(s), f))

\* generateAlterModifyColumn: MySQL's CHANGE gives the whole specification again
\* but for the key; Postgres alters the type, the nullability (a primary key keeps
\* its own), and the default only when the field declares one.
MySqlModified(s, old, f) == [NewColumn(s, f) EXCEPT !.key = old.key]
PostgresModified(old, f) ==
    [NewColumn("postgres", f) EXCEPT !.key = old.key,
        !.null    = IF ~IsNotNull(f) /\ f.key = "PRI" THEN old.null ELSE @,
        !.default = IF f.default = "" THEN old.default ELSE @]
ModifiedColumn(s, old, f) ==
    IF Dialect(s) = "mysql" THEN MySqlModified(s, old, f) ELSE PostgresModified(old, f)

\* getTableColumns.  Postgres and SQLite know the primary key but no unique column,
\* and tell an automatic increment by the default or by the type of the key.
MySqlReports(c) == c
PostgresReports(c) == [c EXCEPT !.key   = IF @ = "PRI" THEN @ ELSE "",
                                !.extra = IF c.default = "nextval(" THEN "auto_increment" ELSE ""]
SqliteReports(c) == [c EXCEPT !.key   = IF @ = "PRI" THEN @ ELSE "",
                              !.extra = IF c.key = "PRI" /\ c.type = "INTEGER" THEN "auto_increment" ELSE ""]

-----------------------------------------------------------------------------
(* Indexes: what generateCreateIndex asks for                              *)

Entry(col)   == [col |-> col, len |-> "", dir |-> "", path |-> ""]
IsEntry(e)   == e = [col |-> e.col, len |-> e.len, dir |-> e.dir, path |-> e.path]
IsJson(e)    == e.path # ""

\* The text length replaces every modifier of a text column.
MySqlCreated(cols, texts) ==
    [i \in 1..Len(cols) |-> IF ~IsJson(cols[i]) /\ cols[i].col \in texts
                            THEN [cols[i] EXCEPT !.len = "255", !.dir = ""] ELSE cols[i]]
MySqlCreateIndex(index, texts) == [index EXCEPT !.cols = MySqlCreated(@, texts)]

\* A fulltext index takes the bare columns and is never unique; a length is
\* dropped; ->> takes a key, not a path.
KeyOfPath(p) == IF p # "" /\ Len(p) > 2 /\ SubSeq(p, 1, 2) = "$." THEN SubSeq(p, 3, Len(p)) ELSE p
PostgresCreated(cols, fulltext) ==
    [i \in 1..Len(cols) |-> [cols[i] EXCEPT !.len = "", !.dir = IF fulltext THEN "" ELSE @,
                                            !.path = KeyOfPath(@)]]
NeverBoth(unique, fulltext) == IF fulltext THEN FALSE ELSE unique
PostgresCreateIndex(index) ==
    [index EXCEPT !.cols   = PostgresCreated(index.cols, index.fulltext),
                  !.unique = NeverBoth(index.unique, index.fulltext)]

\* A JSON accessor becomes an expression.
SqliteCreated(cols) == [i \in 1..Len(cols) |-> [cols[i] EXCEPT !.len = ""]]
SqliteCreateIndex(index) == [index EXCEPT !.cols = SqliteCreated(@)]

-----------------------------------------------------------------------------
(* Indexes: what getTableIndexes reports.  No catalogue prints ASC.        *)

Direction(dir) == IF dir = "DESC" THEN dir ELSE ""

MySqlReported(cols, fulltext) ==
    [i \in 1..Len(cols) |-> [cols[i] EXCEPT !.dir = IF fulltext THEN "" ELSE Direction(@),
                                            !.len = IF fulltext THEN "" ELSE @]]
MySqlIndex(index) ==
    [index EXCEPT !.cols   = MySqlReported(index.cols, index.fulltext),
                  !.unique = NeverBoth(index.unique, index.fulltext)]

\* A column list with a JSON accessor is reported as its first accessor alone, in
\* the form of the schema; a predicate comes back in parentheses.
PathOfKey(k) == IF k = "" THEN k ELSE "$." \o k
PostgresJsonColumns(cols) ==
    LET json == {i \in 1..Len(cols) : IsJson(cols[i])} IN IF json = {} THEN cols ELSE <<cols[Min(json)]>>
PostgresReported(cols) ==
    PostgresJsonColumns([i \in 1..Len(cols) |->
                            [cols[i] EXCEPT !.dir = Direction(@), !.path = PathOfKey(@)]])
Parenthesized(p) == IF p = "" THEN p ELSE "(" \o p \o ")"
PostgresIndex(index) ==
    [index EXCEPT !.cols  = PostgresReported(index.cols),
                  !.where = Parenthesized(index.where)]

\* The k-th expression of an index is looked up as the k-th part of the column list
\* of its CREATE INDEX, which holds the plain columns too.
Part(e) == [e EXCEPT !.col = (IF IsJson(e) THEN "json_extract " ELSE "quoted ") \o @]
SqliteReported(cols) ==
    LET rank(i) == Cardinality({j \in 1..i : IsJson(cols[j])})
    IN  [i \in 1..Len(cols) |-> IF IsJson(cols[i]) THEN Part(cols[rank(i)])
                                ELSE [cols[i] EXCEPT !.dir = Direction(@)]]
SqliteIndex(index) == [index EXCEPT !.cols = SqliteReported(@)]

\* What the catalogue reports of the index a CREATE INDEX has asked for.
CreatedIndex(d, index, texts) ==
    CASE d = "mysql"    -> MySqlCreateIndex(index, texts)
      [] d = "postgres" -> PostgresCreateIndex(index)
      [] d = "sqlite"   -> SqliteCreateIndex(index)
ReportedIndex(d, created) ==
    CASE d = "mysql"    -> MySqlIndex(created)
      [] d = "postgres" -> PostgresIndex(created)
      [] d = "sqlite"   -> SqliteIndex(created)
=============================================================================
