----------------------------- MODULE SchemaDiff -----------------------------
(***************************************************************************)
(* lib/sync-to-db.js: what schema sync decides from a definition and the   *)
(* catalogue, before it executes anything.  A statement is a record        *)
(*   [op, name, arg, check]                                                *)
(* where `check` asks for the count of NULL rows before an ALTER.          *)
(***************************************************************************)
EXTENDS SchemaDialects, FiniteSets, FiniteSetsExt

CONSTANT MigrateLinkCollation  \* config.migrateLinkCollation

ASSUME MigrationAssumption == MigrateLinkCollation \in BOOLEAN

FieldNames(fields) == {fields[i].field : i \in 1..Len(fields)}
FieldNamed(fields, n) == fields[CHOOSE i \in 1..Len(fields) : fields[i].field = n]

\* The elements of a list that pass a test, in their order (filter).
Where(s, Test(_)) == FlattenSeq([i \in 1..Len(s) |-> IF Test(s[i]) THEN <<s[i]>> ELSE <<>>])

-----------------------------------------------------------------------------
(* Differences between a column and its definition                         *)

\* `value || ''`: undefined, '' and 0 alike.
OrEmpty(v) == IF v = "#0" THEN "" ELSE v

\* The map schema sync builds of the existing columns: the row of SHOW COLUMNS
\* for MySQL, otherwise the normalized data.
Explained(d, column) == CASE d = "mysql"    -> MySqlReports(column)
                          [] d = "postgres" -> PostgresReports(column)
                          [] d = "sqlite"   -> SqliteReports(column)

ComparedKeys == {"type", "null", "key", "default", "extra", "collation"}

\* shouldDeferCollationOnlyChange
DeferredCollation(k, a, b) ==
    /\ ~MigrateLinkCollation
    /\ k = "collation"
    /\ b.collation = "utf8mb4_bin"
    /\ a.collation \in {"utf8mb4_0900_ai_ci", "utf8mb4_general_ci"}

\* The pairs <<type in the catalogue, type in the definition>> that are the same
\* type under two names, of those a type of t.* or a server can give.
SameTypes ==
    {<<"int(11)", "integer">>, <<"int(11)", "int">>, <<"int", "int(11)">>, <<"int", "integer">>,
     <<"int", "int(1)">>, <<"varchar(255)", "varchar">>, <<"bigint(20)", "bigint">>,
     <<"integer", "int">>, <<"integer", "int(11)">>, <<"integer", "INTEGER">>,
     <<"character varying(255)", "varchar">>, <<"text", "longtext">>, <<"boolean", "int(1)">>,
     <<"timestamp without time zone", "datetime">>, <<"uuid", "UUID">>,
     <<"character(36)", "char(36)">>, <<"jsonb", "longtext">>, <<"double precision", "double">>,
     <<"integer", "SERIAL">>}
IntTypes     == {"int", "int(1)", "int(11)", "integer", "INTEGER"}      \* /^int/i
NamesAnInt   == {"int", "int(1)", "int(11)", "integer", "bigint", "bigint(20)"}  \* includes('int')
Falsish(v)   == v \in {"", "#0", "0", "false", "no"}

\* The differences schema sync knows to be none.
Tolerated(k, a, b) ==
    LET ak == OrEmpty(a[k]) bk == OrEmpty(b[k]) IN
    \/ k = "collation" /\ ak \in {"utf8mb4_general_ci", "utf8mb4_0900_ai_ci"} /\ bk = ""
    \/ k = "type" /\ <<ak, bk>> \in SameTypes
    \/ k = "null" /\ ak = "YES" /\ bk \in {"", "#1"}
    \/ k = "null" /\ ak = "NO" /\ (b.null = "#0" \/ bk = "NO")
    \/ k = "null" /\ ak = "NO" /\ bk = "" /\ b.key = "PRI" /\ (b.extra = "auto_increment" \/ b.auto # "")
    \/ k = "default" /\ bk = "" /\ ak = "0" /\ a.type \in IntTypes
    \/ k = "default" /\ bk = "" /\ ak = "nextval("
    \/ k = "default" /\ a.type = "boolean" /\ (Falsish(ak) <=> Falsish(bk))
    \/ k = "key" /\ ak = "MUL" /\ bk = ""
    \/ k = "extra" /\ ak = "" /\ bk = "auto_increment" /\ a.type \in NamesAnInt
    \/ k = "extra" /\ ak = "auto_increment" /\ bk = "" /\ a.type \in NamesAnInt

Differs(k, a, b) == /\ OrEmpty(a[k]) # OrEmpty(b[k])
                    /\ ~DeferredCollation(k, a, b)
                    /\ ~Tolerated(k, a, b)

NeedsChange(a, b) == \E k \in ComparedKeys : Differs(k, a, b)

\* `bk.toUpperCase()` is called on whatever bk is once the catalogue says NOT NULL:
\* the comparison throws on the number 1 of a nullable field.
ComparisonThrows(a, b) == a.null = "NO" /\ b.null = "#1"

-----------------------------------------------------------------------------
(* The column statements                                                   *)

Statement(op, name, arg) == [op |-> op, name |-> name, arg |-> arg, check |-> FALSE]

ToChange(d, cols, fields) ==
    Where(fields, LAMBDA f : /\ f.field \in DOMAIN cols
                             /\ NeedsChange(Explained(d, cols[f.field]), f))
ToDrop(cols, fields) == DOMAIN cols \ FieldNames(fields)

\* CHANGE statements that may turn NULLs into something else are counted first.
Alter(d, cols, f) ==
    IF f.field \notin DOMAIN cols THEN Statement("ADD", f.field, f)
    ELSE [Statement("CHANGE", f.field, f) EXCEPT
             !.check = cols[f.field].null = "YES" /\ IsNotNull(f)]

Alters(d, cols, fields, allowDrop) ==
    LET touched == Where(fields, LAMBDA f : \/ f.field \notin DOMAIN cols
                                            \/ NeedsChange(Explained(d, cols[f.field]), f))
    IN  [i \in 1..Len(touched) |-> Alter(d, cols, touched[i])]
        \o (IF allowDrop THEN [i \in 1..Cardinality(ToDrop(cols, fields)) |->
                                  Statement("DROP", SetToSeq(ToDrop(cols, fields))[i], "")]
            ELSE <<>>)

\* The errno-1170 guard: indexes with a prefix-less reference to a column that is
\* about to become a text column.  A JSON accessor reads as one: it starts with the
\* column's name, and no parenthesis follows.
Guarded(indexes, columns) ==
    {n \in DOMAIN indexes :
        /\ ~indexes[n].fulltext
        /\ \E i \in 1..Len(indexes[n].cols) :
              LET e == indexes[n].cols[i]
              IN  e.col \in columns /\ (e.len = "" \/ IsJson(e))}
TextChanged(d, alters) ==
    {alters[i].name : i \in {j \in 1..Len(alters) :
        alters[j].op = "CHANGE" /\ FieldSpec(d, alters[j].arg).type \in {"longtext", "TEXT"}}}

\* New required columns the table rebuild has no value for.
RequiredMissing(cols, fields) ==
    {f \in {fields[i] : i \in 1..Len(fields)} :
        f.field \notin DOMAIN cols /\ IsNotNull(f) /\ f.default = "" /\ f.key # "PRI"}

-----------------------------------------------------------------------------
(* The index statements                                                    *)

\* A declared index: its columns, raw SQL, or a bare name (`form`).
IsIndex(spec) ==
    /\ spec = [form |-> spec.form, cols |-> spec.cols, fulltext |-> spec.fulltext,
               unique |-> spec.unique, where |-> spec.where, ts |-> spec.ts]
    /\ spec.fulltext \in BOOLEAN /\ spec.unique \in BOOLEAN
    /\ spec.cols \in Seq(ToSet(spec.cols)) /\ \A e \in ToSet(spec.cols) : IsEntry(e)

\* The index every table with an isDeleted column gets, under a name of its own
\* where index names are not scoped to their table.
WithIsDeletedIndex(d, fields, indexes, table) ==
    LET name == IF d = "mysql" THEN "isDeleted" ELSE table \o "_isDeleted"
        spec == [form |-> "cols", cols |-> <<Entry("isDeleted")>>, fulltext |-> FALSE,
                 unique |-> FALSE, where |-> "", ts |-> ""]
    IN  IF "isDeleted" \in FieldNames(fields) THEN Entered(indexes, name, spec) ELSE indexes

\* A list of columns whose first is the word fulltext is a fulltext index.
ReadSpec(spec) ==
    IF spec.form = "cols" /\ ~spec.fulltext /\ spec.cols # <<>> /\ Head(spec.cols).col = "fulltext"
    THEN [spec EXCEPT !.fulltext = TRUE, !.cols = Tail(@)] ELSE spec

Declared(d, fields, indexes, table) ==
    LET all == WithIsDeletedIndex(d, fields, indexes, table)
    IN  [n \in DOMAIN all |-> ReadSpec(all[n])]

\* resolvePhysicalIndexName, for names short enough to need no digest: a name that
\* starts with the table's is not prefixed again.
StartsWith(name, prefix) == Len(name) >= Len(prefix) /\ SubSeq(name, 1, Len(prefix)) = prefix
PhysicalName(d, name, table) ==
    IF Features[d].prefixIndexNames /\ ~StartsWith(name, table \o "_")
    THEN table \o "_" \o name ELSE name
PhysicalNames(d, indexes, table) == [n \in DOMAIN indexes |-> PhysicalName(d, n, table)]

TextColumns(d, spec, fields) ==
    IF d # "mysql" \/ spec.fulltext \/ spec.form = "raw" THEN {}
    ELSE {e.col : e \in {x \in ToSet(spec.cols) :
              ~IsJson(x) /\ x.col \in FieldNames(fields) /\ FieldNamed(fields, x.col).type = "longtext"}}

\* Index definitions that are left alone: a bare key name, a unique fulltext index,
\* one the dialect cannot express, and one over a column that is not defined.
IsSkipped(s, spec, fields) ==
    LET d == Dialect(s) IN
    \/ spec.form = "none" \/ spec.cols = <<>>
    \/ spec.fulltext /\ spec.unique
    \/ spec.form = "cols" /\ spec.fulltext /\ ~Features[d].fullText
    \/ spec.form = "cols" /\ \E e \in ToSet(spec.cols) :
          e.col \notin FieldNames(fields) \/ (IsJson(e) /\ ~JsonSupported(s))
    \/ spec.form = "cols" /\ spec.where # "" /\ spec.unique /\ ~Features[d].partialIndexes

\* What CREATE INDEX is asked for: a partial index degrades to a full one where
\* the dialect has none, a fulltext index drops lengths.
Resolved(d, spec) ==
    [cols     |-> [i \in 1..Len(spec.cols) |->
                      [spec.cols[i] EXCEPT !.len = IF spec.fulltext THEN "" ELSE @]],
     fulltext |-> spec.fulltext, unique |-> spec.unique /\ spec.form = "cols",
     where    |-> IF Features[d].partialIndexes THEN spec.where ELSE "",
     ts       |-> IF ~spec.fulltext THEN ""
                  ELSE IF spec.ts # "" /\ Features[d].textSearch # "" THEN spec.ts
                  ELSE Features[d].textSearch]

\* Mutant: the text length a dialect adds is not expected.
SignatureAsWritten(d, spec, fields) == Resolved(d, spec)

\* desiredSignature: the text length is implicit where none is written.
WithLengths(cols, texts) ==
    [i \in 1..Len(cols) |-> IF cols[i].len = "" /\ cols[i].col \in texts /\ ~IsJson(cols[i])
                            THEN [cols[i] EXCEPT !.len = "255"] ELSE cols[i]]
Signature(d, spec, fields) ==
    [Resolved(d, spec) EXCEPT !.cols = WithLengths(@, TextColumns(d, spec, fields))]

\* buildIndexSignature: what is compared of an index.  A JSON path is spelled from
\* the root, and a predicate without the parentheses Postgres puts around it.
NormalizedColumn(e) ==
    [e EXCEPT !.path = IF @ = "" \/ StartsWith(@, "$") THEN @ ELSE "$." \o @]
NormalizedColumns(cols) == [i \in 1..Len(cols) |-> NormalizedColumn(cols[i])]
NormalizedPredicate(p) == IF p # "" /\ StartsWith(p, "(") THEN SubSeq(p, 2, Len(p) - 1) ELSE p
Comparable(index) ==
    [index EXCEPT !.cols  = NormalizedColumns(@),
                  !.where = NormalizedPredicate(@),
                  !.ts    = IF index.fulltext THEN @ ELSE ""]

\* Mutant: an index that differs is only created.
ReplacedInPlace(physical, create) == <<create>>

\* An index that differs is dropped and created again.
Replaced(physical, create) == <<Statement("DROP INDEX", physical, ""), create>>

\* DROP and CREATE for one declared index, given the catalogue read beforehand.
\* A raw SQL index is created when its name is new and never compared.
IndexStatements(s, spec, physical, fields, existing) ==
    LET d      == Dialect(s)
        create == Statement("CREATE INDEX", physical,
                            CreatedIndex(d, Resolved(d, spec), TextColumns(d, spec, fields)))
    IN  IF IsSkipped(s, spec, fields) THEN <<>>
        ELSE IF physical \notin DOMAIN existing THEN <<create>>
        ELSE IF \/ spec.form = "raw"
                \/ Comparable(existing[physical]) = Comparable(Signature(d, spec, fields)) THEN <<>>
        ELSE Replaced(physical, create)

\* The whole index pass: the declared indexes, then the sweep of the others.
IndexPass(s, fields, indexes, table, existing) ==
    LET d        == Dialect(s)
        declared == Declared(d, fields, indexes, table)
        physical == PhysicalNames(d, declared, table)
        names    == SetToSeq(DOMAIN declared)
        stale    == SetToSeq(DOMAIN existing \ {physical[n] : n \in DOMAIN declared})
    IN  FlattenSeq([i \in 1..Len(names) |->
            IndexStatements(s, declared[names[i]], physical[names[i]], fields, existing)])
        \o [i \in 1..Len(stale) |-> Statement("DROP INDEX", stale[i], "")]

\* findMissingSchemaColumns
MissingColumns(cols, changed) == Where(changed, LAMBDA c : c.name \notin DOMAIN cols)
=============================================================================
