----------------------------- MODULE SchemaSync -----------------------------
(***************************************************************************)
(* bin/schema-sync and lib/sync-to-db.js against one table: the table is   *)
(* created, altered or (SQLite) rebuilt, its indexes are reconciled, and   *)
(* the added columns are verified, one statement at a time, while the      *)
(* application inserts rows, statements fail or are silently lost, and the *)
(* process may crash between any two of them.                              *)
(***************************************************************************)
EXTENDS SchemaDiff

CONSTANTS Schemas,    \* [definition name -> what toSchema makes of it]
          Families,   \* sets of definition names that are versions of one model
          TableName,
          Row,        \* rows the application may insert
          MaxSyncs, MaxFaults,
          MaxWork,    \* syncs and rows together
          None

ASSUME SyncAssumption ==
    /\ \A family \in Families : family \subseteq DOMAIN Schemas
    /\ \A n \in DOMAIN Schemas : /\ Schemas[n].fields \in Seq(ToSet(Schemas[n].fields))
                                /\ IsFiniteSet(DOMAIN Schemas[n].indexes)
                                /\ \A x \in DOMAIN Schemas[n].indexes : IsIndex(Schemas[n].indexes[x])
    /\ MaxSyncs \in Nat /\ MaxFaults \in Nat /\ MaxWork \in Nat /\ None \notin DOMAIN Schemas

VARIABLES
    site,     \* [server, allowDrop (YASS_ALLOW_DROP), family]
    table,    \* [exists, cols, idx, rows, trigger]; a row is the set of its non-NULL columns
    temp,     \* the table under construction of a rebuild
    saved,    \* the table as it stands on disk while a transaction is open
    open,     \* a transaction is open
    pc, schema, plan, changed, errors,
    faults,   \* failures, and refusals for a value, there may still be
    syncs,
    owed,     \* ghost: [row -> values written into columns every later definition declares]
    given,    \* ghost: [row -> values written]
    sync      \* ghost: of this sync [faulty, blind, issued, again]; and how the last one ended

vars == <<site, table, temp, saved, open, pc, schema, plan, changed, errors, faults, syncs,
          owed, given, sync>>
world == <<site, faults, owed, given, syncs>>

D == Dialect(site.server)

\* syncSchemaToDb: the id column takes the attributes of the dialect's primary keys.
KeyTypes == {"idKey", "uuidKey"}
WithId(d, fields) ==
    IF \E i \in 1..Len(fields) : fields[i].type \in KeyTypes
    THEN [i \in 1..Len(fields) |->
            IF fields[i].type \in KeyTypes THEN PrimaryKeys[d][fields[i].type] @@ fields[i]
            ELSE fields[i]]
    ELSE Append(fields, PrimaryKeys[d].idKey @@
                        [field |-> "id", type |-> "", null |-> "", default |-> "", key |-> "",
                         extra |-> "", auto |-> "", collation |-> "", isObject |-> FALSE])
AllFields  == [d \in {Dialect(s) : s \in Servers} |->
                 [n \in DOMAIN Schemas |-> WithId(d, Schemas[n].fields)]]
Fields     == AllFields[D][schema]
HasUuidKey == \E i \in 1..Len(Schemas[schema].fields) : Schemas[schema].fields[i].type = "uuidKey"

NoTable == [exists |-> FALSE, cols |-> <<>>, idx |-> <<>>, rows |-> <<>>, trigger |-> FALSE]
Durable == IF open THEN saved ELSE table

-----------------------------------------------------------------------------
(* The database server (external)                                          *)

Built(fields) ==
    [exists |-> TRUE, idx |-> <<>>, rows |-> <<>>, trigger |-> FALSE,
     cols   |-> [n \in FieldNames(fields) |-> NewColumn(site.server, FieldNamed(fields, n))]]

\* What MySQL asks of a text column in an ordinary index.
HasLength(e) == e.len # "" \/ IsJson(e)

\* A statement fits the tables, indexes and columns there are.
Fits(t, stmt) ==
    LET c == stmt.name IN
    CASE stmt.op = "CREATE TABLE" -> ~t.exists
      [] stmt.op = "ADD"          -> t.exists /\ c \notin DOMAIN t.cols
      [] stmt.op = "DROP"         -> c \in DOMAIN t.cols
      [] stmt.op = "CHANGE"       ->
            /\ c \in DOMAIN t.cols
            /\ D = "mysql" /\ stmt.arg.type = "longtext" =>
                  \A n \in DOMAIN t.idx : \A i \in 1..Len(t.idx[n].cols) :
                      LET e == t.idx[n].cols[i] IN e.col # c \/ HasLength(e) \/ t.idx[n].fulltext
      [] stmt.op = "DROP INDEX"   -> D = "mysql" => c \in DOMAIN t.idx
      [] stmt.op = "CREATE INDEX" ->
            /\ t.exists /\ c \notin DOMAIN t.idx
            /\ \A i \in 1..Len(stmt.arg.cols) :
                  LET e == stmt.arg.cols[i] IN
                  \/ D = "sqlite" /\ IsJson(e)
                  \/ /\ e.col \in DOMAIN t.cols
                     /\ D # "mysql" \/ t.cols[e.col].type # "longtext" \/ stmt.arg.fulltext
                        \/ HasLength(e)

Without(f, names) == [n \in DOMAIN f \ names |-> f[n]]
Over(idx, c) == {n \in DOMAIN idx : \E i \in 1..Len(idx[n].cols) : idx[n].cols[i].col = c}

\* A new column the rows there are have no value for: a required one without a
\* default, which only MySQL fills, or on SQLite one whose default is computed.
NeedsNoRows(f) ==
    IF IsNotNull(f) /\ f.default = "" THEN D # "mysql"
    ELSE D = "sqlite" /\ f.default = "CURRENT_TIMESTAMP"

\* ... and what stands in the table: a column is not made NOT NULL over NULLs unless
\* the server fills them in, nor dropped under an index on SQLite.
Suits(t, stmt) ==
    CASE stmt.op = "CHANGE" /\ IsNotNull(stmt.arg) ->
            D = "mysql" \/ \A r \in DOMAIN t.rows : stmt.name \in t.rows[r]
      [] stmt.op = "ADD"  -> NeedsNoRows(stmt.arg) => DOMAIN t.rows = {}
      [] stmt.op = "DROP" -> D = "sqlite" => Over(t.idx, stmt.name) = {}
      [] OTHER -> TRUE

\* Values are not modelled, and a server may refuse a statement for them.  One that is
\* given another type or collation may be cut short, meet its equal or have no cast
\* (which Postgres asks for where there is no value, too); two rows may be equal
\* under a unique index; what a JSON accessor is applied to may be no JSON.
Filled(t, names) == {r \in DOMAIN t.rows : names \subseteq t.rows[r]}
Retyped(t, f) ==
    LET old == t.cols[f.field]  new == ModifiedColumn(site.server, old, f) IN
    /\ new.type # old.type \/ new.collation # old.collation
    /\ D = "postgres" \/ Filled(t, {f.field}) # {}
MayRepeat(t, index) ==
    index.unique /\ \E q, r \in Filled(t, {e.col : e \in ToSet(index.cols)}) : q # r
MayBeNoJson(t, e) ==
    /\ IsJson(e)
    /\ \/ Filled(t, {e.col}) # {}
       \/ D = "postgres" /\ e.col \in DOMAIN t.cols /\ t.cols[e.col].type # "jsonb"
MayRefuse(t, stmt) ==
    CASE stmt.op = "CHANGE"       -> Retyped(t, stmt.arg)
      [] stmt.op = "CREATE INDEX" ->
            MayRepeat(t, stmt.arg) \/ \E e \in ToSet(stmt.arg.cols) : MayBeNoJson(t, e)
      [] stmt.op = "DROP"         ->   \* an index names it elsewhere, or stays unique without it
            D # "postgres" /\ DOMAIN t.idx # {}
      [] OTHER -> FALSE

Executed(t, stmt) ==
    LET c == stmt.name  f == stmt.arg IN
    CASE stmt.op = "CREATE TABLE" -> Built(f)
      [] stmt.op = "ADD" -> [t EXCEPT
            !.cols = Entered(@, c, NewColumn(site.server, f)),
            !.rows = [r \in DOMAIN @ |->
                IF IsNotNull(f) \/ FieldSpec(D, f).default # "" THEN @[r] \cup {c} ELSE @[r]]]
      [] stmt.op = "CHANGE" -> [t EXCEPT
            !.cols[c] = ModifiedColumn(site.server, @, f),
            !.rows = [r \in DOMAIN @ |-> IF IsNotNull(f) THEN @[r] \cup {c} ELSE @[r]]]
      [] stmt.op = "DROP" -> [t EXCEPT
            !.cols = Without(@, {c}), !.idx = Without(@, Over(@, c)),
            !.rows = [r \in DOMAIN @ |-> @[r] \ {c}]]
      [] stmt.op = "CREATE INDEX" -> [t EXCEPT !.idx = Entered(@, c, ReportedIndex(D, f))]
      [] stmt.op = "DROP INDEX"   -> [t EXCEPT !.idx = Without(@, {c})]

-----------------------------------------------------------------------------
Init ==
    /\ site \in [server : Servers, allowDrop : BOOLEAN, family : Families]
    /\ table = NoTable /\ temp = NoTable /\ saved = NoTable /\ open = FALSE
    /\ pc = "idle" /\ schema = None /\ plan = <<>> /\ changed = <<>> /\ errors = FALSE
    /\ faults = MaxFaults /\ syncs = 0
    /\ owed = <<>> /\ given = <<>>
    /\ sync = [faulty |-> FALSE, blind |-> FALSE, issued |-> FALSE, again |-> FALSE, clean |-> FALSE]

Working == syncs + Cardinality(DOMAIN given) < MaxWork

Fault   == /\ faults > 0 /\ faults' = faults - 1
Sound   == UNCHANGED faults

\* The end of a sync: bin/schema-sync counts what is in `errors`, then exits.
Ended(errs, note) ==
    /\ pc' = "idle" /\ errors' = errs /\ plan' = <<>> /\ changed' = <<>>
    /\ sync' = [note EXCEPT !.clean = ~errs]
Faulty == [sync EXCEPT !.faulty = TRUE]

\* After the verification, or with nothing to verify: attachIdTrigger.
ToTrigger(errs, note) ==
    IF HasUuidKey /\ Features[D].triggers /\ ~table.trigger
    THEN /\ pc' = "trigger" /\ errors' = errs /\ plan' = <<>> /\ sync' = note
         /\ UNCHANGED changed
    ELSE Ended(errs, note)

\* bin/schema-sync: convertFile, then syncSchemaToDb unless the table is external.
StartSync(n) ==
    /\ pc = "idle" /\ syncs < MaxSyncs /\ Working /\ n \in site.family
    /\ ~Schemas[n].legacyExternalSchema
    /\ pc' = "inspect" /\ schema' = n /\ syncs' = syncs + 1 /\ errors' = FALSE
    /\ sync' = [faulty |-> FALSE, blind |-> FALSE, issued |-> FALSE, clean |-> FALSE,
                again |-> schema = n /\ sync.clean /\ ~sync.faulty]
    /\ owed' = [r \in DOMAIN owed |-> owed[r] \cap FieldNames(AllFields[D][n])]
    /\ UNCHANGED <<site, table, temp, saved, open, plan, changed, faults, given>>

\* mysqlSchemaUpdate up to the first statement: no table, nothing to do, a plan of
\* ALTERs (after the errno-1170 guard has read the indexes), or a rebuild.
Adds(alters) == Where(alters, LAMBDA c : c.op \in {"ADD", "CHANGE"})

GuardedPlan(alters, indexes) ==
    LET drops == SetToSeq(Guarded(indexes, TextChanged(D, alters)))
    IN  [i \in 1..Len(drops) |-> Statement("DROP INDEX", drops[i], "")] \o alters

Compare ==
    LET cols    == table.cols
        alters  == Alters(D, cols, Fields, site.allowDrop)
        rebuild == ~Features[D].alterColumn /\ ToChange(D, cols, Fields) # <<>>
    IN  IF rebuild
        THEN /\ changed' = Where(alters, LAMBDA c : c.op = "ADD")
             /\ plan' = <<>>
             /\ IF RequiredMissing(cols, Fields) # {}
                THEN pc' = "columns" /\ errors' = TRUE
                ELSE pc' = "begin" /\ UNCHANGED errors
             /\ Sound /\ UNCHANGED sync
        ELSE /\ changed' = Adds(alters) /\ pc' = "columns" /\ UNCHANGED errors
             /\ \/ plan' = GuardedPlan(alters, table.idx) /\ Sound /\ UNCHANGED sync
                \/ /\ Fault /\ TextChanged(D, alters) # {}   \* the guard could not read them
                   /\ plan' = alters /\ sync' = Faulty

Inspect ==
    /\ pc = "inspect"
    /\ IF ~table.exists
       THEN /\ pc' = "columns" /\ plan' = <<Statement("CREATE TABLE", TableName, Fields)>>
            /\ Sound /\ UNCHANGED <<changed, errors, sync>>
       ELSE IF \E i \in 1..Len(Fields) :
                   /\ Fields[i].field \in DOMAIN table.cols
                   /\ ComparisonThrows(table.cols[Fields[i].field], Fields[i])
       THEN Sound /\ Ended(TRUE, sync)
       ELSE \/ Compare
            \/ Fault /\ ToTrigger(TRUE, Faulty)          \* Error inspecting table
    /\ UNCHANGED <<site, table, temp, saved, open, schema, syncs, owed, given>>

\* getNotNullBackfillDiagnostic: a CHANGE to NOT NULL is blocked by NULL rows, and
\* goes ahead uncounted when the count itself fails.
Preflight ==
    /\ pc = "columns" /\ plan # <<>> /\ Head(plan).check
    /\ \/ /\ Sound
          /\ IF \E r \in DOMAIN table.rows : Head(plan).name \notin table.rows[r]
             THEN plan' = Tail(plan) /\ errors' = TRUE
             ELSE plan' = [plan EXCEPT ![1].check = FALSE] /\ UNCHANGED errors
          /\ UNCHANGED sync
       \/ /\ Fault /\ sync' = Faulty
          /\ plan' = [plan EXCEPT ![1].check = FALSE] /\ UNCHANGED errors
    /\ UNCHANGED <<site, table, temp, saved, open, pc, schema, changed, syncs, owed, given>>

\* One ALTER, CREATE or DROP: a failure is recorded, or only logged when a lost
\* column is issued again, and the next statement runs all the same.  A server
\* without strict mode fills NULLs to make a column NOT NULL; one may lose an ADD.
Execute ==
    LET stmt  == Head(plan)
        fails == IF pc = "reissue" THEN errors ELSE TRUE
    IN
    /\ pc \in {"columns", "indexes", "reissue"} /\ plan # <<>> /\ (pc = "reissue" \/ ~stmt.check)
    /\ plan' = Tail(plan)
    /\ LET noted == [sync EXCEPT !.issued = TRUE] IN
       \/ /\ Fits(table, stmt) /\ Suits(table, stmt) /\ Sound
          /\ table' = Executed(table, stmt) /\ sync' = noted /\ UNCHANGED errors
       \/ /\ sync' = noted /\ errors' = fails /\ UNCHANGED table
          /\ \/ Sound /\ (~Fits(table, stmt) \/ ~Suits(table, stmt))
             \/ /\ Sound /\ stmt.op = "CHANGE" /\ IsNotNull(stmt.arg)
                /\ \E r \in DOMAIN table.rows : stmt.name \notin table.rows[r]
             \/ Fault /\ MayRefuse(table, stmt)
       \/ /\ Fault \/ (pc = "reissue" /\ Sound)     \* what lost the column may lose it again
          /\ sync' = [noted EXCEPT !.faulty = TRUE] /\ UNCHANGED table
          /\ \/ errors' = fails
             \/ D = "mysql" /\ stmt.op \in {"ADD", "CHANGE"} /\ UNCHANGED errors
    /\ UNCHANGED <<site, temp, saved, open, pc, schema, changed, syncs, owed, given>>

-----------------------------------------------------------------------------
(* rebuildTableForDialectDiffs                                             *)

\* BEGIN is outside the try: its failure leaves syncSchemaToDb as an exception.
Begin ==
    /\ pc = "begin"
    /\ \/ Sound /\ pc' = "temp" /\ saved' = table /\ open' = TRUE
          /\ sync' = [sync EXCEPT !.issued = TRUE] /\ UNCHANGED <<plan, changed, errors>>
       \/ Fault /\ Ended(TRUE, Faulty) /\ UNCHANGED <<saved, open>>
    /\ UNCHANGED <<site, table, temp, schema, syncs, owed, given>>

\* Mutant: columns that differ are not copied.
CopiedUnchanged == {c \in FieldNames(Fields) \cap DOMAIN table.cols :
                        ~NeedsChange(Explained(D, table.cols[c]), FieldNamed(Fields, c))}
Copied == FieldNames(Fields) \cap DOMAIN table.cols
CopyOf(t) == [temp EXCEPT !.rows = [r \in DOMAIN t.rows |->
                (t.rows[r] \cap Copied) \cup {c \in DOMAIN temp.cols \ Copied : temp.cols[c].default # ""}]]
CopyFits(copy) == \A r \in DOMAIN copy.rows : \A c \in DOMAIN copy.cols :
                      copy.cols[c].null = "NO" => c \in copy.rows[r]

\* One statement of the transaction, in its order.
RebuildStep ==
    /\ pc \in {"temp", "copy", "drop", "rename", "commit"}
    /\ CASE pc = "temp"   -> pc' = "copy" /\ temp' = Built(Fields) /\ UNCHANGED <<table, saved, open>>
         [] pc = "copy"   -> /\ CopyFits(CopyOf(table)) /\ pc' = "drop" /\ temp' = CopyOf(table)
                             /\ UNCHANGED <<table, saved, open>>
         [] pc = "drop"   -> pc' = "rename" /\ table' = NoTable /\ UNCHANGED <<temp, saved, open>>
         [] pc = "rename" -> pc' = "commit" /\ table' = temp /\ temp' = NoTable /\ UNCHANGED <<saved, open>>
         [] pc = "commit" -> pc' = "columns" /\ open' = FALSE /\ saved' = NoTable /\ UNCHANGED <<table, temp>>
    /\ UNCHANGED <<world, schema, plan, changed, errors, sync>>

\* The catch: ROLLBACK, DROP TABLE IF EXISTS of the temporary table, one error.
\* SQLite refuses ROLLBACK only where there is no transaction left, because it has
\* rolled back by itself; the code ignores that refusal, and the effect is the same.
Undo ==
    /\ pc \in {"temp", "copy", "drop", "rename", "commit"}
    /\ \/ Fault /\ sync' = Faulty
       \/ pc = "copy" /\ ~CopyFits(CopyOf(table)) /\ Sound /\ UNCHANGED sync
    /\ pc' = "columns" /\ table' = saved /\ temp' = NoTable /\ saved' = NoTable /\ open' = FALSE
    /\ errors' = TRUE
    /\ UNCHANGED <<site, schema, plan, changed, syncs, owed, given>>

-----------------------------------------------------------------------------
\* The catalogue's indexes are read once, after the columns; without them the
\* update returns early, and nothing is verified.
ReadIndexes ==
    /\ pc = "columns" /\ plan = <<>>
    /\ \/ /\ D = "mysql" => table.exists
          /\ plan' = IndexPass(site.server, Fields, Schemas[schema].indexes, TableName, table.idx)
          /\ pc' = "indexes" /\ Sound /\ UNCHANGED <<changed, errors, sync>>
       \/ Fault /\ ToTrigger(TRUE, Faulty)
       \/ D = "mysql" /\ ~table.exists /\ Sound /\ ToTrigger(TRUE, sync)
    /\ UNCHANGED <<site, table, temp, saved, open, schema, syncs, owed, given>>

\* verifyAndHealColumns: the columns are read again, on a connection of its own or
\* on the shared one, and what is missing is issued again; a read that fails
\* leaves no verdict.
Verify ==
    /\ pc = "indexes" /\ plan = <<>>
    /\ LET missing == MissingColumns(table.cols, changed) IN
       \/ /\ Sound /\ missing # <<>>
          /\ pc' = "reissue" /\ plan' = missing /\ UNCHANGED <<changed, errors, sync>>
       \/ Sound /\ missing = <<>> /\ ToTrigger(errors, sync)
       \/ Fault /\ changed # <<>> /\ ToTrigger(errors, [Faulty EXCEPT !.blind = TRUE])
    /\ UNCHANGED <<site, table, temp, saved, open, schema, syncs, owed, given>>

\* Mutant: the second reading's verdict is not taken.
VerifyAgainUnread ==
    /\ pc = "reissue" /\ plan = <<>> /\ Sound /\ ToTrigger(errors, sync)
    /\ UNCHANGED <<site, table, temp, saved, open, schema, syncs, owed, given>>

VerifyAgain ==
    /\ pc = "reissue" /\ plan = <<>>
    /\ \/ Sound /\ ToTrigger(errors \/ MissingColumns(table.cols, changed) # <<>>, sync)
       \/ Fault /\ ToTrigger(errors, [Faulty EXCEPT !.blind = TRUE])
    /\ UNCHANGED <<site, table, temp, saved, open, schema, syncs, owed, given>>

\* uploadIdTrigger; its queries and its mysql command line throw when they fail.
AttachTrigger ==
    /\ pc = "trigger"
    /\ \/ Sound /\ Ended(errors, sync) /\ table' = [table EXCEPT !.trigger = table.exists]
       \/ Fault /\ Ended(TRUE, Faulty) /\ UNCHANGED table
    /\ UNCHANGED <<site, temp, saved, open, schema, syncs, owed, given>>

-----------------------------------------------------------------------------
\* The process dies: the server rolls the open transaction back.
Crash ==
    /\ pc # "idle" /\ Fault
    /\ table' = Durable /\ temp' = NoTable /\ saved' = NoTable /\ open' = FALSE
    /\ Ended(TRUE, Faulty)
    /\ UNCHANGED <<site, schema, syncs, owed, given>>

\* The application inserts a row with every column, or with those it must give.
\* SQLite makes it wait for a transaction that has written.
Insert(r, full) ==
    /\ table.exists /\ r \notin DOMAIN table.rows /\ (open => pc = "temp") /\ Working
    /\ LET written == IF full THEN DOMAIN table.cols
                      ELSE {c \in DOMAIN table.cols : table.cols[c].null = "NO" \/ table.cols[c].key = "PRI"}
           stored  == written \cup {c \in DOMAIN table.cols : table.cols[c].default # ""}
       IN  /\ table' = [table EXCEPT !.rows = Entered(@, r, stored)]
           /\ saved' = IF open THEN table' ELSE saved
           /\ given' = Entered(given, r, written)
           /\ owed'  = Entered(owed, r, written \cap FieldNames(Fields))
    /\ UNCHANGED <<site, temp, open, pc, schema, plan, changed, errors, faults, syncs, sync>>

Step == Inspect \/ Preflight \/ Execute \/ Begin \/ RebuildStep \/ Undo
        \/ ReadIndexes \/ Verify \/ VerifyAgain \/ AttachTrigger

Next == \/ \E n \in DOMAIN Schemas : StartSync(n)
        \/ Step
        \/ Crash
        \/ \E r \in Row, full \in BOOLEAN : Insert(r, full)

Spec == Init /\ [][Next]_vars

-----------------------------------------------------------------------------
(* Correctness                                                             *)

\* Whatever happens to a sync - a refused statement, a failed or an abandoned
\* rebuild, a crash between any two statements - the table on disk keeps every
\* row, and in it every value written to a column each definition since declares.
DeclaredDataSurvives ==
    \A r \in DOMAIN owed : r \in DOMAIN Durable.rows /\ owed[r] \subseteq Durable.rows[r]

\* Without YASS_ALLOW_DROP a sync keeps the values of columns the definition no
\* longer declares, too.
UndeclaredDataIsKept ==
    ~site.allowDrop => \A r \in DOMAIN given : r \in DOMAIN Durable.rows => given[r] \subseteq Durable.rows[r]

\* An index is the declared one: unique, fulltext, partial and over the columns as
\* it is declared.  JSON accessors are left aside: SQLite reports them rewritten.
Same(d, existing, spec) ==
    /\ existing.unique = spec.unique /\ existing.fulltext = spec.fulltext
    /\ NormalizedPredicate(existing.where) = IF Features[d].partialIndexes THEN spec.where ELSE ""
    /\ \/ \E e \in ToSet(spec.cols) : IsJson(e)
       \/ [i \in 1..Len(existing.cols) |-> existing.cols[i].col] = [i \in 1..Len(spec.cols) |-> spec.cols[i].col]
Clean == pc = "idle" /\ schema # None /\ sync.clean

Declarations == Declared(D, Fields, Schemas[schema].indexes, TableName)
Physical     == PhysicalNames(D, Declarations, TableName)
Created      == {n \in DOMAIN Declarations : ~IsSkipped(site.server, Declarations[n], Fields)}

ColumnsArePresent == FieldNames(Fields) \subseteq DOMAIN Durable.cols
IndexesArePresent == \A n \in Created : Physical[n] \in DOMAIN Durable.idx
IndexesAreTheSame == \A n \in Created : Declarations[n].form = "cols" =>
                         Same(D, Durable.idx[Physical[n]], Declarations[n])
NoOtherIndex      == DOMAIN Durable.idx \subseteq {Physical[n] : n \in DOMAIN Declarations}
TriggerIsAttached == HasUuidKey /\ D = "mysql" => Durable.trigger

\* Definitions whose indexes have names of their own on every server, and predicates
\* that are written as they are compared.
PlainDefinitions ==
    \A server \in Servers, name \in DOMAIN Schemas :
        LET d        == Dialect(server)
            declared == Declared(d, AllFields[d][name], Schemas[name].indexes, TableName)
            physical == PhysicalNames(d, declared, TableName)
        IN  \A m \in DOMAIN declared :
               /\ \A n \in DOMAIN declared : physical[m] = physical[n] => m = n
               /\ LET w == declared[m].where
                  IN  NormalizedPredicate(w) = w /\ NormalizedPredicate(Parenthesized(w)) = w

\* Definitions that name each field once; whose versions have each other's primary
\* keys; whose raw SQL indexes are over columns they declare, and on MySQL over no
\* text column without a length; and whose defaults do not vanish when written out.
\* The last conjunct leaves out what the server above refuses nothing for: UNIQUE
\* columns, required dates (MySQL has no value to give one) and a key of another type.
SoundDefinitions ==
    \A family \in Families, name \in DOMAIN Schemas, server \in Servers :
        LET d        == Dialect(server)
            fields   == AllFields[d][name]
            declared == Declared(d, fields, Schemas[name].indexes, TableName)
        IN  /\ \A i, j \in 1..Len(fields) : fields[i].field = fields[j].field => i = j
            /\ \A i \in 1..Len(fields) :
                  /\ fields[i].default # "" => FieldSpec("sqlite", fields[i]).default # ""
                  /\ fields[i].key = "PRI" /\ name \in family =>
                        \A other \in family : fields[i].field \in FieldNames(AllFields[d][other])
            /\ \A n \in DOMAIN declared : declared[n].form # "cols" /\ ~IsSkipped(server, declared[n], fields) =>
                  \A k \in 1..Len(declared[n].cols) :
                     LET e == declared[n].cols[k] IN
                     /\ e.col \in FieldNames(fields)
                     /\ d = "mysql" => \/ declared[n].fulltext \/ HasLength(e)
                                       \/ FieldNamed(fields, e.col).type # "longtext"
            /\ \A i \in 1..Len(fields) :
                  /\ fields[i].key # "UNI"
                  /\ IsNotNull(fields[i]) /\ fields[i].default = "" => fields[i].type \notin {"date", "datetime"}
                  /\ fields[i].key = "PRI" /\ name \in family =>
                        \A other \in family : FieldNamed(AllFields[d][other], fields[i].field).type = fields[i].type

\* A sync that reports no error (and could read back what it added) leaves a table
\* on disk with every column of the definition, an index over the declared columns
\* for every index that is not skipped, no other index, and the id trigger.
CleanSyncIsComplete ==
    Clean /\ ~sync.blind => /\ ColumnsArePresent /\ IndexesArePresent /\ IndexesAreTheSame
                           /\ NoOtherIndex /\ TriggerIsAttached

\* What syncs of an unchanged definition are known to repeat for ever, by dialect.
Settles(d, f) ==
    /\ \/ f.default = ""
       \/ d = "postgres" /\ f.default = "gen_random_uuid()"
       \/ f.default = "#0" /\ f.type \in {"int(1)", "integer", "int"}
       \/ d = "mysql" /\ ~IsNumber(f.default) /\ f.type = "varchar"
    /\ d = "postgres" => f.type # "time" /\ f.collation = ""
    /\ f.key # "UNI"
IndexSettles(d, spec, fields) ==
    \A e \in ToSet(spec.cols) :
        /\ e.dir # "ASC"
        /\ e.len # "" => d = "mysql" /\ e.col \notin TextColumns(d, spec, fields)
        /\ e.dir = "DESC" => ~spec.fulltext /\ e.col \notin TextColumns(d, spec, fields)
        /\ IsJson(e) /\ d = "postgres" => Len(spec.cols) = 1

\* On MySQL and Postgres a sync of the definition the table was last synced to
\* issues nothing: every spelling the catalogue gives back is recognised.
ResyncIsQuiet ==
    (pc = "idle" /\ sync.clean /\ sync.again /\ ~sync.faulty /\ D # "sqlite"
       /\ (\A i \in 1..Len(Fields) : Settles(D, Fields[i]))
       /\ (\A n \in DOMAIN Schemas[schema].indexes : IndexSettles(D, Schemas[schema].indexes[n], Fields)))
    => ~sync.issued

\* What stands in the way of a column or an index for as long as the table is left
\* so: rows a new column has no value for, a comparison that throws, NULLs or values
\* the definition has no place for, a rebuild a new required column forbids, and rows
\* that may be equal or no JSON under an index.
Required(f) == IsNotNull(f) /\ f.default = "" /\ f.key # "PRI"
RebuildIsBarred(t, f) ==
    /\ D = "sqlite" /\ NeedsChange(Explained(D, t.cols[f.field]), f)
    /\ \E i \in 1..Len(Fields) : Required(Fields[i])
ColumnCause(t, f) ==
    IF f.field \notin DOMAIN t.cols THEN NeedsNoRows(f) /\ DOMAIN t.rows # {}
    ELSE \/ ComparisonThrows(t.cols[f.field], f)
         \/ IsNotNull(f) /\ \E r \in DOMAIN t.rows : f.field \notin t.rows[r]
         \/ Retyped(t, f)
         \/ RebuildIsBarred(t, f)
Wanted(n) == CreatedIndex(D, Resolved(D, Declarations[n]), TextColumns(D, Declarations[n], Fields))
IndexCause(t, n) ==
    /\ Physical[n] \notin DOMAIN t.idx
    /\ MayRepeat(t, Wanted(n)) \/ \E e \in ToSet(Wanted(n).cols) : MayBeNoJson(t, e)

\* A sync in which nothing failed by accident reports an error only for what the table
\* still shows when it has ended: one of these causes, or a column that it was to
\* drop and an index held.  Whatever an earlier sync left half done - a dropped
\* index, half of the ALTERs, an abandoned rebuild - never stops a later one: no
\* index that is not there is dropped, none is created twice, over a missing column,
\* or over a text column without a length.
ErrorsHaveACause ==
    (pc = "idle" /\ schema # None /\ errors /\ ~sync.faulty) =>
        \/ \E i \in 1..Len(Fields) : ColumnCause(Durable, Fields[i])
        \/ \E n \in Created : IndexCause(Durable, n)
        \/ site.allowDrop /\ D # "postgres" /\ ~(DOMAIN Durable.cols \subseteq FieldNames(Fields))
=============================================================================
