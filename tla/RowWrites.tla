------------------------------ MODULE RowWrites ------------------------------
(***************************************************************************)
(* The row-writing operations of a dbh handle (lib/dbh.js: create,         *)
(* findOrCreate with patchIf, createIgnore, upsert, destroy) and the       *)
(* model-level create and findOrCreate that repeat them when the           *)
(* connection is lost (lib/obj.js, _runOn), and inflate the row and call   *)
(* the hooks afterwards, outside the transaction.                          *)
(*                                                                         *)
(* Every call is about the same identifying columns, so the table is the   *)
(* set of rows that match them.  A call keeps one `fields` object for all  *)
(* its attempts, and create() writes the generated id into it.  The        *)
(* database is external: "mysql" and "sqlite" lock, "postgres" lets        *)
(* serializable transactions run on snapshots and refuses one of two that  *)
(* depend on each other, but does not protect them from other statements.  *)
(***************************************************************************)
EXTENDS Naturals, FiniteSets

CONSTANTS
    Finders,          \* callers of Model.findOrCreate(fields, { val: "patched" })
    Inliners,         \* the same with useTransaction: false
    Creators,         \* callers of Model.create(data)
    Ignorers,         \* callers of dbh.createIgnore(table, fields)
    Upserters,        \* callers of dbh.upsert(table, fields, { onDuplicate })
    Destroyers,       \* callers of dbh.destroy(table, id) for some row
    Servers,          \* subset of {"mysql", "postgres", "sqlite"}
    Setups,           \* who calls, and whether the columns have a UNIQUE constraint
    UuidIds,          \* ids are generated by the program, not by the server
    ConflictColumns,  \* the upserters that pass conflictColumns
    MaxRetries,       \* maxRetries of findOrCreate's transaction
    MaxIds,           \* bound: ids the server assigns to one call, which has two attempts
    MaxFaults,        \* bound: failed patches and hooks, and lost connections
    None

Callers == Finders \cup Inliners \cup Creators \cup Ignorers \cup Upserters \cup Destroyers
Ids == Callers \X (1 .. MaxIds)
Rows == [id : Ids, val : {"plain", "patched"}]

ASSUME ServersAssumption == Servers \subseteq {"mysql", "postgres", "sqlite"}
ASSUME SetupsAssumption == Setups \subseteq [calls : SUBSET Callers, unique : BOOLEAN]
ASSUME FlagsAssumption == UuidIds \in BOOLEAN /\ ConflictColumns \subseteq Upserters
ASSUME BoundsAssumption == {MaxRetries, MaxIds, MaxFaults} \subseteq Nat /\ MaxIds >= 2
ASSUME KindsAssumption ==
    /\ Finders \cap (Inliners \cup Creators \cup Ignorers \cup Upserters \cup Destroyers) = {}
    /\ Inliners \cap (Creators \cup Ignorers \cup Upserters \cup Destroyers) = {}
    /\ Creators \cap (Ignorers \cup Upserters \cup Destroyers) = {}
    /\ Ignorers \cap (Upserters \cup Destroyers) = {}
    /\ Upserters \cap Destroyers = {}
ASSUME NoneAssumption == None \notin Ids \cup Rows

VARIABLES
    unique,      \* whether the identifying columns have a UNIQUE constraint
    server,      \* which database answers
    table,       \* committed rows
    pc,          \* where each call stands
    fieldsId,    \* fields[idField]
    attempt,     \* of findOrCreate's transaction
    reconnected, \* retryIfConnectionLost is on its second attempt
    view, work,  \* a finder's transaction: the rows it started from, and as it sees them
    ref,         \* the row a call has in hand, and finally returns
    wasCreated,  \* execute()'s local variable, later on the row's metadata
    legacy,      \* conn.findOrCreate.wasCreated, shared by all calls
    told,        \* what Model.findOrCreate reads of it, and tells the hooks
    stale,       \* postgres: a transaction this one depends on has committed
    everRows,    \* history: rows ever committed
    answerLost,  \* history: calls whose effect was not acknowledged
    faults

tx   == <<attempt, view, work, stale>>
meta == <<wasCreated, legacy, told>>
hist == <<everRows, answerLost>>
base == <<server, unique>>
vars == <<base, table, pc, fieldsId, reconnected, ref, tx, meta, hist, faults>>

Init ==
    /\ server \in Servers
    /\ table = {}
    /\ \E setup \in Setups :
         /\ unique = setup.unique
         /\ pc = [t \in Callers |-> IF t \in setup.calls THEN "new" ELSE "absent"]
    /\ fieldsId = [t \in Callers |-> None]
    /\ attempt = [t \in Callers |-> 0]
    /\ reconnected = [t \in Callers |-> FALSE]
    /\ view = [t \in Callers |-> {}]
    /\ work = [t \in Callers |-> {}]
    /\ ref = [t \in Callers |-> None]
    /\ wasCreated = [t \in Callers |-> FALSE]
    /\ legacy = FALSE
    /\ told = [t \in Callers |-> FALSE]
    /\ stale = [t \in Callers |-> FALSE]
    /\ everRows = {}
    /\ answerLost = {}
    /\ faults = 0

Goto(t, phase) == pc' = [pc EXCEPT ![t] = phase]
Hold(t, row) == ref' = [ref EXCEPT ![t] = row]
Fault == faults < MaxFaults /\ faults' = faults + 1
SetTable(rows) == table' = rows /\ everRows' = everRows \cup rows

-----------------------------------------------------------------------------
(***************************************************************************)
(* The server.                                                             *)
(***************************************************************************)
InTransaction(t) == t \in Finders /\ pc[t] \in {"create", "patch", "commit"}
HasWritten(t) == work[t] # view[t]
Others(t) == Finders \ {t}

\* A statement outside any transaction waits for the locks of those that lock.
MayWrite == server = "postgres" \/ \A u \in Finders : ~InTransaction(u)

\* SERIALIZABLE reads lock shared on mysql; BEGIN IMMEDIATE locks sqlite.
MayRead(t) ==
    CASE server = "postgres" -> TRUE
      [] server = "mysql"    -> \A u \in Others(t) : InTransaction(u) => ~HasWritten(u)
      [] server = "sqlite"   -> \A u \in Others(t) : ~InTransaction(u)

\* A row is written once no one else holds a shared lock on it.
MayWriteIn(t) ==
    server = "mysql" => \A u \in Others(t) : ~InTransaction(u)

\* A deadlock of two readers about to write, or a serialization failure.
Conflicts(t) ==
    CASE server = "postgres" -> stale[t]
      [] server = "mysql"    -> \E u \in Others(t) : InTransaction(u)
      [] OTHER               -> FALSE

\* Mutant: the transaction does not ask for its serializable isolation level.
MustConflictNever(t) == FALSE

\* Nothing may be committed that depends on what another one has overwritten.
MustConflict(t) == server = "postgres" /\ stale[t] /\ HasWritten(t)

Applied(t) == (table \ (view[t] \ work[t])) \cup (work[t] \ view[t])

\* No primary key or UNIQUE constraint stands against a new row with this id.
Admits(rows, id) ==
    /\ unique => rows = {}
    /\ \A r \in rows : r.id # id

-----------------------------------------------------------------------------
(***************************************************************************)
(* create(): the id of the row to insert.  A program-generated id is put   *)
(* into `fields` before the INSERT; a server-assigned one, after it.       *)
(* InsertedBy: the ids of the rows a call has ever made durable.           *)
(***************************************************************************)
InsertedBy(t) == {r.id : r \in {s \in everRows : s.id[1] = t}}

NewId(t) ==
    IF fieldsId[t] # None THEN fieldsId[t] ELSE <<t, Cardinality(InsertedBy(t)) + 1>>

NewRow(t) == [id |-> NewId(t), val |-> "plain"]

IdIfGenerated(t) ==
    fieldsId' = IF UuidIds THEN [fieldsId EXCEPT ![t] = NewId(t)] ELSE fieldsId

IdOfRow(t) == fieldsId' = [fieldsId EXCEPT ![t] = NewId(t)]

\* Forgetting the transaction: after its end, however it came.
Forget(t) ==
    /\ view' = [view EXCEPT ![t] = {}]
    /\ work' = [work EXCEPT ![t] = {}]
    /\ stale' = [stale EXCEPT ![t] = FALSE]

Reject(t) ==
    /\ Forget(t)
    /\ Goto(t, "rejected")
    /\ UNCHANGED attempt

(***************************************************************************)
(* executeAttempt after a conflict: the callback again, with the same      *)
(* `fields`.                                                               *)
(***************************************************************************)
RetryOrReject(t) ==
    IF attempt[t] < MaxRetries
    THEN /\ Forget(t)
         /\ attempt' = [attempt EXCEPT ![t] = @ + 1]
         /\ Goto(t, "new")
    ELSE Reject(t)

(***************************************************************************)
(* retryIfConnectionLost around the whole model call: once more, with the  *)
(* same `fields`.                                                          *)
(***************************************************************************)
Reconnect(t) ==
    IF reconnected[t]
    THEN Reject(t) /\ UNCHANGED reconnected
    ELSE /\ reconnected' = [reconnected EXCEPT ![t] = TRUE]
         /\ Forget(t)
         /\ attempt' = [attempt EXCEPT ![t] = 0]
         /\ Goto(t, "new")

-----------------------------------------------------------------------------
(***************************************************************************)
(* findOrCreate: BEGIN and the search, by every key of `fields`.           *)
(***************************************************************************)
Matches(t) == {r \in table : fieldsId[t] \in {None, r.id}}

Search(t) ==
    /\ t \in Finders /\ pc[t] = "new" /\ MayRead(t)
    /\ view' = [view EXCEPT ![t] = table]
    /\ work' = [work EXCEPT ![t] = table]
    /\ wasCreated' = [wasCreated EXCEPT ![t] = FALSE]
    /\ IF Matches(t) = {}
       THEN Goto(t, "create") /\ UNCHANGED ref
       ELSE Goto(t, "patch") /\ \E r \in Matches(t) : Hold(t, r)
    /\ UNCHANGED <<base, table, fieldsId, reconnected, attempt, stale, legacy, told,
                   hist, faults>>

\* A lock held by another process: SQLITE_BUSY, or MySQL's lock wait timeout.
SearchConflicts(t) ==
    /\ t \in Finders /\ pc[t] = "new" /\ server # "postgres" /\ ~MayRead(t)
    /\ RetryOrReject(t)
    /\ UNCHANGED <<base, table, fieldsId, reconnected, ref, meta, hist, faults>>

\* Mutant: the callback creates through the parent handle, not through tx.
CreateOnParent(t) ==
    /\ t \in Finders /\ pc[t] = "create" /\ MayWriteIn(t)
    /\ Admits(table, NewId(t))
    /\ IdOfRow(t)
    /\ SetTable(table \cup {NewRow(t)})
    /\ view' = [view EXCEPT ![t] = @ \cup {NewRow(t)}]
    /\ work' = [work EXCEPT ![t] = @ \cup {NewRow(t)}]
    /\ Hold(t, NewRow(t))
    /\ wasCreated' = [wasCreated EXCEPT ![t] = TRUE]
    /\ Goto(t, "patch")
    /\ UNCHANGED <<base, reconnected, attempt, stale, legacy, told, answerLost, faults>>

\* Not found: create() on the transaction's handle.
Create(t) ==
    /\ t \in Finders /\ pc[t] = "create" /\ MayWriteIn(t)
    /\ Admits(Applied(t), NewId(t))
    /\ IdOfRow(t)
    /\ work' = [work EXCEPT ![t] = @ \cup {NewRow(t)}]
    /\ Hold(t, NewRow(t))
    /\ wasCreated' = [wasCreated EXCEPT ![t] = TRUE]
    /\ Goto(t, "patch")
    /\ UNCHANGED <<base, table, reconnected, attempt, view, stale, legacy, told,
                   hist, faults>>

CreateConflicts(t) ==
    /\ t \in Finders /\ pc[t] = "create" /\ Conflicts(t)
    /\ IdIfGenerated(t)
    /\ RetryOrReject(t)
    /\ UNCHANGED <<base, table, reconnected, ref, meta, hist, faults>>

CreateDuplicate(t) ==
    /\ t \in Finders /\ pc[t] = "create"
    /\ ~Admits(Applied(t), NewId(t))
    /\ IdIfGenerated(t)
    /\ Reject(t)
    /\ UNCHANGED <<base, table, reconnected, ref, meta, hist, faults>>

Patched(t) == [ref[t] EXCEPT !.val = "patched"]

(***************************************************************************)
(* patchIf on the row in hand, and the metadata: on the row itself, and on *)
(* the function all calls share.                                           *)
(***************************************************************************)
Patch(t) ==
    /\ t \in Finders /\ pc[t] = "patch"
    /\ Patched(t) # ref[t] => MayWriteIn(t)
    /\ work' = [work EXCEPT ![t] = (@ \ {ref[t]}) \cup {Patched(t)}]
    /\ Hold(t, Patched(t))
    /\ legacy' = wasCreated[t]
    /\ Goto(t, "commit")
    /\ UNCHANGED <<base, table, fieldsId, reconnected, attempt, view, stale,
                   wasCreated, told, hist, faults>>

PatchConflicts(t) ==
    /\ t \in Finders /\ pc[t] = "patch" /\ ref[t].val # "patched"
    /\ Conflicts(t) \/ (server = "postgres" /\ ref[t] \in view[t] \ table)
    /\ RetryOrReject(t)
    /\ UNCHANGED <<base, table, fieldsId, reconnected, ref, meta, hist, faults>>

\* The UPDATE is refused for a reason of its own.
PatchFails(t) ==
    /\ t \in Finders /\ pc[t] = "patch" /\ ref[t].val # "patched" /\ Fault
    /\ Reject(t)
    /\ UNCHANGED <<base, table, fieldsId, reconnected, ref, meta, hist>>

\* Mutant: the model reads the metadata from the shared function.
ToldByLegacy(t) == legacy

\* Model.findOrCreate reads the metadata from the row it was given.
Told(t) == wasCreated[t]

\* A row this transaction patches must still be what it was.
Overtaken(t) == \E r \in view[t] \ work[t] : r \notin table

Crowded(t) == unique /\ HasWritten(t) /\ Cardinality(Applied(t)) > 1

Refused(t) == MustConflict(t) \/ Overtaken(t) \/ Crowded(t)

Commits(t) ==
    /\ SetTable(Applied(t))
    /\ stale' = [u \in Callers |->
                   u # t /\ (stale[u] \/ (InTransaction(u) /\ HasWritten(t)))]
    /\ view' = [view EXCEPT ![t] = {}]
    /\ work' = [work EXCEPT ![t] = {}]

Commit(t) ==
    /\ t \in Finders /\ pc[t] = "commit" /\ ~Refused(t)
    /\ Commits(t)
    /\ told' = [told EXCEPT ![t] = Told(t)]
    /\ Goto(t, "inflate")
    /\ UNCHANGED <<base, fieldsId, reconnected, ref, attempt, wasCreated, legacy,
                   answerLost, faults>>

\* A serialization failure, or an error that is none.
CommitRefused(t) ==
    /\ t \in Finders /\ pc[t] = "commit" /\ Refused(t)
    /\ \/ (MustConflict(t) \/ Overtaken(t)) /\ RetryOrReject(t)
       \/ Crowded(t) /\ Reject(t)
    /\ UNCHANGED <<base, table, fieldsId, reconnected, ref, meta, hist, faults>>

\* The connection is lost; the server rolls the transaction back.
FinderLost(t) ==
    /\ InTransaction(t) /\ Fault
    /\ IF pc[t] = "create" THEN IdIfGenerated(t) ELSE UNCHANGED fieldsId
    /\ Reconnect(t)
    /\ UNCHANGED <<base, table, ref, meta, hist>>

\* The connection is lost after COMMIT took effect.
CommitUnanswered(t) ==
    /\ t \in Finders /\ pc[t] = "commit" /\ ~Refused(t) /\ Fault
    /\ Commits(t)
    /\ answerLost' = answerLost \cup {t}
    /\ reconnected' = [reconnected EXCEPT ![t] = TRUE]
    /\ attempt' = [attempt EXCEPT ![t] = 0]
    /\ Goto(t, IF reconnected[t] THEN "rejected" ELSE "new")
    /\ UNCHANGED <<base, fieldsId, ref, meta>>

-----------------------------------------------------------------------------
(***************************************************************************)
(* findOrCreate without a transaction: search, create() and patchIf() one  *)
(* by one on the ordinary handle.                                          *)
(***************************************************************************)
SearchInline(t) ==
    /\ t \in Inliners /\ pc[t] = "new"
    /\ wasCreated' = [wasCreated EXCEPT ![t] = FALSE]
    /\ IF Matches(t) = {}
       THEN Goto(t, "insert") /\ UNCHANGED ref
       ELSE Goto(t, "update") /\ \E r \in Matches(t) : Hold(t, r)
    /\ UNCHANGED <<base, table, fieldsId, reconnected, tx, legacy, told, hist, faults>>

\* patchIf finds nothing to change.
NothingToUpdate(t) ==
    /\ t \in Inliners /\ pc[t] = "update" /\ Patched(t) = ref[t]
    /\ legacy' = wasCreated[t]
    /\ told' = [told EXCEPT ![t] = Told(t)]
    /\ Goto(t, "inflate")
    /\ UNCHANGED <<base, table, fieldsId, reconnected, ref, tx, wasCreated, hist, faults>>

\* The UPDATE by id, of whatever row has it now.
UpdateRow(t) ==
    SetTable({IF r.id = ref[t].id THEN [r EXCEPT !.val = "patched"] ELSE r : r \in table})

Update(t) ==
    /\ t \in Inliners /\ pc[t] = "update" /\ Patched(t) # ref[t] /\ MayWrite
    /\ UpdateRow(t)
    /\ Goto(t, "updated")
    /\ UNCHANGED <<base, fieldsId, reconnected, ref, tx, meta, answerLost, faults>>

UpdateFails(t) ==
    /\ t \in Inliners /\ pc[t] = "update" /\ Patched(t) # ref[t] /\ Fault
    /\ Goto(t, "rejected")
    /\ UNCHANGED <<base, table, fieldsId, reconnected, ref, tx, meta, hist>>

Current(t) == {r \in table : r.id = ref[t].id}

\* patch() reads the row back; the metadata cannot be put on one that is gone.
UpdatedBack(t) ==
    /\ t \in Inliners /\ pc[t] = "updated"
    /\ legacy' = wasCreated[t]
    /\ IF Current(t) = {}
       THEN Goto(t, "rejected") /\ UNCHANGED <<ref, told>>
       ELSE /\ \E r \in Current(t) : Hold(t, r)
            /\ told' = [told EXCEPT ![t] = Told(t)]
            /\ Goto(t, "inflate")
    /\ UNCHANGED <<base, table, fieldsId, reconnected, tx, wasCreated, hist, faults>>

\* The connection is lost at a SELECT, or before or after the UPDATE took effect.
InlineLost(t) ==
    /\ t \in Inliners /\ pc[t] \in {"new", "update", "updated"} /\ Fault
    /\ \/ UNCHANGED <<table, everRows>>
       \/ pc[t] = "update" /\ Patched(t) # ref[t] /\ MayWrite /\ UpdateRow(t)
    /\ answerLost' = IF wasCreated[t] THEN answerLost \cup {t} ELSE answerLost
    /\ Reconnect(t)
    /\ UNCHANGED <<base, fieldsId, ref, meta>>

-----------------------------------------------------------------------------
(***************************************************************************)
(* create() outside a transaction, in Model.create or in findOrCreate:     *)
(* INSERT, then the SELECT that reads the row back.                        *)
(***************************************************************************)
Inserting(t) ==
    \/ t \in Creators /\ pc[t] = "new"
    \/ t \in Inliners /\ pc[t] = "insert"

Insert(t) ==
    /\ Inserting(t) /\ MayWrite
    /\ IF ~Admits(table, NewId(t))
       THEN /\ IdIfGenerated(t)
            /\ Goto(t, "rejected")
            /\ UNCHANGED <<table, everRows>>
       ELSE /\ IdOfRow(t)
            /\ SetTable(table \cup {NewRow(t)})
            /\ Goto(t, "select")
    /\ UNCHANGED <<base, reconnected, ref, tx, meta, answerLost, faults>>

\* Mutant: the second attempt builds its `fields` anew.
IdAnew(t) == UNCHANGED fieldsId

IdAfterLoss(t) == IdIfGenerated(t)

\* The connection is lost before or after the INSERT took effect.
InsertUnanswered(t) ==
    /\ Inserting(t) /\ MayWrite /\ Fault
    /\ IdAfterLoss(t)
    /\ \/ UNCHANGED <<table, hist>>
       \/ /\ Admits(table, NewId(t))
          /\ SetTable(table \cup {NewRow(t)})
          /\ answerLost' = answerLost \cup {t}
    /\ Reconnect(t)
    /\ UNCHANGED <<base, ref, meta>>

RowOf(t) == {r \in table : r.id = fieldsId[t]}

(***************************************************************************)
(* create() returns the row, Model.create goes on to inflate it and        *)
(* findOrCreate to patchIf(); both throw when there is none any more.      *)
(***************************************************************************)
SelectBack(t) ==
    /\ t \in Creators \cup Inliners /\ pc[t] = "select"
    /\ wasCreated' = [wasCreated EXCEPT ![t] = TRUE]
    /\ IF RowOf(t) = {}
       THEN Goto(t, "rejected") /\ UNCHANGED ref
       ELSE /\ \E r \in RowOf(t) : Hold(t, r)
            /\ Goto(t, IF t \in Inliners THEN "update" ELSE "inflate")
    /\ UNCHANGED <<base, table, fieldsId, reconnected, tx, legacy, told, hist, faults>>

SelectLost(t) ==
    /\ t \in Creators \cup Inliners /\ pc[t] = "select" /\ Fault
    /\ answerLost' = answerLost \cup {t}
    /\ Reconnect(t)
    /\ UNCHANGED <<base, table, fieldsId, ref, meta, everRows>>

-----------------------------------------------------------------------------
(***************************************************************************)
(* The model call goes on when dbh.findOrCreate or dbh.create has resolved *)
(* and the row is durable: it inflates the row, patches `createdAt` into   *)
(* one it found missing (if the schema has that field) and calls the       *)
(* hooks.  Each of these may reject.                                       *)
(***************************************************************************)
Stamp(t) ==
    /\ t \in Finders \cup Inliners /\ pc[t] = "inflate" /\ told[t] /\ MayWrite
    /\ IF Current(t) = {} THEN UNCHANGED ref ELSE \E r \in Current(t) : Hold(t, r)
    /\ Goto(t, "hooks")
    /\ UNCHANGED <<base, table, fieldsId, reconnected, tx, meta, hist, faults>>

ModelCallers == Finders \cup Inliners \cup Creators

CallHooks(t) ==
    /\ t \in ModelCallers /\ pc[t] \in {"inflate", "hooks"}
    /\ Goto(t, "fulfilled")
    /\ UNCHANGED <<base, table, fieldsId, reconnected, ref, tx, meta, hist, faults>>

ModelFails(t) ==
    /\ t \in ModelCallers /\ pc[t] \in {"inflate", "hooks"} /\ Fault
    /\ Goto(t, "rejectedLate")
    /\ UNCHANGED <<base, table, fieldsId, reconnected, ref, tx, meta, hist>>

-----------------------------------------------------------------------------
(***************************************************************************)
(* createIgnore: an INSERT that skips a duplicate.  MySQL may report a     *)
(* skipped row as affected; the SELECT by the new id then finds nothing.   *)
(***************************************************************************)
InsertIgnore(t) ==
    /\ t \in Ignorers /\ pc[t] = "new" /\ MayWrite
    /\ IdOfRow(t)
    /\ IF ~Admits(table, NewId(t))
       THEN /\ \/ Goto(t, "fulfilled")
               \/ server = "mysql" /\ Goto(t, "readBack")
            /\ UNCHANGED <<table, everRows>>
       ELSE /\ SetTable(table \cup {NewRow(t)})
            /\ Goto(t, "readBack")
    /\ UNCHANGED <<base, reconnected, ref, tx, meta, answerLost, faults>>

(***************************************************************************)
(* upsert: INSERT or, on a duplicate, the assignments of onDuplicate.      *)
(***************************************************************************)
InsertOrUpdate(t) ==
    /\ t \in Upserters /\ pc[t] = "new" /\ MayWrite
    /\ server = "mysql" \/ t \in ConflictColumns
    /\ IdOfRow(t)
    /\ SetTable(IF Admits(table, NewId(t))
                THEN table \cup {NewRow(t)}
                ELSE {[r EXCEPT !.val = "patched"] : r \in table})
    /\ Goto(t, "readBack")
    /\ UNCHANGED <<base, reconnected, ref, tx, meta, answerLost, faults>>

\* Postgres and SQLite refuse an upsert without conflictColumns.
UpsertRefused(t) ==
    /\ t \in Upserters /\ pc[t] = "new" /\ server # "mysql"
    /\ t \notin ConflictColumns
    /\ IdIfGenerated(t)
    /\ Goto(t, "rejected")
    /\ UNCHANGED <<base, table, reconnected, ref, tx, meta, hist, faults>>

\* Mutant: every read-back goes by id.
LookupById(t) == RowOf(t)

\* By id, except that upsert goes by its conflictColumns when it has them.
Lookup(t) == IF t \in ConflictColumns THEN table ELSE RowOf(t)

ReadBack(t) ==
    /\ t \in Ignorers \cup Upserters /\ pc[t] = "readBack"
    /\ IF Lookup(t) = {} THEN UNCHANGED ref ELSE \E r \in Lookup(t) : Hold(t, r)
    /\ Goto(t, "fulfilled")
    /\ UNCHANGED <<base, table, fieldsId, reconnected, tx, meta, hist, faults>>

Destroy(t) ==
    /\ t \in Destroyers /\ pc[t] = "new" /\ MayWrite
    /\ \E r \in table : SetTable(table \ {r})
    /\ Goto(t, "fulfilled")
    /\ UNCHANGED <<base, fieldsId, reconnected, ref, tx, meta, answerLost, faults>>

Step(t) ==
    \/ Search(t)
    \/ SearchConflicts(t)
    \/ Create(t)
    \/ CreateConflicts(t)
    \/ CreateDuplicate(t)
    \/ Patch(t)
    \/ PatchConflicts(t)
    \/ PatchFails(t)
    \/ Commit(t)
    \/ CommitRefused(t)
    \/ FinderLost(t)
    \/ CommitUnanswered(t)
    \/ SearchInline(t)
    \/ NothingToUpdate(t)
    \/ Update(t)
    \/ UpdateFails(t)
    \/ UpdatedBack(t)
    \/ InlineLost(t)
    \/ Insert(t)
    \/ InsertUnanswered(t)
    \/ SelectBack(t)
    \/ SelectLost(t)
    \/ Stamp(t)
    \/ CallHooks(t)
    \/ ModelFails(t)
    \/ InsertIgnore(t)
    \/ InsertOrUpdate(t)
    \/ UpsertRefused(t)
    \/ ReadBack(t)
    \/ Destroy(t)

\* Rejected late: dbh.findOrCreate or dbh.create had resolved, the model call rejects.
Settled == {"fulfilled", "rejected", "rejectedLate"}

Finished == (\A t \in Callers \ Destroyers : pc[t] \in Settled \cup {"absent"}) /\ UNCHANGED vars

Next == (\E t \in Callers : Step(t)) \/ Finished

Spec == Init /\ [][Next]_vars

-----------------------------------------------------------------------------

\* dbh.findOrCreate or dbh.create has resolved.
Resolved == {"inflate", "hooks", "fulfilled", "rejectedLate"}

Phases ==
    {"new", "create", "patch", "commit", "insert", "select", "update", "updated", "inflate",
     "hooks", "readBack", "absent"} \cup Settled

(***************************************************************************)
(* The variables hold what the code can store in them; an id never names   *)
(* two rows.                                                               *)
(***************************************************************************)
TypeOK ==
    /\ server \in Servers /\ unique \in BOOLEAN
    /\ table \subseteq Rows /\ everRows \subseteq Rows
    /\ \A r, s \in table : r.id = s.id => r = s
    /\ pc \in [Callers -> Phases]
    /\ fieldsId \in [Callers -> Ids \cup {None}]
    /\ attempt \in [Callers -> 0 .. MaxRetries]
    /\ reconnected \in [Callers -> BOOLEAN]
    /\ view \in [Callers -> SUBSET Rows] /\ work \in [Callers -> SUBSET Rows]
    /\ ref \in [Callers -> Rows \cup {None}]
    /\ wasCreated \in [Callers -> BOOLEAN] /\ told \in [Callers -> BOOLEAN]
    /\ legacy \in BOOLEAN
    /\ stale \in [Callers -> BOOLEAN]
    /\ answerLost \subseteq Callers
    /\ faults \in 0 .. MaxFaults

(***************************************************************************)
(* However often a call is repeated, after a conflict or after a lost      *)
(* connection, it inserts at most one row; but for a create() outside a    *)
(* transaction whose id the server assigns, which was not told the id of   *)
(* its first row.                                                          *)
(***************************************************************************)
AtMostOneRowPerCall ==
    \A t \in Callers :
        UuidIds \/ t \notin Creators \cup Inliners => Cardinality(InsertedBy(t)) <= 1

(***************************************************************************)
(* docs/transactions.md, 103-107: a dbh.findOrCreate() that fails, in a    *)
(* later patchIf for instance, leaves no new row behind; and a row of a    *)
(* model call that is rejected after that, in a hook, is one it created.   *)
(***************************************************************************)
RejectedFinderLeavesNoRow ==
    \A t \in Finders : t \notin answerLost =>
        /\ pc[t] = "rejected" => InsertedBy(t) = {}
        /\ pc[t] = "rejectedLate" => InsertedBy(t) \subseteq {ref[t].id}

(***************************************************************************)
(* The row dbh.findOrCreate returns was committed exactly as returned,     *)
(* with the patch applied, and what the hooks are told about wasCreated is *)
(* true of that call (docs/transactions.md, 139-142), whatever other calls *)
(* do at the same time and however many attempts it took, with or without  *)
(* a transaction.                                                          *)
(***************************************************************************)
FinderTellsTheTruth ==
    \A t \in Finders \cup Inliners :
        pc[t] \in Resolved =>
            /\ ref[t] \in everRows /\ (t \in Finders => ref[t].val = "patched")
            /\ t \notin answerLost => (told[t] <=> InsertedBy(t) # {})

(***************************************************************************)
(* lib/dbh.js, 1069-1072: "If a matching row is found, the promise returns *)
(* that row".  With nobody else writing, all finders return the same row.  *)
(* (Not so after a retry: README.)                                         *)
(***************************************************************************)
FindersAgree ==
    \A t, u \in Finders :
        pc[t] \in Resolved /\ pc[u] \in Resolved => ref[t].id = ref[u].id

NobodyDestroyed == \A t \in Destroyers : pc[t] \in {"new", "absent"}

OnlyFindersWrote == NobodyDestroyed /\ \A r \in everRows : r.id[1] \in Finders

(***************************************************************************)
(* As long as nobody else adds or removes rows and no attempt has failed,  *)
(* concurrent finders with transactions return the same row: one creates   *)
(* it and the others find it.                                              *)
(***************************************************************************)
FirstAttemptsAgree ==
    OnlyFindersWrote /\ (\A v \in Finders : attempt[v] = 0 /\ ~reconnected[v]) =>
        \A t, u \in Finders :
            pc[t] \in Resolved /\ pc[u] \in Resolved => ref[t].id = ref[u].id

(***************************************************************************)
(* lib/dbh.js, 1172-1176: createIgnore returns the new row if it was       *)
(* actually inserted, or null if a conflict caused the insert to be        *)
(* skipped; 1278: upsert returns "the final row (inserted or updated)",    *)
(* with conflictColumns also when it updated a row with another id.  A row *)
(* that is destroyed before it is read back is not returned.               *)
(***************************************************************************)
WinnerIsReturned ==
    NobodyDestroyed =>
        /\ \A t \in Ignorers :
              pc[t] = "fulfilled" =>
                  IF ref[t] = None THEN InsertedBy(t) = {} ELSE InsertedBy(t) = {ref[t].id}
        /\ \A t \in ConflictColumns : pc[t] = "fulfilled" => ref[t] # None

=============================================================================
