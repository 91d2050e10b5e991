--------------------------- MODULE RowWritesProofs ---------------------------
(***************************************************************************)
(* Proofs about RowWrites for any callers, constraints, databases and      *)
(* faults.                                                                 *)
(*                                                                         *)
(* The argument: an id names the call that generates it, and a call keeps  *)
(* its id, so what is durable of a call is one row at most; a finder's     *)
(* transaction differs from what it saw in one row, made or found; and the *)
(* locks, or what postgres refuses to commit, tell a finder that saw no    *)
(* row that one has appeared.                                              *)
(***************************************************************************)
EXTENDS RowWrites, FiniteSetTheorems, TLAPS

-----------------------------------------------------------------------------
\* Rows with this id, or for this call, have been durable.
Known(id) == \E r \in everRows : r.id = id
HasInserted(t) == \E r \in everRows : r.id[1] = t
InTable(id) == \E r \in table : r.id = id

\* A finder's row is durable with its patch; unless somebody destroys, ids do not go away.
StoreInv ==
    /\ table \subseteq everRows
    /\ \A r \in everRows : r.id[1] \in Finders => r.val = "patched"
    /\ NobodyDestroyed => \A r \in everRows : InTable(r.id)

(***************************************************************************)
(* The ids a call has inserted: the one it keeps in its `fields`, or, for  *)
(* a create() outside a transaction with ids from the server, one that it  *)
(* was not told.                                                           *)
(***************************************************************************)
Before == {"new", "insert", "update", "updated"}

KnowsItsId(t) == UuidIds \/ t \notin Creators \cup Inliners

IdInv ==
    \A t \in Callers :
        /\ fieldsId[t] # None => fieldsId[t][1] = t
        /\ KnowsItsId(t) => \A r \in everRows : r.id[1] = t => r.id = fieldsId[t]
        /\ pc[t] = "select" => fieldsId[t] # None
        /\ t \in Creators \cup Inliners /\ pc[t] \in Before /\ fieldsId[t] = None =>
             \A r \in everRows : r.id[1] = t => reconnected[t] /\ r.id = <<t, 1>>

(***************************************************************************)
(* A finder's transaction has changed at most one row of those it saw: one *)
(* that it made, or one that it found.                                     *)
(***************************************************************************)
Unique(rows) == \A r, s \in rows : r.id = s.id => r = s
SeesNone(t) == \A r \in table \cup view[t] : r.id[1] # t

Made(t) ==
    /\ SeesNone(t)
    /\ ref[t].id[1] = t /\ ref[t].id = fieldsId[t]
    /\ work[t] = view[t] \cup {ref[t]}

Found(t) ==
    \E r \in view[t] : r.id = ref[t].id /\ work[t] = (view[t] \ {r}) \cup {ref[t]}

TxInv ==
    \A t \in Finders : InTransaction(t) =>
        /\ view[t] \subseteq everRows /\ Unique(view[t])
        /\ pc[t] = "create" => work[t] = view[t] /\ SeesNone(t)
        /\ pc[t] # "create" => ref[t] # None
        /\ pc[t] # "create" /\ wasCreated[t] => Made(t)
        /\ pc[t] = "patch" /\ ~wasCreated[t] => ref[t] \in view[t] /\ work[t] = view[t]
        /\ pc[t] = "commit" => ref[t].val = "patched"
        /\ pc[t] = "commit" /\ ~wasCreated[t] => Found(t)

(***************************************************************************)
(* What a finder knows when it holds a row and when it has resolved; where *)
(* it stands once it has made a row durable.                               *)
(***************************************************************************)
Placed(t) ==
    HasInserted(t) =>
        \/ t \in answerLost
        \/ pc[t] \in Resolved
        \/ t \in Inliners /\ pc[t] \in {"select", "rejected"}
        \/ t \in Inliners /\ pc[t] \in {"update", "updated"} /\ wasCreated[t]

Held(t) ==
    t \in Inliners /\ pc[t] \in {"update", "updated"} =>
        ref[t] \in everRows /\ (wasCreated[t] => HasInserted(t))

Knows(t) ==
    pc[t] \in Resolved =>
        /\ ref[t] \in everRows /\ (t \in Finders => ref[t].val = "patched")
        /\ t \notin answerLost => (told[t] <=> HasInserted(t))
        /\ t \in Finders /\ told[t] => ref[t].id = fieldsId[t] /\ fieldsId[t] # None

OutcomeInv == \A t \in Finders \cup Inliners : Placed(t) /\ Held(t) /\ Knows(t)

ReadInv ==
    /\ \A t \in Ignorers :
         /\ pc[t] = "new" => fieldsId[t] = None
         /\ pc[t] = "readBack" => fieldsId[t] # None
         /\ pc[t] \in {"new", "readBack"} => ref[t] = None
         /\ pc[t] = "fulfilled" /\ ref[t] = None /\ NobodyDestroyed => ~HasInserted(t)
         /\ pc[t] = "fulfilled" /\ ref[t] # None => ref[t].id[1] = t /\ Known(ref[t].id)
    /\ \A t \in Upserters :
         /\ pc[t] = "readBack" => everRows # {}
         /\ pc[t] = "fulfilled" /\ t \in ConflictColumns /\ NobodyDestroyed => ref[t] # None

\* Where reads lock, nobody is beside a transaction that has written.
LockInv ==
    \A t, u \in Finders :
        t # u /\ InTransaction(t) /\ InTransaction(u) =>
            server = "postgres" \/ (server = "mysql" /\ ~HasWritten(t))

\* While no attempt has failed, finders know no id until they have created it.
FirstAttempts == OnlyFindersWrote /\ \A v \in Finders : attempt[v] = 0 /\ ~reconnected[v]

\* What a finder did not see is not there, or the server will tell.
StillBlank(t) == table = {} \/ (server = "postgres" /\ stale[t])

AgreeInv ==
    FirstAttempts =>
        /\ \A r, s \in everRows : r.id = s.id
        /\ \A t \in Finders :
             /\ pc[t] = "new" => fieldsId[t] = None
             /\ InTransaction(t) /\ (pc[t] = "create" \/ wasCreated[t]) => view[t] = {}
             /\ InTransaction(t) /\ view[t] = {} => StillBlank(t)

IInv ==
    /\ TypeOK
    /\ StoreInv
    /\ IdInv
    /\ TxInv
    /\ OutcomeInv
    /\ ReadInv
    /\ LockInv
    /\ AgreeInv

-----------------------------------------------------------------------------
LEMMA Bounds ==
    MaxRetries \in Nat /\ MaxFaults \in Nat /\ MaxIds \in Nat /\ MaxIds >= 2
  BY BoundsAssumption

LEMMA Kinds ==
    /\ Finders \subseteq Callers /\ Inliners \subseteq Callers
    /\ Creators \subseteq Callers /\ Ignorers \subseteq Callers
    /\ Upserters \subseteq Callers /\ Destroyers \subseteq Callers
    /\ ConflictColumns \subseteq Upserters
    /\ \A t \in Callers :
         /\ t \in Finders =>
              t \notin Inliners \cup Creators \cup Ignorers \cup Upserters \cup Destroyers
         /\ t \in Inliners => t \notin Creators \cup Ignorers \cup Upserters \cup Destroyers
         /\ t \in Creators => t \notin Ignorers \cup Upserters \cup Destroyers
         /\ t \in Ignorers => t \notin Upserters \cup Destroyers
         /\ t \in Upserters => t \notin Destroyers
  BY KindsAssumption, FlagsAssumption DEF Callers

LEMMA RowTypes ==
    /\ None \notin Ids /\ None \notin Rows
    /\ \A r \in Rows : r.id \in Ids
    /\ \A id \in Ids : id[1] \in Callers /\ id = <<id[1], id[2]>>
    /\ \A id \in Ids : \A val \in {"plain", "patched"} :
           LET r == [id |-> id, val |-> val] IN r \in Rows /\ r.id = id /\ r.val = val
    /\ \A r \in Rows :
           LET p == [r EXCEPT !.val = "patched"]
           IN  p \in Rows /\ p.id = r.id /\ p.val = "patched" /\ (r.val = "patched" => p = r)
<1>1. \A id \in Ids : id[1] \in Callers /\ id = <<id[1], id[2]>>
  BY DEF Ids
<1>2. \A r \in Rows : [r EXCEPT !.val = "patched"] = [id |-> r.id, val |-> "patched"]
  BY DEF Rows
<1>. QED
  BY <1>1, <1>2, NoneAssumption DEF Rows

MayInsert(t) ==
    /\ pc[t] \in {"new", "create", "insert"}
    /\ t \in Creators \cup Inliners => pc[t] \in {"new", "insert"}

\* The id a call is about to use: its own, known or new.
LEMMA NewIdIs ==
    ASSUME TypeOK, IdInv, NEW t \in Callers, MayInsert(t)
    PROVE  /\ NewId(t) \in Ids /\ NewId(t)[1] = t /\ NewId(t) # None
           /\ fieldsId[t] # None => NewId(t) = fieldsId[t]
           /\ fieldsId[t] = None /\ ~HasInserted(t) => NewId(t) = <<t, 1>>
<1>1. everRows \subseteq Rows /\ fieldsId[t] \in Ids \cup {None}
  BY DEF TypeOK
<1>2. CASE fieldsId[t] # None
  BY <1>1, <1>2, RowTypes DEF NewId, IdInv
<1>3. CASE fieldsId[t] = None
  <2>1. \A r \in everRows : r.id[1] = t => r.id = <<t, 1>>
    BY <1>1, <1>3, RowTypes DEF IdInv, KnowsItsId, MayInsert, Before
  <2>2. CASE ~HasInserted(t)
    <3>1. InsertedBy(t) = {}
      BY <2>2 DEF InsertedBy, HasInserted
    <3>2. NewId(t) = <<t, 1>>
      BY <1>3, <3>1, FS_EmptySet DEF NewId
    <3>. QED
      BY <1>3, <3>2, Bounds, RowTypes DEF Ids
  <2>3. CASE HasInserted(t)
    <3>1. InsertedBy(t) = {<<t, 1>>}
      BY <2>1, <2>3 DEF InsertedBy, HasInserted
    <3>2. Cardinality({<<t, 1>>}) = 1
      BY FS_Singleton
    <3>3. NewId(t) = <<t, 2>>
      BY <1>3, <3>1, <3>2 DEF NewId
    <3>. QED
      BY <1>3, <2>3, <3>3, Bounds, RowTypes DEF Ids
  <2>. QED
    BY <2>2, <2>3
<1>. QED
  BY <1>2, <1>3

-----------------------------------------------------------------------------
\* The variables of a call that is rejected or starts again.
RestartTypes ==
    /\ pc' \in [Callers -> Phases]
    /\ attempt' \in [Callers -> 0 .. MaxRetries]
    /\ reconnected' \in [Callers -> BOOLEAN]
    /\ view' \in [Callers -> SUBSET Rows] /\ work' \in [Callers -> SUBSET Rows]
    /\ stale' \in [Callers -> BOOLEAN]

LEMMA RestartTyped ==
    ASSUME TypeOK, NEW t \in Callers,
           \/ (Reject(t) \/ RetryOrReject(t)) /\ UNCHANGED reconnected
           \/ Reconnect(t)
    PROVE  RestartTypes
<1>1. {"new", "rejected"} \subseteq Phases /\ 0 \in 0 .. MaxRetries
  BY Bounds DEF Phases, Settled
<1>2. ASSUME Forget(t)
      PROVE  /\ view' \in [Callers -> SUBSET Rows] /\ work' \in [Callers -> SUBSET Rows]
             /\ stale' \in [Callers -> BOOLEAN]
  BY <1>2 DEF Forget, TypeOK
<1>3. ASSUME Reject(t), UNCHANGED reconnected  PROVE RestartTypes
  BY <1>1, <1>2, <1>3 DEF Reject, Goto, TypeOK, RestartTypes
<1>4. ASSUME RetryOrReject(t), attempt[t] < MaxRetries, UNCHANGED reconnected
      PROVE  RestartTypes
  <2>1. attempt[t] + 1 \in 0 .. MaxRetries
    BY <1>4, Bounds DEF TypeOK
  <2>2. attempt' = [attempt EXCEPT ![t] = attempt[t] + 1]
    BY <1>4 DEF RetryOrReject
  <2>3. attempt' \in [Callers -> 0 .. MaxRetries]
    BY <2>1, <2>2 DEF TypeOK
  <2>. QED
    BY <1>1, <1>2, <1>4, <2>3 DEF RetryOrReject, Goto, TypeOK, RestartTypes
<1>5. ASSUME Reconnect(t), ~reconnected[t]  PROVE RestartTypes
  BY <1>1, <1>2, <1>5 DEF Reconnect, Goto, TypeOK, RestartTypes
<1>. QED
  BY <1>3, <1>4, <1>5 DEF RetryOrReject, Reconnect

(***************************************************************************)
(* What a finder's failures have in common: the transaction is forgotten,  *)
(* the call is rejected or begins again.                                   *)
(***************************************************************************)
Aborts(t) ==
    /\ t \in Finders /\ pc[t] \in {"new", "create", "patch", "commit"}
    /\ UNCHANGED <<base, table, ref, meta, hist>>
    /\ RestartTypes
    /\ pc'[t] \in {"new", "rejected"}
    /\ pc'[t] = "new" => attempt'[t] # 0 \/ reconnected'[t]
    /\ attempt'[t] = 0 /\ ~reconnected'[t] => attempt[t] = 0 /\ ~reconnected[t]
    /\ view'[t] = {} /\ work'[t] = {}
    /\ \/ fieldsId' = fieldsId
       \/ pc[t] = "create" /\ fieldsId' = [fieldsId EXCEPT ![t] = NewId(t)]
    /\ faults' \in {faults, faults + 1} /\ (faults' # faults => faults < MaxFaults)

Restarts(t) ==
    SearchConflicts(t) \/ CreateConflicts(t) \/ CreateDuplicate(t) \/ PatchConflicts(t)
        \/ PatchFails(t) \/ CommitRefused(t) \/ FinderLost(t)

LEMMA RestartAborts ==
    ASSUME TypeOK, NEW t \in Callers, Restarts(t)
    PROVE  /\ Aborts(t)
           /\ \A u \in Callers \ {t} :
                /\ pc'[u] = pc[u] /\ attempt'[u] = attempt[u] /\ reconnected'[u] = reconnected[u]
                /\ view'[u] = view[u] /\ work'[u] = work[u] /\ stale'[u] = stale[u]
<1>. DEFINE Apart == \A u \in Callers \ {t} :
                /\ pc'[u] = pc[u] /\ attempt'[u] = attempt[u] /\ reconnected'[u] = reconnected[u]
                /\ view'[u] = view[u] /\ work'[u] = work[u] /\ stale'[u] = stale[u]
            Over == /\ pc'[t] \in {"new", "rejected"}
                    /\ pc'[t] = "new" => attempt'[t] # 0 \/ reconnected'[t]
                    /\ attempt'[t] = 0 /\ ~reconnected'[t] => attempt[t] = 0 /\ ~reconnected[t]
                    /\ view'[t] = {} /\ work'[t] = {}
<1>1. attempt[t] \in Nat
  BY Bounds DEF TypeOK
<1>2. ASSUME Reject(t), UNCHANGED reconnected  PROVE Apart /\ Over
  BY <1>2 DEF Reject, Forget, Goto, TypeOK
<1>3. ASSUME RetryOrReject(t), UNCHANGED reconnected  PROVE Apart /\ Over
  BY <1>1, <1>2, <1>3 DEF RetryOrReject, Forget, Goto, TypeOK
<1>4. ASSUME Reconnect(t)  PROVE Apart /\ Over
  BY <1>2, <1>4 DEF Reconnect, Forget, Goto, TypeOK
<1>5. \/ (Reject(t) \/ RetryOrReject(t)) /\ UNCHANGED reconnected
      \/ Reconnect(t)
  BY DEF Restarts, SearchConflicts, CreateConflicts, CreateDuplicate, PatchConflicts,
         PatchFails, CommitRefused, FinderLost
<1>6. RestartTypes /\ Apart /\ Over
  BY <1>2, <1>3, <1>4, <1>5, RestartTyped
<1>7. /\ t \in Finders /\ pc[t] \in {"new", "create", "patch", "commit"}
      /\ UNCHANGED <<base, table, ref, meta, hist>>
      /\ faults' \in {faults, faults + 1} /\ (faults' # faults => faults < MaxFaults)
  BY DEF Restarts, SearchConflicts, CreateConflicts, CreateDuplicate, PatchConflicts,
         PatchFails, CommitRefused, FinderLost, InTransaction, Fault
<1>8. \/ fieldsId' = fieldsId
      \/ pc[t] = "create" /\ fieldsId' = [fieldsId EXCEPT ![t] = NewId(t)]
  BY DEF Restarts, SearchConflicts, CreateConflicts, CreateDuplicate, PatchConflicts,
         PatchFails, CommitRefused, FinderLost, IdIfGenerated
<1>. QED
  BY <1>6, <1>7, <1>8 DEF Aborts

-----------------------------------------------------------------------------
Inlines(t) ==
    SearchInline(t) \/ NothingToUpdate(t) \/ Update(t) \/ UpdateFails(t) \/ UpdatedBack(t)
        \/ InlineLost(t)

Creates(t) == Insert(t) \/ InsertUnanswered(t) \/ SelectBack(t) \/ SelectLost(t)

Ends(t) == CallHooks(t) \/ ModelFails(t)

\* Whose step it is.
LEMMA Doers ==
    ASSUME NEW t \in Callers, Step(t)
    PROVE  /\ t \in Finders =>
                Search(t) \/ Create(t) \/ Patch(t) \/ Commit(t) \/ CommitUnanswered(t)
                  \/ Restarts(t) \/ Stamp(t) \/ Ends(t)
           /\ t \in Inliners => Inlines(t) \/ Creates(t) \/ Stamp(t) \/ Ends(t)
           /\ t \in Creators => Creates(t) \/ Ends(t)
           /\ t \in Ignorers => InsertIgnore(t) \/ ReadBack(t)
           /\ t \in Upserters => InsertOrUpdate(t) \/ UpsertRefused(t) \/ ReadBack(t)
           /\ t \in Destroyers => Destroy(t)
<1>1. /\ Search(t) \/ Create(t) \/ Patch(t) \/ Commit(t) \/ CommitUnanswered(t) \/ Restarts(t)
           => t \in Finders
      /\ Inlines(t) => t \in Inliners
      /\ Creates(t) => t \in Creators \cup Inliners
      /\ Stamp(t) => t \in Finders \cup Inliners
      /\ Ends(t) => t \in ModelCallers
      /\ InsertIgnore(t) => t \in Ignorers
      /\ InsertOrUpdate(t) \/ UpsertRefused(t) => t \in Upserters
      /\ ReadBack(t) => t \in Ignorers \cup Upserters
      /\ Destroy(t) => t \in Destroyers
  BY DEF Restarts, Inlines, Creates, Ends, Inserting, Search, SearchConflicts,
     Create, CreateConflicts, CreateDuplicate, Patch, PatchConflicts, PatchFails, Commit,
     CommitRefused, FinderLost, InTransaction, CommitUnanswered, SearchInline, NothingToUpdate,
     Update, UpdateFails, UpdatedBack, InlineLost, Stamp, CallHooks, ModelFails, Insert, InsertUnanswered, SelectBack, SelectLost,
     InsertIgnore, InsertOrUpdate, UpsertRefused, ReadBack, Destroy
<1>2. \/ Search(t) \/ Create(t) \/ Patch(t) \/ Commit(t) \/ CommitUnanswered(t) \/ Restarts(t)
      \/ Inlines(t) \/ Creates(t) \/ Stamp(t) \/ Ends(t) \/ InsertIgnore(t)
      \/ InsertOrUpdate(t) \/ UpsertRefused(t) \/ ReadBack(t) \/ Destroy(t)
  BY DEF Step, Restarts, Inlines, Creates, Ends
<1>. QED
  BY <1>1, <1>2, Kinds DEF ModelCallers

(***************************************************************************)
(* What a model call does once its row is durable: it reads the row again, *)
(* and ends.                                                               *)
(***************************************************************************)
LEMMA EndsAre ==
    ASSUME TypeOK, NEW t \in Callers, Stamp(t) \/ Ends(t)
    PROVE  /\ UNCHANGED <<base, table, fieldsId, reconnected, tx, meta, hist>>
           /\ pc[t] \in {"inflate", "hooks"} /\ pc'[t] \in {"hooks", "fulfilled", "rejectedLate"}
           /\ pc' = [pc EXCEPT ![t] = pc'[t]]
           /\ faults' \in {faults, faults + 1} /\ (faults' # faults => faults < MaxFaults)
           /\ \/ ref' = ref
              \/ /\ Stamp(t) /\ told[t] /\ ref' = [ref EXCEPT ![t] = ref'[t]]
                 /\ ref'[t] \in table /\ ref'[t].id = ref[t].id
<1>1. CASE Stamp(t)
  <2>1. \/ ref' = ref
        \/ \E r \in table : r.id = ref[t].id /\ ref' = [ref EXCEPT ![t] = r]
    BY <1>1 DEF Stamp, Current, Hold
  <2>2. \/ ref' = ref
        \/ /\ ref' = [ref EXCEPT ![t] = ref'[t]]
           /\ ref'[t] \in table /\ ref'[t].id = ref[t].id
    BY <2>1 DEF TypeOK
  <2>. QED
    BY <1>1, <2>2 DEF Stamp, Goto, TypeOK
<1>2. CASE Ends(t)
  BY <1>2 DEF Ends, CallHooks, ModelFails, Goto, Fault, TypeOK
<1>. QED
  BY <1>1, <1>2

-----------------------------------------------------------------------------
\* What a call keeps is its own; only a commit tells the others that they are stale.
LEMMA OthersStay ==
    ASSUME TypeOK, NEW t \in Callers, Step(t)
    PROVE  /\ UNCHANGED base
           /\ \A u \in Callers \ {t} :
                /\ pc'[u] = pc[u] /\ fieldsId'[u] = fieldsId[u] /\ attempt'[u] = attempt[u]
                /\ reconnected'[u] = reconnected[u] /\ view'[u] = view[u]
                /\ work'[u] = work[u] /\ ref'[u] = ref[u] /\ wasCreated'[u] = wasCreated[u]
                /\ told'[u] = told[u] /\ (u \in answerLost' <=> u \in answerLost)
                /\ (stale[u] => stale'[u])
                /\ (~Commit(t) /\ ~CommitUnanswered(t) => stale'[u] = stale[u])
<1>1. ASSUME Restarts(t)
      PROVE  /\ UNCHANGED <<base, ref, meta, hist>>
             /\ \A u \in Callers \ {t} : fieldsId'[u] = fieldsId[u]
  BY <1>1, RestartAborts DEF Aborts, TypeOK
<1>2. CASE Restarts(t)
  BY <1>1, <1>2, RestartAborts DEF TypeOK, meta, hist
<1>3. CASE Search(t)
  BY <1>3 DEF Search, Goto, Hold, TypeOK, meta, hist
<1>4. CASE Create(t)
  BY <1>4 DEF Create, IdOfRow, Goto, Hold, TypeOK, meta, hist
<1>5. CASE Patch(t)
  BY <1>5 DEF Patch, Goto, Hold, TypeOK, meta, hist
<1>6. CASE Commit(t)
  BY <1>6 DEF Commit, Commits, Goto, TypeOK, meta, hist
<1>7. CASE CommitUnanswered(t)
  BY <1>7 DEF CommitUnanswered, Commits, Goto, TypeOK, meta, hist
<1>8. CASE Insert(t)
  BY <1>8 DEF Insert, IdOfRow, IdIfGenerated, Goto, TypeOK, tx, meta, hist
<1>9. CASE InsertUnanswered(t) \/ SelectLost(t) \/ InlineLost(t)
  <2>1. UNCHANGED <<base, ref, meta>> /\ Reconnect(t)
    BY <1>9 DEF InsertUnanswered, SelectLost, InlineLost
  <2>2. \A u \in Callers \ {t} : fieldsId'[u] = fieldsId[u] /\ (u \in answerLost' <=> u \in answerLost)
    BY <1>9 DEF InsertUnanswered, SelectLost, InlineLost, IdAfterLoss, IdIfGenerated, hist,
       TypeOK
  <2>3. \A u \in Callers \ {t} :
          /\ pc'[u] = pc[u] /\ attempt'[u] = attempt[u] /\ reconnected'[u] = reconnected[u]
          /\ view'[u] = view[u] /\ work'[u] = work[u] /\ stale'[u] = stale[u]
    BY <2>1 DEF Reconnect, Reject, Forget, Goto, TypeOK
  <2>. QED
    BY <2>1, <2>2, <2>3 DEF meta
<1>10. CASE SelectBack(t)
  BY <1>10 DEF SelectBack, Hold, Goto, TypeOK, tx, meta, hist
<1>11. CASE InsertIgnore(t)
  BY <1>11 DEF InsertIgnore, IdOfRow, Goto, TypeOK, tx, meta, hist
<1>12. CASE InsertOrUpdate(t)
  BY <1>12 DEF InsertOrUpdate, IdOfRow, Goto, TypeOK, tx, meta, hist
<1>13. CASE UpsertRefused(t)
  BY <1>13 DEF UpsertRefused, IdIfGenerated, Goto, TypeOK, tx, meta, hist
<1>14. CASE ReadBack(t)
  BY <1>14 DEF ReadBack, Hold, Goto, TypeOK, tx, meta, hist
<1>15. CASE Destroy(t)
  BY <1>15 DEF Destroy, Goto, TypeOK, tx, meta, hist
<1>16. CASE SearchInline(t) \/ NothingToUpdate(t) \/ UpdatedBack(t)
  BY <1>16 DEF SearchInline, NothingToUpdate, UpdatedBack, Hold, Goto, TypeOK, tx, meta, hist
<1>17. CASE Update(t) \/ UpdateFails(t)
  BY <1>17 DEF Update, UpdateFails, Goto, TypeOK, tx, meta, hist
<1>18. CASE Stamp(t) \/ Ends(t)
  BY <1>18, EndsAre DEF TypeOK, tx, meta, hist
<1>. QED
  BY <1>2, <1>3, <1>4, <1>5, <1>6, <1>7, <1>8, <1>9, <1>10, <1>11, <1>12, <1>13, <1>14,
     <1>15, <1>16, <1>17, <1>18 DEF Step, Restarts, Ends

-----------------------------------------------------------------------------
\* What a call that inserts makes durable.
LEMMA NewRowIs ==
    ASSUME TypeOK, IdInv, NEW t \in Callers, MayInsert(t)
    PROVE  /\ NewRow(t) \in Rows /\ NewRow(t).id = NewId(t) /\ NewRow(t).val = "plain"
           /\ NewId(t) \in Ids /\ NewId(t)[1] = t /\ NewId(t) # None
  BY NewIdIs, RowTypes DEF NewRow

LEMMA IdTyped ==
    ASSUME TypeOK, IdInv, NEW t \in Callers, MayInsert(t), IdOfRow(t) \/ IdIfGenerated(t)
    PROVE  fieldsId' \in [Callers -> Ids \cup {None}]
  BY NewIdIs DEF IdOfRow, IdIfGenerated, TypeOK

(***************************************************************************)
(* What a commit adds to the table: the row made, the row found as it was, *)
(* or as it is patched.                                                    *)
(***************************************************************************)
LEMMA AppliedIs ==
    ASSUME TypeOK, TxInv, NEW t \in Finders, pc[t] = "commit", ~Overtaken(t)
    PROVE  /\ ref[t] \in Rows /\ ref[t].val = "patched"
           /\ \/ /\ wasCreated[t] /\ Applied(t) = table \cup {ref[t]} /\ HasWritten(t)
                 /\ \A r \in table : r.id[1] # t
                 /\ ref[t].id[1] = t /\ ref[t].id = fieldsId[t]
              \/ /\ ~wasCreated[t]
                 /\ ref[t] \in everRows /\ Applied(t) = table
              \/ /\ ~wasCreated[t]
                 /\ \E r \in table : r.id = ref[t].id /\ Applied(t) = (table \ {r}) \cup {ref[t]}
<1>1. t \in Callers /\ InTransaction(t)
  BY Kinds DEF InTransaction
<1>2. ref[t] \in Rows /\ ref[t].val = "patched"
  BY <1>1 DEF TypeOK, TxInv
<1>3. CASE wasCreated[t]
  <2>1. Made(t)
    BY <1>1, <1>3 DEF TxInv
  <2>2. ref[t] \notin view[t]
    BY <2>1 DEF Made, SeesNone
  <2>3. view[t] \ work[t] = {} /\ work[t] \ view[t] = {ref[t]} /\ HasWritten(t)
    BY <2>1, <2>2 DEF Made, HasWritten
  <2>. QED
    BY <1>2, <1>3, <2>1, <2>3 DEF Applied, Made, SeesNone
<1>4. CASE ~wasCreated[t]
  <2>1. PICK r \in view[t] : r.id = ref[t].id /\ work[t] = (view[t] \ {r}) \cup {ref[t]}
    BY <1>1, <1>4 DEF TxInv, Found
  <2>2. view[t] \subseteq everRows /\ Unique(view[t])
    BY <1>1 DEF TxInv
  <2>3. CASE ref[t] = r
    BY <1>2, <1>4, <2>1, <2>2, <2>3 DEF Applied
  <2>4. CASE ref[t] # r
    <3>1. ref[t] \notin view[t]
      BY <2>1, <2>2, <2>4 DEF Unique
    <3>2. view[t] \ work[t] = {r} /\ work[t] \ view[t] = {ref[t]}
      BY <2>1, <2>4, <3>1
    <3>3. r \in table
      BY <3>2 DEF Overtaken
    <3>. QED
      BY <1>2, <1>4, <2>1, <3>2, <3>3 DEF Applied
  <2>. QED
    BY <2>3, <2>4
<1>. QED
  BY <1>1, <1>3, <1>4

-----------------------------------------------------------------------------
\* A step of t makes a row of its own durable, under this id.
Adds(t, id) ==
    /\ id[1] = t
    /\ \/ /\ t \in Finders /\ pc[t] = "commit" /\ wasCreated[t]
          /\ id = ref[t].id /\ id = fieldsId[t]
          /\ HasWritten(t) /\ ~Refused(t)
       \/ /\ t \notin Finders /\ MayInsert(t) /\ id = NewId(t)
          /\ \A r \in table : r.id # id
          /\ KnowsItsId(t) => id = fieldsId'[t]

(***************************************************************************)
(* What a step may do to the rows: history only grows, by rows that are in *)
(* the table now; ids stay unique; only a destroyer takes one away, and    *)
(* only its own call adds one.                                             *)
(***************************************************************************)
RowsStep(t) ==
    /\ table' \subseteq Rows /\ everRows' \subseteq Rows
    /\ everRows \subseteq everRows' /\ table' \subseteq everRows'
    /\ \A r \in everRows' : r \in everRows \/ r \in table'
    /\ \A r, s \in table' : r.id = s.id => r = s
    /\ t \notin Destroyers => \A r \in table : \E s \in table' : s.id = r.id
    /\ \A s \in table' : InTable(s.id) \/ Adds(t, s.id)
    /\ \A s \in table' : s \in table \/ s.val = "patched" \/ s.id[1] \notin Finders

LEMMA RowsUnchanged ==
    ASSUME TypeOK, StoreInv, NEW t, UNCHANGED <<table, everRows>>
    PROVE  RowsStep(t)
  BY DEF RowsStep, TypeOK, StoreInv, InTable

LEMMA RowsAdd ==
    ASSUME TypeOK, StoreInv, IdInv,
           NEW t \in Callers, t \notin Finders, MayInsert(t),
           Admits(table, NewId(t)), SetTable(table \cup {NewRow(t)}),
           IdOfRow(t) \/ (t \in Creators \cup Inliners /\ IdIfGenerated(t))
    PROVE  RowsStep(t)
<1>1. t \in Callers
  OBVIOUS
<1>2. NewRow(t) \in Rows /\ NewRow(t).id = NewId(t) /\ NewId(t)[1] = t
  BY <1>1, NewRowIs
<1>3. \A r \in table : r.id # NewId(t)
  BY DEF Admits
<1>4. table' = table \cup {NewRow(t)} /\ everRows' = everRows \cup table'
  BY DEF SetTable
<1>5. Adds(t, NewId(t))
  <2>1. KnowsItsId(t) => fieldsId'[t] = NewId(t)
    BY <1>1, Kinds DEF KnowsItsId, IdOfRow, IdIfGenerated, TypeOK
  <2>. QED
    BY <1>2, <1>3, <2>1 DEF Adds
<1>6. \A s \in table' : InTable(s.id) \/ Adds(t, s.id)
  BY <1>2, <1>4, <1>5 DEF InTable
<1>7. \A r, s \in table' : r.id = s.id => r = s
  BY <1>2, <1>3, <1>4 DEF TypeOK
<1>. QED
  BY <1>2, <1>4, <1>6, <1>7 DEF RowsStep, TypeOK, StoreInv

LEMMA RowsCommit ==
    ASSUME TypeOK, StoreInv, TxInv, NEW t \in Finders, pc[t] = "commit",
           ~Refused(t), SetTable(Applied(t))
    PROVE  RowsStep(t) /\ ref[t] \in everRows'
<1>1. table' = Applied(t) /\ everRows' = everRows \cup Applied(t)
  BY DEF SetTable
<1>2. ~Overtaken(t)
  BY DEF Refused
<1>3. ref[t] \in Rows /\ ref[t].val = "patched" /\ table \subseteq Rows /\ everRows \subseteq Rows
      /\ table \subseteq everRows
      /\ \A r, s \in table : r.id = s.id => r = s
  BY <1>2, AppliedIs DEF TypeOK, StoreInv
<1>4. CASE wasCreated[t]
  <2>1. /\ Applied(t) = table \cup {ref[t]} /\ HasWritten(t)
        /\ \A r \in table : r.id[1] # t
        /\ ref[t].id[1] = t /\ ref[t].id = fieldsId[t]
    BY <1>2, <1>4, AppliedIs
  <2>2. Adds(t, ref[t].id)
    BY <1>4, <2>1 DEF Adds
  <2>3. \A s \in table' : InTable(s.id) \/ Adds(t, s.id)
    BY <1>1, <2>1, <2>2 DEF InTable
  <2>. QED
    BY <1>1, <1>3, <2>1, <2>3 DEF RowsStep
<1>5. CASE ~wasCreated[t] /\ ref[t] \in everRows /\ Applied(t) = table
  BY <1>1, <1>3, <1>5 DEF RowsStep, InTable
<1>6. ASSUME NEW r \in table, r.id = ref[t].id, Applied(t) = (table \ {r}) \cup {ref[t]}
      PROVE  RowsStep(t) /\ ref[t] \in everRows'
  <2>1. \A s \in table' : InTable(s.id)
    BY <1>1, <1>6 DEF InTable
  <2>2. \A s \in table : \E q \in table' : q.id = s.id
    BY <1>1, <1>6
  <2>3. \A q, s \in table' : q.id = s.id => q = s
    BY <1>1, <1>3, <1>6
  <2>. QED
    BY <1>1, <1>3, <1>6, <2>1, <2>2, <2>3 DEF RowsStep
<1>. QED
  BY <1>2, <1>4, <1>5, <1>6, AppliedIs

LEMMA RowsUpdate ==
    ASSUME TypeOK, StoreInv, NEW t, NEW updated, SetTable({updated[r] : r \in table}),
           \A r \in table : updated[r] \in {r, [r EXCEPT !.val = "patched"]}
    PROVE  RowsStep(t)
<1>1. /\ table' = {updated[r] : r \in table} /\ everRows' = everRows \cup table'
      /\ table \subseteq Rows /\ everRows \subseteq Rows
      /\ \A r, s \in table : r.id = s.id => r = s
  BY DEF SetTable, TypeOK
<1>2. \A r \in table : /\ updated[r] \in Rows /\ updated[r].id = r.id
                       /\ updated[r] = r \/ updated[r].val = "patched"
  <2>1. SUFFICES ASSUME NEW r \in table
                 PROVE  /\ updated[r] \in Rows /\ updated[r].id = r.id
                        /\ updated[r] = r \/ updated[r].val = "patched"
    OBVIOUS
  <2>2. CASE updated[r] = r
    BY <1>1, <2>2
  <2>3. CASE updated[r] = [r EXCEPT !.val = "patched"]
    BY <1>1, <2>3, RowTypes
  <2>. QED
    BY <2>2, <2>3
<1>3. \A s \in table' : InTable(s.id)
  BY <1>1, <1>2 DEF InTable
<1>4. \A r \in table : \E s \in table' : s.id = r.id
  BY <1>1, <1>2
<1>5. \A q, s \in table' : q.id = s.id => q = s
  BY <1>1, <1>2
<1>6. table' \subseteq Rows /\ \A s \in table' : s \in table \/ s.val = "patched"
  BY <1>1, <1>2
<1>. QED
  BY <1>1, <1>3, <1>4, <1>5, <1>6 DEF RowsStep

\* An UPDATE leaves every row as it is or patches it.
LEMMA UpdateIs ==
    ASSUME TypeOK, StoreInv, NEW t,
           \/ SetTable({[r EXCEPT !.val = "patched"] : r \in table})
           \/ UpdateRow(t)
    PROVE  RowsStep(t)
<1>1. CASE SetTable({[r EXCEPT !.val = "patched"] : r \in table})
  <2>. DEFINE updated == [r \in table |-> [r EXCEPT !.val = "patched"]]
  <2>1. \A r \in table : updated[r] = [r EXCEPT !.val = "patched"]
    OBVIOUS
  <2>2. {updated[r] : r \in table} = {[r EXCEPT !.val = "patched"] : r \in table}
    BY <2>1
  <2>. HIDE DEF updated
  <2>. QED
    BY <1>1, <2>1, <2>2, RowsUpdate
<1>2. CASE UpdateRow(t)
  <2>. DEFINE new(r) == IF r.id = ref[t].id THEN [r EXCEPT !.val = "patched"] ELSE r
              updated == [r \in table |-> new(r)]
  <2>1. \A r \in table : updated[r] = new(r)
    OBVIOUS
  <2>2. {updated[r] : r \in table} = {new(r) : r \in table}
    BY <2>1
  <2>3. SetTable({updated[r] : r \in table})
    BY <1>2, <2>2 DEF UpdateRow
  <2>4. \A r \in table : updated[r] \in {r, [r EXCEPT !.val = "patched"]}
    BY <2>1
  <2>. HIDE DEF updated
  <2>. QED
    BY <2>3, <2>4, RowsUpdate
<1>. QED
  BY <1>1, <1>2

LEMMA TableStep ==
    ASSUME TypeOK, StoreInv, IdInv, TxInv, NEW t \in Callers, Step(t)
    PROVE  RowsStep(t)
<1>1. CASE UNCHANGED <<table, everRows>>
  BY <1>1, RowsUnchanged
<1>2. CASE Commit(t) \/ CommitUnanswered(t)
  BY <1>2, RowsCommit DEF Commit, CommitUnanswered, Commits
<1>3. CASE Insert(t) \/ InsertUnanswered(t) \/ InsertIgnore(t)
  <2>1. t \notin Finders /\ MayInsert(t)
    BY <1>3, Kinds DEF Insert, InsertUnanswered, InsertIgnore, Inserting, MayInsert
  <2>2. InsertUnanswered(t) => t \in Creators \cup Inliners
    BY DEF InsertUnanswered, Inserting
  <2>. QED
    BY <1>1, <1>3, <2>1, <2>2, RowsAdd
       DEF Insert, InsertUnanswered, InsertIgnore, IdAfterLoss, hist
<1>4. CASE InsertOrUpdate(t)
  <2>1. t \notin Finders /\ MayInsert(t)
    BY <1>4, Kinds DEF InsertOrUpdate, MayInsert
  <2>. QED
    BY <1>4, <2>1, RowsAdd, UpdateIs DEF InsertOrUpdate
<1>5. CASE Destroy(t)
  <2>1. t \in Destroyers /\ table' \subseteq table /\ everRows' = everRows
    BY <1>5 DEF Destroy, SetTable, StoreInv
  <2>. QED
    BY <2>1 DEF RowsStep, TypeOK, StoreInv, InTable
<1>6. CASE Restarts(t)
  BY <1>1, <1>6, RestartAborts DEF Aborts, hist
<1>7. CASE \/ Search(t) \/ Create(t) \/ Patch(t) \/ SelectBack(t) \/ SelectLost(t)
           \/ UpsertRefused(t) \/ ReadBack(t) \/ SearchInline(t) \/ NothingToUpdate(t)
           \/ UpdateFails(t) \/ UpdatedBack(t)
  BY <1>1, <1>7 DEF Search, Create, Patch, SelectBack, SelectLost, UpsertRefused, ReadBack,
     SearchInline, NothingToUpdate, UpdateFails, UpdatedBack, hist
<1>8. CASE Update(t) \/ InlineLost(t)
  BY <1>1, <1>8, UpdateIs DEF Update, InlineLost
<1>9. CASE Stamp(t) \/ Ends(t)
  BY <1>1, <1>9, EndsAre DEF hist
<1>. QED
  BY <1>2, <1>3, <1>4, <1>5, <1>6, <1>7, <1>8, <1>9 DEF Step, Restarts, Ends

-----------------------------------------------------------------------------
\* The variables that every step but the restarts types in the same way.
LEMMA TypeStep ==
    ASSUME TypeOK, StoreInv, IdInv, TxInv, NEW t \in Callers, Step(t)
    PROVE  TypeOK'
<1>1. /\ table' \subseteq Rows /\ everRows' \subseteq Rows
      /\ \A r, s \in table' : r.id = s.id => r = s
      /\ server' \in Servers /\ unique' \in BOOLEAN
  BY TableStep, OthersStay DEF RowsStep, TypeOK, base
<1>2. /\ {"new", "create", "patch", "commit", "insert", "select", "update", "updated", "inflate",
           "hooks", "readBack", "fulfilled", "rejected", "rejectedLate"} \subseteq Phases
      /\ 0 \in 0 .. MaxRetries
      /\ \A n \in 0 .. MaxFaults : n < MaxFaults => n + 1 \in 0 .. MaxFaults
  BY Bounds DEF Phases, Settled
<1>3. CASE Restarts(t)
  <2>1. Aborts(t)
    BY <1>3, RestartAborts
  <2>2. fieldsId' \in [Callers -> Ids \cup {None}]
    BY <2>1, NewIdIs, Kinds DEF Aborts, TypeOK, MayInsert
  <2>3. faults' \in 0 .. MaxFaults
    BY <1>2, <2>1 DEF Aborts, TypeOK
  <2>. QED
    BY <1>1, <2>1, <2>2, <2>3 DEF Aborts, RestartTypes, TypeOK, meta, hist
<1>4. CASE Search(t)
  <2>1. ref' \in [Callers -> Rows \cup {None}]
    BY <1>4 DEF Search, Matches, Hold, TypeOK
  <2>2. pc' \in [Callers -> Phases]
    BY <1>2, <1>4 DEF Search, Goto, TypeOK
  <2>3. /\ view' \in [Callers -> SUBSET Rows] /\ work' \in [Callers -> SUBSET Rows]
        /\ wasCreated' \in [Callers -> BOOLEAN]
    BY <1>4 DEF Search, TypeOK
  <2>. QED
    BY <1>1, <1>4, <2>1, <2>2, <2>3 DEF Search, TypeOK, hist
<1>5. CASE Create(t)
  <2>1. pc[t] = "create" /\ NewRow(t) \in Rows
    BY <1>5, NewRowIs, Kinds DEF Create, MayInsert
  <2>2. fieldsId' \in [Callers -> Ids \cup {None}]
    BY <1>5, <2>1, IdTyped, Kinds DEF Create, MayInsert
  <2>3. /\ work' \in [Callers -> SUBSET Rows] /\ ref' \in [Callers -> Rows \cup {None}]
        /\ wasCreated' \in [Callers -> BOOLEAN] /\ pc' \in [Callers -> Phases]
    BY <1>2, <1>5, <2>1 DEF Create, Hold, Goto, TypeOK
  <2>. QED
    BY <1>1, <1>5, <2>2, <2>3 DEF Create, TypeOK, hist
<1>6. CASE Patch(t)
  <2>1. InTransaction(t) /\ ref[t] # None /\ t \in Finders
    BY <1>6 DEF Patch, InTransaction, TxInv
  <2>2. Patched(t) \in Rows
    BY <2>1, RowTypes DEF Patched, TypeOK
  <2>3. /\ work' \in [Callers -> SUBSET Rows] /\ ref' \in [Callers -> Rows \cup {None}]
        /\ pc' \in [Callers -> Phases] /\ legacy' \in BOOLEAN
    BY <1>2, <1>6, <2>2 DEF Patch, Hold, Goto, TypeOK
  <2>. QED
    BY <1>1, <1>6, <2>3 DEF Patch, TypeOK, hist
<1>7. ASSUME Commits(t)
      PROVE  /\ view' \in [Callers -> SUBSET Rows] /\ work' \in [Callers -> SUBSET Rows]
             /\ stale' \in [Callers -> BOOLEAN]
  <2>1. \A u \in Callers :
          (u # t /\ (stale[u] \/ (InTransaction(u) /\ HasWritten(t)))) \in BOOLEAN
    OBVIOUS
  <2>2. stale' \in [Callers -> BOOLEAN]
    BY <1>7, <2>1 DEF Commits
  <2>. QED
    BY <1>7, <2>2 DEF Commits, TypeOK
<1>8. CASE Commit(t)
  <2>1. told' \in [Callers -> BOOLEAN] /\ pc' \in [Callers -> Phases]
    BY <1>2, <1>8 DEF Commit, Told, Goto, TypeOK
  <2>. QED
    BY <1>1, <1>7, <1>8, <2>1 DEF Commit, TypeOK
<1>9. CASE CommitUnanswered(t)
  <2>1. /\ pc' \in [Callers -> Phases] /\ attempt' \in [Callers -> 0 .. MaxRetries]
        /\ reconnected' \in [Callers -> BOOLEAN] /\ answerLost' \subseteq Callers
        /\ faults' \in 0 .. MaxFaults
    BY <1>2, <1>9 DEF CommitUnanswered, Goto, Fault, TypeOK
  <2>. QED
    BY <1>1, <1>7, <1>9, <2>1 DEF CommitUnanswered, TypeOK, meta
<1>10. CASE Insert(t)
  <2>1. fieldsId' \in [Callers -> Ids \cup {None}]
    BY <1>10, IdTyped, Kinds DEF Insert, Inserting, MayInsert
  <2>2. pc' \in [Callers -> Phases]
    BY <1>2, <1>10 DEF Insert, Goto, TypeOK
  <2>. QED
    BY <1>1, <1>10, <2>1, <2>2 DEF Insert, TypeOK, tx, meta
<1>11. CASE InsertUnanswered(t) \/ SelectLost(t) \/ InlineLost(t)
  <2>1. fieldsId' \in [Callers -> Ids \cup {None}]
    <3>1. CASE InsertUnanswered(t)
      BY <3>1, IdTyped, Kinds DEF InsertUnanswered, Inserting, MayInsert, IdAfterLoss
    <3>. QED
      BY <1>11, <3>1 DEF SelectLost, InlineLost, TypeOK
  <2>2. RestartTypes
    BY <1>11, RestartTyped DEF InsertUnanswered, SelectLost, InlineLost
  <2>3. faults' \in 0 .. MaxFaults /\ answerLost' \subseteq Callers
    BY <1>2, <1>11 DEF InsertUnanswered, SelectLost, InlineLost, Fault, TypeOK, hist
  <2>4. UNCHANGED <<ref, meta>>
    BY <1>11 DEF InsertUnanswered, SelectLost, InlineLost
  <2>. QED
    BY <1>1, <2>1, <2>2, <2>3, <2>4 DEF RestartTypes, TypeOK, meta
<1>12. CASE SelectBack(t)
  <2>1. /\ ref' \in [Callers -> Rows \cup {None}] /\ pc' \in [Callers -> Phases]
        /\ wasCreated' \in [Callers -> BOOLEAN]
    BY <1>2, <1>12 DEF SelectBack, RowOf, Hold, Goto, TypeOK
  <2>. QED
    BY <1>1, <1>12, <2>1 DEF SelectBack, TypeOK, tx, meta, hist
<1>13. CASE InsertIgnore(t)
  <2>1. fieldsId' \in [Callers -> Ids \cup {None}]
    BY <1>13, IdTyped, Kinds DEF InsertIgnore, MayInsert
  <2>2. pc' \in [Callers -> Phases]
    BY <1>2, <1>13 DEF InsertIgnore, Goto, TypeOK
  <2>. QED
    BY <1>1, <1>13, <2>1, <2>2 DEF InsertIgnore, TypeOK, tx, meta
<1>14. CASE InsertOrUpdate(t) \/ UpsertRefused(t)
  <2>1. fieldsId' \in [Callers -> Ids \cup {None}]
    BY <1>14, IdTyped, Kinds DEF InsertOrUpdate, UpsertRefused, MayInsert
  <2>2. pc' \in [Callers -> Phases]
    BY <1>2, <1>14 DEF InsertOrUpdate, UpsertRefused, Goto, TypeOK
  <2>3. UNCHANGED <<reconnected, ref, tx, meta, answerLost, faults>>
    BY <1>14 DEF InsertOrUpdate, UpsertRefused, hist
  <2>. QED
    BY <1>1, <2>1, <2>2, <2>3 DEF TypeOK, tx, meta
<1>15. CASE ReadBack(t)
  <2>1. ref' \in [Callers -> Rows \cup {None}] /\ pc' \in [Callers -> Phases]
    BY <1>2, <1>15 DEF ReadBack, Lookup, RowOf, Hold, Goto, TypeOK
  <2>. QED
    BY <1>1, <1>15, <2>1 DEF ReadBack, TypeOK, tx, meta, hist
<1>16. CASE Destroy(t)
  <2>1. pc' \in [Callers -> Phases]
    BY <1>2, <1>16 DEF Destroy, Goto, TypeOK
  <2>. QED
    BY <1>1, <1>16, <2>1 DEF Destroy, TypeOK, tx, meta
<1>17. CASE SearchInline(t)
  <2>1. /\ ref' \in [Callers -> Rows \cup {None}] /\ pc' \in [Callers -> Phases]
        /\ wasCreated' \in [Callers -> BOOLEAN]
    BY <1>2, <1>17 DEF SearchInline, Matches, Hold, Goto, TypeOK
  <2>. QED
    BY <1>1, <1>17, <2>1 DEF SearchInline, TypeOK, tx, hist
<1>18. CASE NothingToUpdate(t) \/ UpdatedBack(t)
  <2>1. /\ ref' \in [Callers -> Rows \cup {None}] /\ pc' \in [Callers -> Phases]
        /\ told' \in [Callers -> BOOLEAN] /\ legacy' \in BOOLEAN
    BY <1>2, <1>18 DEF NothingToUpdate, UpdatedBack, Current, Told, Hold, Goto, TypeOK
  <2>. QED
    BY <1>1, <1>18, <2>1 DEF NothingToUpdate, UpdatedBack, TypeOK, tx, hist
<1>19. CASE Update(t) \/ UpdateFails(t)
  <2>1. pc' \in [Callers -> Phases] /\ faults' \in 0 .. MaxFaults
    BY <1>2, <1>19 DEF Update, UpdateFails, Fault, Goto, TypeOK
  <2>2. UNCHANGED <<fieldsId, reconnected, ref, tx, meta, answerLost>>
    BY <1>19 DEF Update, UpdateFails, hist
  <2>. QED
    BY <1>1, <2>1, <2>2 DEF TypeOK, tx, meta
<1>20. CASE Stamp(t) \/ Ends(t)
  <2>1. pc' \in [Callers -> Phases] /\ faults' \in 0 .. MaxFaults
    BY <1>2, <1>20, EndsAre DEF TypeOK
  <2>2. ref' \in [Callers -> Rows \cup {None}]
    BY <1>20, EndsAre DEF TypeOK
  <2>. QED
    BY <1>1, <1>20, <2>1, <2>2, EndsAre DEF TypeOK, tx, meta, hist
<1>. QED
  BY <1>3, <1>4, <1>5, <1>6, <1>8, <1>9, <1>10, <1>11, <1>12, <1>13, <1>14, <1>15, <1>16,
     <1>17, <1>18, <1>19, <1>20 DEF Step, Restarts, Ends

-----------------------------------------------------------------------------
\* A call makes no row of another durable, and a destroyer's only step shows.
LEMMA ElsewhereStep ==
    ASSUME TypeOK, StoreInv, IdInv, TxInv, NEW t \in Callers, Step(t)
    PROVE  /\ \A r \in everRows' : Known(r.id) \/ Adds(t, r.id)
           /\ \A u \in Callers \ {t} : HasInserted(u)' => HasInserted(u)
           /\ NobodyDestroyed' => NobodyDestroyed /\ t \notin Destroyers
<1>1. \A r \in everRows' : Known(r.id) \/ Adds(t, r.id)
  BY TableStep DEF RowsStep, Known, InTable, StoreInv
<1>2. \A u \in Callers \ {t} : HasInserted(u)' => HasInserted(u)
  BY <1>1 DEF HasInserted, Known, Adds
<1>3. t \in Destroyers => Destroy(t)
  BY Doers
<1>4. Destroy(t) => pc'[t] = "fulfilled"
  BY DEF Destroy, Goto, TypeOK
<1>5. \A u \in Destroyers : u # t => pc'[u] = pc[u]
  BY OthersStay, Kinds
<1>6. NobodyDestroyed' => NobodyDestroyed /\ t \notin Destroyers
  BY <1>3, <1>4, <1>5 DEF NobodyDestroyed
<1>. QED
  BY <1>1, <1>2, <1>6

LEMMA StoreStep ==
    ASSUME TypeOK, StoreInv, IdInv, TxInv, NEW t \in Callers, Step(t)
    PROVE  StoreInv'
<1>1. RowsStep(t)
  BY TableStep
<1>2. ASSUME NobodyDestroyed', NEW r \in everRows'  PROVE InTable(r.id)'
  <2>1. NobodyDestroyed /\ t \notin Destroyers
    BY <1>2, ElsewhereStep
  <2>2. CASE r \in everRows
    BY <1>1, <2>1, <2>2 DEF RowsStep, StoreInv, InTable
  <2>3. CASE r \in table'
    BY <2>3 DEF InTable
  <2>. QED
    BY <1>1, <2>2, <2>3 DEF RowsStep
<1>3. \A r \in everRows' : r.id[1] \in Finders => r.val = "patched"
  BY <1>1 DEF RowsStep, StoreInv
<1>. QED
  BY <1>1, <1>2, <1>3 DEF RowsStep, StoreInv

-----------------------------------------------------------------------------
\* A call's id, once known, stays; and what it adds, it knows, or was not told.
LEMMA OwnId ==
    ASSUME TypeOK, StoreInv, IdInv, TxInv, NEW t \in Callers, Step(t)
    PROVE  /\ fieldsId[t] # None => fieldsId'[t] = fieldsId[t]
           /\ fieldsId'[t] # None => fieldsId'[t][1] = t
           /\ \A id : KnowsItsId(t) /\ Adds(t, id) /\ id # None => id = fieldsId'[t]
<1>1. ASSUME MayInsert(t), IdOfRow(t) \/ IdIfGenerated(t)
      PROVE  /\ fieldsId'[t] \in {fieldsId[t], NewId(t)}
             /\ NewId(t)[1] = t
             /\ fieldsId[t] # None => NewId(t) = fieldsId[t]
  BY <1>1, NewIdIs DEF IdOfRow, IdIfGenerated, TypeOK
<1>2. \/ UNCHANGED fieldsId
      \/ MayInsert(t) /\ (IdOfRow(t) \/ IdIfGenerated(t))
  <2>1. CASE Restarts(t)
    BY <2>1, Kinds DEF MayInsert, Restarts, SearchConflicts, CreateConflicts, CreateDuplicate,
       PatchConflicts, PatchFails, CommitRefused, FinderLost, InTransaction
  <2>2. CASE Create(t) \/ Creates(t)
    BY <2>2, Kinds DEF Create, Creates, Insert, InsertUnanswered, Inserting, MayInsert,
       IdAfterLoss, SelectBack, SelectLost
  <2>3. CASE InsertIgnore(t) \/ InsertOrUpdate(t) \/ UpsertRefused(t)
    BY <2>3, Kinds DEF MayInsert, InsertIgnore, InsertOrUpdate, UpsertRefused
  <2>4. CASE \/ Search(t) \/ Patch(t) \/ Commit(t) \/ CommitUnanswered(t) \/ Inlines(t)
             \/ Stamp(t) \/ Ends(t) \/ ReadBack(t) \/ Destroy(t)
    BY <2>4, EndsAre DEF Search, Patch, Commit, CommitUnanswered, Inlines, SearchInline,
       NothingToUpdate, Update, UpdateFails, UpdatedBack, InlineLost, ReadBack, Destroy
  <2>. QED
    BY <2>1, <2>2, <2>3, <2>4 DEF Step, Restarts, Creates, Inlines, Ends
<1>3. \/ fieldsId'[t] = fieldsId[t]
      \/ fieldsId'[t] = NewId(t) /\ NewId(t)[1] = t
           /\ (fieldsId[t] # None => NewId(t) = fieldsId[t])
  BY <1>1, <1>2
<1>4. fieldsId'[t] # None => fieldsId'[t][1] = t
  BY <1>3 DEF IdInv
<1>5. fieldsId[t] # None => fieldsId'[t] = fieldsId[t]
  BY <1>3
<1>6. \A id : KnowsItsId(t) /\ Adds(t, id) /\ id # None => id = fieldsId'[t]
  BY <1>5 DEF Adds
<1>. QED
  BY <1>4, <1>5, <1>6

LEMMA Selects ==
    ASSUME TypeOK, NEW t \in Callers, Step(t), pc'[t] = "select"
    PROVE  Insert(t) /\ IdOfRow(t)
<1>1. CASE Restarts(t)
  BY <1>1, RestartAborts DEF Aborts
<1>2. CASE Stamp(t) \/ Ends(t)
  BY <1>2, EndsAre
<1>3. CASE InlineLost(t) \/ InsertUnanswered(t) \/ SelectLost(t)
  BY <1>3 DEF InlineLost, InsertUnanswered, SelectLost, Reconnect, Reject, Goto, TypeOK
<1>4. CASE \/ Search(t) \/ Create(t) \/ Patch(t) \/ Commit(t) \/ CommitUnanswered(t)
           \/ SearchInline(t) \/ NothingToUpdate(t) \/ Update(t) \/ UpdateFails(t)
           \/ UpdatedBack(t) \/ SelectBack(t)
  BY <1>4 DEF Search, Create, Patch, Commit, CommitUnanswered, SearchInline, NothingToUpdate,
     Update, UpdateFails, UpdatedBack, SelectBack, Goto, TypeOK
<1>5. CASE InsertIgnore(t) \/ InsertOrUpdate(t) \/ UpsertRefused(t) \/ ReadBack(t) \/ Destroy(t)
  BY <1>5 DEF InsertIgnore, InsertOrUpdate, UpsertRefused, ReadBack, Destroy, Goto, TypeOK
<1>6. CASE Insert(t)
  BY <1>6 DEF Insert, Goto, TypeOK
<1>. QED
  BY <1>1, <1>2, <1>3, <1>4, <1>5, <1>6 DEF Step, Restarts, Ends

LEMMA IdStep ==
    ASSUME TypeOK, StoreInv, IdInv, TxInv, NEW t \in Callers, Step(t)
    PROVE  IdInv'
<1>1. everRows \subseteq Rows /\ everRows' \subseteq Rows /\ fieldsId[t] \in Ids \cup {None}
  BY TypeStep DEF TypeOK
<1>2. \A r \in everRows' : r.id # None /\ (Known(r.id) \/ Adds(t, r.id))
  BY <1>1, RowTypes, ElsewhereStep
<1>3. ASSUME NEW u \in Callers, u # t
      PROVE  /\ pc'[u] = pc[u] /\ fieldsId'[u] = fieldsId[u]
             /\ reconnected'[u] = reconnected[u]
             /\ \A r \in everRows' : r.id[1] = u => Known(r.id)
  BY <1>2, <1>3, OthersStay DEF Adds
<1>4. ASSUME KnowsItsId(t), NEW r \in everRows', r.id[1] = t  PROVE r.id = fieldsId'[t]
  BY <1>1, <1>2, <1>4, OwnId, RowTypes DEF IdInv, Known
<1>5. pc'[t] = "select" => fieldsId'[t] # None
  <2>1. SUFFICES ASSUME pc'[t] = "select"  PROVE fieldsId'[t] # None
    OBVIOUS
  <2>2. Insert(t) /\ IdOfRow(t)
    BY <2>1, Selects
  <2>. QED
    BY <2>2, NewIdIs, Kinds DEF Insert, Inserting, MayInsert, IdOfRow, TypeOK
<1>6. ASSUME t \in Creators \cup Inliners, pc'[t] \in Before, fieldsId'[t] = None,
             NEW r \in everRows', r.id[1] = t
      PROVE  reconnected'[t] /\ r.id = <<t, 1>>
  <2>1. fieldsId[t] = None
    BY <1>6, OwnId
  <2>2. pc[t] # "select"
    BY <2>1 DEF IdInv
  <2>3. CASE InsertUnanswered(t)
    <3>1. Reconnect(t) /\ pc[t] \in {"new", "insert"}
      BY <2>3 DEF InsertUnanswered, Inserting
    <3>2. ~reconnected[t] /\ reconnected'[t]
      BY <1>6, <3>1 DEF Reconnect, Reject, Goto, TypeOK, Before
    <3>3. ~HasInserted(t)
      BY <1>6, <2>1, <3>1, <3>2 DEF HasInserted, IdInv, Before
    <3>4. Adds(t, r.id)
      BY <1>2, <1>6, <3>3 DEF HasInserted, Known
    <3>5. r.id = NewId(t) /\ MayInsert(t)
      BY <1>6, <3>4, Kinds DEF Adds
    <3>6. NewId(t) = <<t, 1>>
      BY <2>1, <3>3, <3>5, NewIdIs
    <3>. QED
      BY <3>2, <3>5, <3>6
  <2>4. CASE Inlines(t)
    <3>1. pc[t] \in Before
      BY <2>4 DEF Inlines, SearchInline, NothingToUpdate, Update, UpdateFails, UpdatedBack,
         InlineLost, Before
    <3>2. Known(r.id)
      <4>1. CASE pc[t] = "update"
        BY <1>2, <1>6, <4>1, Kinds DEF Adds, MayInsert
      <4>2. CASE pc[t] # "update"
        <5>1. everRows' = everRows
          BY <2>4, <4>2 DEF Inlines, SearchInline, NothingToUpdate, Update, UpdateFails,
             UpdatedBack, InlineLost, hist
        <5>. QED
          BY <1>6, <5>1 DEF Known
      <4>. QED
        BY <4>1, <4>2
    <3>3. reconnected[t] /\ r.id = <<t, 1>>
      BY <1>6, <2>1, <3>1, <3>2 DEF Known, IdInv
    <3>4. reconnected'[t]
      BY <2>4, <3>3 DEF Inlines, SearchInline, NothingToUpdate, Update, UpdateFails,
         UpdatedBack, InlineLost, Reconnect
    <3>. QED
      BY <3>3, <3>4
  <2>5. CASE Insert(t) \/ SelectBack(t) \/ SelectLost(t)
    BY <1>6, <2>2, <2>5 DEF Insert, SelectBack, SelectLost, Goto, TypeOK, Before
  <2>6. CASE Stamp(t) \/ Ends(t)
    BY <1>6, <2>6, EndsAre DEF Before
  <2>. QED
    BY <1>6, <2>3, <2>4, <2>5, <2>6, Doers DEF Creates
<1>7. ASSUME NEW u \in Callers
      PROVE  /\ fieldsId'[u] # None => fieldsId'[u][1] = u
             /\ KnowsItsId(u) => \A r \in everRows' : r.id[1] = u => r.id = fieldsId'[u]
             /\ pc'[u] = "select" => fieldsId'[u] # None
             /\ u \in Creators \cup Inliners /\ pc'[u] \in Before /\ fieldsId'[u] = None =>
                  \A r \in everRows' : r.id[1] = u => reconnected'[u] /\ r.id = <<u, 1>>
  <2>1. CASE u = t
    BY <1>4, <1>5, <1>6, <2>1, OwnId
  <2>2. CASE u # t
    <3>1. \A r \in everRows' : r.id[1] = u => \E s \in everRows : s.id = r.id
      BY <1>3, <2>2 DEF Known
    <3>. QED
      BY <1>3, <2>2, <3>1 DEF IdInv
  <2>. QED
    BY <2>1, <2>2
<1>. QED
  BY <1>7 DEF IdInv, KnowsItsId, Before

-----------------------------------------------------------------------------
\* What a step leaves of another finder's transaction.
LEMMA OthersInTx ==
    ASSUME TypeOK, NEW t \in Callers, Step(t), NEW u \in Finders, u # t
    PROVE  /\ InTransaction(u)' = InTransaction(u) /\ HasWritten(u)' = HasWritten(u)
           /\ pc'[u] = pc[u] /\ ref'[u] = ref[u] /\ view'[u] = view[u] /\ work'[u] = work[u]
           /\ wasCreated'[u] = wasCreated[u] /\ fieldsId'[u] = fieldsId[u]
           /\ (stale[u] => stale'[u])
  BY OthersStay, Kinds DEF InTransaction, HasWritten

TxOf(t) ==
    /\ view[t] \subseteq everRows /\ Unique(view[t])
    /\ pc[t] = "create" => work[t] = view[t] /\ SeesNone(t)
    /\ pc[t] # "create" => ref[t] # None
    /\ pc[t] # "create" /\ wasCreated[t] => Made(t)
    /\ pc[t] = "patch" /\ ~wasCreated[t] => ref[t] \in view[t] /\ work[t] = view[t]
    /\ pc[t] = "commit" => ref[t].val = "patched"
    /\ pc[t] = "commit" /\ ~wasCreated[t] => Found(t)

LEMMA TxStep ==
    ASSUME TypeOK, StoreInv, IdInv, TxInv, NEW t \in Callers, Step(t)
    PROVE  TxInv'
<1>1. TypeOK' /\ RowsStep(t)
  BY TypeStep, TableStep
<1>2. ASSUME NEW u \in Finders, u # t, InTransaction(u)'  PROVE TxOf(u)'
  <2>1. TxOf(u)
    BY <1>2, OthersInTx DEF TxOf, TxInv
  <2>2. SeesNone(u) => SeesNone(u)'
    <3>1. \A s \in table' : s.id[1] = u => \E r \in table : r.id = s.id
      BY <1>1, <1>2 DEF RowsStep, InTable, Adds
    <3>. QED
      BY <1>2, <3>1, OthersInTx DEF SeesNone
  <2>3. view'[u] \subseteq everRows'
    BY <1>1, <1>2, <2>1, OthersInTx DEF RowsStep, TxOf
  <2>. QED
    BY <1>2, <2>1, <2>2, <2>3, OthersInTx DEF TxOf, Made, Found, Unique
<1>3. ASSUME t \in Finders, InTransaction(t)'  PROVE TxOf(t)'
  <2>1. Search(t) \/ Create(t) \/ Patch(t)
    BY <1>3, Doers, RestartAborts, EndsAre
       DEF Aborts, Commit, CommitUnanswered, Goto, TypeOK, InTransaction
  <2>2. CASE Search(t)
    <3>1. /\ view'[t] = table /\ work'[t] = table /\ ~wasCreated'[t]
          /\ table' = table /\ everRows' = everRows /\ fieldsId' = fieldsId
      BY <2>2 DEF Search, TypeOK, hist
    <3>2. table \subseteq everRows /\ Unique(table)
      BY DEF StoreInv, TypeOK, Unique
    <3>3. CASE Matches(t) = {}
      <4>1. pc'[t] = "create"
        BY <2>2, <3>3 DEF Search, Goto, TypeOK
      <4>2. \A r \in table : r.id[1] # t
        BY <1>3, <3>2, <3>3, Kinds DEF Matches, IdInv, KnowsItsId
      <4>. QED
        BY <3>1, <3>2, <4>1, <4>2 DEF TxOf, SeesNone, Unique
    <3>4. CASE Matches(t) # {}
      <4>1. pc'[t] = "patch" /\ ref'[t] \in table
        BY <2>2, <3>4 DEF Search, Goto, Hold, Matches, TypeOK
      <4>2. ref'[t] # None
        BY <4>1, RowTypes DEF TypeOK
      <4>. QED
        BY <3>1, <3>2, <4>1, <4>2 DEF TxOf, Unique
    <3>. QED
      BY <3>3, <3>4
  <2>3. CASE Create(t)
    <3>1. pc[t] = "create" /\ InTransaction(t) /\ TxOf(t)
      BY <2>3, <1>3 DEF Create, InTransaction, TxInv, TxOf
    <3>2. /\ work'[t] = work[t] \cup {NewRow(t)} /\ ref'[t] = NewRow(t) /\ wasCreated'[t]
          /\ pc'[t] = "patch" /\ fieldsId'[t] = NewId(t) /\ view' = view /\ table' = table
          /\ everRows' = everRows
      BY <2>3 DEF Create, IdOfRow, Hold, Goto, TypeOK, hist
    <3>3. NewRow(t) \in Rows /\ NewRow(t).id = NewId(t) /\ NewId(t)[1] = t /\ NewRow(t) # None
      BY <1>3, <3>1, Kinds, NewRowIs, RowTypes DEF MayInsert
    <3>. QED
      BY <3>1, <3>2, <3>3 DEF TxOf, Made, SeesNone, Unique
  <2>4. CASE Patch(t)
    <3>1. pc[t] = "patch" /\ InTransaction(t) /\ TxOf(t)
      BY <2>4 DEF Patch, InTransaction, TxInv, TxOf
    <3>2. /\ work'[t] = (work[t] \ {ref[t]}) \cup {Patched(t)} /\ ref'[t] = Patched(t)
          /\ pc'[t] = "commit" /\ fieldsId' = fieldsId /\ view' = view /\ table' = table
          /\ everRows' = everRows /\ wasCreated' = wasCreated
      BY <2>4 DEF Patch, Hold, Goto, TypeOK, hist
    <3>3. ref[t] \in Rows
      BY <3>1 DEF TxOf, TypeOK
    <3>4. Patched(t) \in Rows /\ Patched(t).id = ref[t].id /\ Patched(t).val = "patched"
          /\ Patched(t) # None
      BY <3>3, RowTypes DEF Patched
    <3>5. CASE wasCreated[t]
      <4>1. Made(t) /\ ref[t] \notin view[t]
        BY <3>1, <3>5 DEF TxOf, Made, SeesNone
      <4>. QED
        BY <3>1, <3>2, <3>4, <3>5, <4>1 DEF TxOf, Made, SeesNone, Unique
    <3>6. CASE ~wasCreated[t]
      BY <3>1, <3>2, <3>4, <3>6 DEF TxOf, Found, Unique
    <3>. QED
      BY <3>5, <3>6
  <2>. QED
    BY <2>1, <2>2, <2>3, <2>4
<1>4. ASSUME NEW u \in Finders, InTransaction(u)'  PROVE TxOf(u)'
  BY <1>2, <1>3, <1>4
<1>. QED
  BY <1>4 DEF TxInv, TxOf

-----------------------------------------------------------------------------
LEMMA OutcomeStep ==
    ASSUME TypeOK, StoreInv, IdInv, TxInv, OutcomeInv, NEW t \in Callers, Step(t)
    PROVE  OutcomeInv'
<1>1. everRows \subseteq everRows' /\ table \subseteq everRows /\ TypeOK'
  BY TableStep, TypeStep DEF RowsStep, StoreInv
<1>2. ASSUME NEW u \in Finders \cup Inliners, u # t
      PROVE  (Placed(u) /\ Held(u) /\ Knows(u))'
  <2>1. HasInserted(u)' <=> HasInserted(u)
    BY <1>1, <1>2, ElsewhereStep, Kinds DEF HasInserted
  <2>2. Placed(u) /\ Held(u) /\ Knows(u)
    BY <1>2 DEF OutcomeInv
  <2>. QED
    BY <1>1, <1>2, <2>1, <2>2, OthersStay, Kinds DEF Placed, Held, Knows
<1>3. ASSUME Stamp(t) \/ Ends(t), t \in Finders \cup Inliners
      PROVE  (Placed(t) /\ Held(t) /\ Knows(t))'
  <2>1. Placed(t) /\ Held(t) /\ Knows(t) /\ pc[t] \in Resolved /\ pc'[t] \in Resolved
    BY <1>3, EndsAre DEF OutcomeInv, Resolved
  <2>2. /\ everRows' = everRows /\ answerLost' = answerLost /\ told' = told
        /\ fieldsId' = fieldsId
    BY <1>3, EndsAre DEF hist, meta
  <2>3. CASE ref' = ref
    BY <2>1, <2>2, <2>3 DEF Placed, Held, Knows, HasInserted, Resolved
  <2>4. CASE told[t] /\ ref'[t] \in table /\ ref'[t].id = ref[t].id
    <3>1. ref'[t] \in everRows'
      BY <1>1, <2>2, <2>4
    <3>2. t \in Finders => ref'[t].id[1] = t
      BY <1>3, <2>1, <2>4 DEF Knows, IdInv
    <3>3. t \in Finders => ref'[t].val = "patched"
      BY <2>2, <3>1, <3>2 DEF StoreInv
    <3>. QED
      BY <2>1, <2>2, <2>4, <3>1, <3>3 DEF Placed, Held, Knows, HasInserted, Resolved
  <2>. QED
    BY <1>3, <2>3, <2>4, EndsAre
<1>4. ASSUME t \in Finders, ~(Stamp(t) \/ Ends(t))
      PROVE  (Placed(t) /\ Held(t) /\ Knows(t))'
  <2>1. pc[t] \in {"new", "create", "patch", "commit"}
    BY <1>4, Doers DEF Search, Create, Patch, Commit, CommitUnanswered, Restarts,
       SearchConflicts, CreateConflicts, CreateDuplicate, PatchConflicts, PatchFails,
       CommitRefused, FinderLost, InTransaction
  <2>2. HasInserted(t) => t \in answerLost
    BY <1>4, <2>1, Kinds DEF OutcomeInv, Placed, Resolved
  <2>3. CASE Search(t) \/ Create(t) \/ Patch(t) \/ Restarts(t)
    <3>1. everRows' = everRows /\ answerLost' = answerLost /\ pc'[t] \notin Resolved
      BY <2>3, RestartAborts DEF Search, Create, Patch, Aborts, hist, Goto, TypeOK, Resolved
    <3>. QED
      BY <1>4, <2>2, <3>1, Kinds DEF HasInserted, Placed, Held, Knows
  <2>4. CASE Commit(t)
    <3>1. /\ pc[t] = "commit" /\ ~Refused(t) /\ SetTable(Applied(t))
          /\ told'[t] = wasCreated[t] /\ pc'[t] = "inflate" /\ ref' = ref
          /\ answerLost' = answerLost /\ fieldsId' = fieldsId
      BY <1>4, <2>4, Kinds DEF Commit, Commits, Told, Goto, TypeOK
    <3>2. ref[t] \in everRows' /\ ref[t].val = "patched"
          /\ (wasCreated[t] => ref[t].id[1] = t /\ ref[t].id = fieldsId[t])
      BY <1>4, <3>1, RowsCommit, AppliedIs DEF Refused
    <3>3. HasInserted(t)' => HasInserted(t) \/ wasCreated[t]
      BY <1>4, <3>1, Kinds, ElsewhereStep DEF HasInserted, Known, Adds
    <3>4. wasCreated[t] => HasInserted(t)'
      BY <3>2 DEF HasInserted
    <3>5. wasCreated[t] => fieldsId[t] # None
      BY <1>1, <3>2, RowTypes DEF TypeOK
    <3>. QED
      BY <1>4, <2>2, <3>1, <3>2, <3>3, <3>4, <3>5, Kinds DEF Placed, Held, Knows, Resolved
  <2>5. CASE CommitUnanswered(t)
    BY <1>4, <2>5, Kinds DEF CommitUnanswered, Goto, TypeOK, Placed, Held, Knows, Resolved
  <2>. QED
    BY <1>4, <2>3, <2>4, <2>5, Doers
<1>5. ASSUME t \in Inliners, Inlines(t)
      PROVE  (Placed(t) /\ Held(t) /\ Knows(t))'
  <2>1. Placed(t) /\ Held(t) /\ t \notin Finders
    BY <1>5, Kinds DEF OutcomeInv
  <2>2. pc[t] \in {"new", "update", "updated"}
    BY <1>5 DEF Inlines, SearchInline, NothingToUpdate, Update, UpdateFails, UpdatedBack,
       InlineLost
  <2>3. HasInserted(t)' <=> HasInserted(t)
    <3>1. CASE pc[t] = "new"
      <4>1. everRows' = everRows
        BY <1>5, <3>1 DEF Inlines, SearchInline, NothingToUpdate, Update, UpdateFails,
           UpdatedBack, InlineLost, hist
      <4>. QED
        BY <4>1 DEF HasInserted
    <3>2. CASE pc[t] # "new"
      BY <1>1, <2>1, <2>2, <3>2, ElsewhereStep DEF HasInserted, Known, Adds, MayInsert
    <3>. QED
      BY <3>1, <3>2
  <2>4. CASE SearchInline(t)
    <3>1. /\ pc[t] = "new" /\ pc'[t] \in {"insert", "update"} /\ answerLost' = answerLost
          /\ wasCreated'[t] = FALSE /\ (pc'[t] = "update" => ref'[t] \in table)
      BY <1>5, <2>4, Kinds DEF SearchInline, Matches, Hold, Goto, TypeOK, hist
    <3>. QED
      BY <1>1, <2>1, <2>3, <3>1 DEF Placed, Held, Knows, Resolved
  <2>5. CASE NothingToUpdate(t)
    <3>1. /\ pc[t] = "update" /\ pc'[t] = "inflate" /\ told'[t] = wasCreated[t]
          /\ ref' = ref /\ answerLost' = answerLost
      BY <1>5, <2>5, Kinds DEF NothingToUpdate, Told, Goto, TypeOK, hist
    <3>. QED
      BY <1>1, <1>5, <2>1, <2>3, <3>1 DEF Placed, Held, Knows, Resolved
  <2>6. CASE Update(t) \/ UpdateFails(t)
    <3>1. /\ pc[t] = "update" /\ pc'[t] \in {"updated", "rejected"} /\ wasCreated' = wasCreated
          /\ ref' = ref /\ answerLost' = answerLost
      BY <1>5, <2>6, Kinds DEF Update, UpdateFails, Goto, TypeOK, hist, meta
    <3>. QED
      BY <1>1, <1>5, <2>1, <2>3, <3>1 DEF Placed, Held, Knows, Resolved
  <2>7. CASE UpdatedBack(t)
    <3>1. /\ pc[t] = "updated" /\ pc'[t] \in {"inflate", "rejected"} /\ answerLost' = answerLost
          /\ pc'[t] = "inflate" => ref'[t] \in table /\ told'[t] = wasCreated[t]
      BY <1>5, <2>7, Kinds DEF UpdatedBack, Current, Told, Hold, Goto, TypeOK, hist
    <3>. QED
      BY <1>1, <1>5, <2>1, <2>3, <3>1 DEF Placed, Held, Knows, Resolved
  <2>8. CASE InlineLost(t)
    <3>1. /\ pc'[t] \in {"new", "rejected"} /\ answerLost \subseteq answerLost'
          /\ (wasCreated[t] => t \in answerLost')
      BY <1>5, <2>8, Kinds DEF InlineLost, Reconnect, Reject, Goto, TypeOK
    <3>. QED
      BY <1>5, <2>1, <2>2, <2>3, <3>1 DEF Placed, Held, Knows, Resolved
  <2>. QED
    BY <1>5, <2>4, <2>5, <2>6, <2>7, <2>8 DEF Inlines
<1>6. ASSUME t \in Inliners, Creates(t)
      PROVE  (Placed(t) /\ Held(t) /\ Knows(t))'
  <2>1. Placed(t) /\ t \notin Finders /\ t \notin Creators
    BY <1>6, Kinds DEF OutcomeInv
  <2>2. CASE Insert(t)
    <3>1. /\ pc[t] = "insert" /\ pc'[t] \in {"select", "rejected"} /\ answerLost' = answerLost
      BY <1>6, <2>1, <2>2, Kinds DEF Insert, Inserting, Goto, TypeOK
    <3>. QED
      BY <1>6, <3>1 DEF Placed, Held, Knows, Resolved
  <2>3. CASE InsertUnanswered(t) \/ SelectLost(t)
    <3>1. /\ pc'[t] \in {"new", "rejected"} /\ answerLost \subseteq answerLost'
          /\ t \in answerLost' \/ (everRows' = everRows /\ pc[t] = "insert")
      BY <1>6, <2>1, <2>3, Kinds DEF InsertUnanswered, SelectLost, Inserting, Reconnect, Reject,
         Goto, TypeOK, hist
    <3>. QED
      BY <1>6, <2>1, <3>1 DEF Placed, Held, Knows, Resolved, HasInserted
  <2>4. CASE SelectBack(t)
    <3>1. /\ pc[t] = "select" /\ pc'[t] \in {"update", "rejected"} /\ everRows' = everRows
          /\ wasCreated'[t] = TRUE
          /\ pc'[t] = "update" => ref'[t] \in RowOf(t)
      BY <1>6, <2>4, Kinds DEF SelectBack, Hold, Goto, TypeOK, hist
    <3>2. pc'[t] = "update" => ref'[t] \in everRows' /\ ref'[t].id[1] = t
      BY <1>1, <1>6, <3>1, Kinds DEF RowOf, IdInv
    <3>. QED
      BY <1>6, <3>1, <3>2 DEF Placed, Held, Knows, Resolved, HasInserted
  <2>. QED
    BY <1>6, <2>2, <2>3, <2>4 DEF Creates
<1>7. ASSUME NEW u \in Finders \cup Inliners  PROVE (Placed(u) /\ Held(u) /\ Knows(u))'
  <2>1. CASE u # t
    BY <1>2, <1>7, <2>1
  <2>2. CASE u = t
    BY <1>3, <1>4, <1>5, <1>6, <1>7, <2>2, Doers
  <2>. QED
    BY <2>1, <2>2
<1>. QED
  BY <1>7 DEF OutcomeInv

-----------------------------------------------------------------------------
IgnorerOf(t) ==
    /\ pc[t] = "new" => fieldsId[t] = None
    /\ pc[t] = "readBack" => fieldsId[t] # None
    /\ pc[t] \in {"new", "readBack"} => ref[t] = None
    /\ pc[t] = "fulfilled" /\ ref[t] = None /\ NobodyDestroyed => ~HasInserted(t)
    /\ pc[t] = "fulfilled" /\ ref[t] # None => ref[t].id[1] = t /\ Known(ref[t].id)

UpserterOf(t) ==
    /\ pc[t] = "readBack" => everRows # {}
    /\ pc[t] = "fulfilled" /\ t \in ConflictColumns /\ NobodyDestroyed => ref[t] # None

LEMMA ReadStep ==
    ASSUME TypeOK, StoreInv, IdInv, TxInv, ReadInv, NEW t \in Callers, Step(t)
    PROVE  ReadInv'
<1>1. everRows \subseteq everRows' /\ (NobodyDestroyed' => NobodyDestroyed)
  BY TableStep, ElsewhereStep DEF RowsStep
<1>2. ASSUME NEW u \in Ignorers, u # t  PROVE IgnorerOf(u)'
  <2>1. IgnorerOf(u) /\ u \in Callers
    BY Kinds DEF ReadInv, IgnorerOf
  <2>2. HasInserted(u)' => HasInserted(u)
    BY <1>2, <2>1, ElsewhereStep
  <2>3. \A id : Known(id) => Known(id)'
    BY <1>1 DEF Known
  <2>. QED
    BY <1>1, <1>2, <2>1, <2>2, <2>3, OthersStay DEF IgnorerOf, Known
<1>3. ASSUME NEW u \in Upserters, u # t  PROVE UpserterOf(u)'
  <2>1. UpserterOf(u) /\ u \in Callers
    BY Kinds DEF ReadInv, UpserterOf
  <2>. QED
    BY <1>1, <1>3, <2>1, OthersStay DEF UpserterOf
<1>4. ASSUME t \in Ignorers  PROVE IgnorerOf(t)'
  <2>1. IgnorerOf(t) /\ KnowsItsId(t) /\ t \notin ConflictColumns
    BY <1>4, Kinds DEF ReadInv, IgnorerOf, KnowsItsId
  <2>2. CASE InsertIgnore(t)
    <3>1. /\ pc[t] = "new" /\ fieldsId[t] = None /\ ref[t] = None /\ ref' = ref
          /\ fieldsId'[t] = NewId(t) /\ pc'[t] \in {"readBack", "fulfilled"}
          /\ pc'[t] = "fulfilled" => everRows' = everRows
      BY <2>1, <2>2 DEF InsertIgnore, IgnorerOf, IdOfRow, Goto, TypeOK
    <3>2. NewId(t) # None
      BY <1>4, <3>1, Kinds, NewIdIs DEF MayInsert
    <3>3. ~HasInserted(t)
      BY <2>1, <3>1, RowTypes DEF HasInserted, IdInv, TypeOK
    <3>. QED
      BY <3>1, <3>2, <3>3 DEF IgnorerOf, HasInserted
  <2>3. CASE ReadBack(t)
    <3>1. /\ pc[t] = "readBack" /\ fieldsId[t] # None /\ ref[t] = None /\ pc'[t] = "fulfilled"
          /\ UNCHANGED <<table, everRows, fieldsId>>
          /\ IF RowOf(t) = {} THEN ref' = ref ELSE \E r \in RowOf(t) : ref'[t] = r
      BY <2>1, <2>3 DEF ReadBack, IgnorerOf, Lookup, Hold, Goto, TypeOK, hist
    <3>2. CASE RowOf(t) = {}
      <4>1. NobodyDestroyed' => ~HasInserted(t)
        BY <1>1, <2>1, <3>2 DEF RowOf, HasInserted, IdInv, StoreInv, InTable
      <4>. QED
        BY <3>1, <3>2, <4>1 DEF IgnorerOf, HasInserted
    <3>3. CASE RowOf(t) # {}
      <4>1. ref'[t] \in table /\ ref'[t].id = fieldsId[t] /\ fieldsId[t][1] = t
        BY <3>1, <3>3 DEF RowOf, IdInv
      <4>2. ref'[t] # None /\ ref'[t] \in everRows'
        BY <3>1, <4>1, RowTypes DEF TypeOK, StoreInv
      <4>. QED
        BY <3>1, <4>1, <4>2 DEF IgnorerOf, Known
    <3>. QED
      BY <3>2, <3>3
  <2>. QED
    BY <1>4, <2>2, <2>3, Doers
<1>5. ASSUME t \in Upserters  PROVE UpserterOf(t)'
  <2>1. UpserterOf(t) /\ t \notin Creators \cup Ignorers
    BY <1>5, Kinds DEF ReadInv, UpserterOf
  <2>2. CASE InsertOrUpdate(t)
    <3>1. pc'[t] = "readBack" /\ (table # {} => everRows' # {})
      BY <1>1, <2>2 DEF InsertOrUpdate, Goto, StoreInv, TypeOK
    <3>2. CASE Admits(table, NewId(t))
      BY <2>2, <3>1, <3>2 DEF InsertOrUpdate, SetTable, UpserterOf
    <3>3. CASE ~Admits(table, NewId(t))
      BY <3>1, <3>3 DEF Admits, UpserterOf
    <3>. QED
      BY <3>2, <3>3
  <2>3. CASE UpsertRefused(t)
    BY <2>3 DEF UpsertRefused, Goto, TypeOK, UpserterOf
  <2>4. CASE ReadBack(t)
    <3>1. /\ pc[t] = "readBack" /\ pc'[t] = "fulfilled" /\ UNCHANGED everRows
          /\ t \in ConflictColumns =>
               IF table = {} THEN ref' = ref ELSE \E r \in table : ref'[t] = r
      BY <2>4 DEF ReadBack, Lookup, Hold, Goto, TypeOK, hist
    <3>2. NobodyDestroyed' => table # {}
      BY <1>1, <2>1, <3>1 DEF UpserterOf, StoreInv, InTable
    <3>. QED
      BY <3>1, <3>2, RowTypes DEF UpserterOf, TypeOK
  <2>. QED
    BY <1>5, <2>2, <2>3, <2>4, Doers
<1>6. \A u \in Ignorers : IgnorerOf(u)'
  BY <1>2, <1>4
<1>7. \A u \in Upserters : UpserterOf(u)'
  BY <1>3, <1>5
<1>. QED
  BY <1>6, <1>7 DEF ReadInv, IgnorerOf, UpserterOf

-----------------------------------------------------------------------------
LEMMA LockStep ==
    ASSUME TypeOK, StoreInv, IdInv, TxInv, LockInv, NEW t \in Callers, Step(t)
    PROVE  LockInv'
<1>1. server' = server /\ server \in {"mysql", "postgres", "sqlite"}
  BY OthersStay, ServersAssumption DEF TypeOK, base
<1>2. ASSUME NEW u \in Finders, u # t, t \in Finders, InTransaction(u), InTransaction(t)'
      PROVE  \/ server = "postgres"
             \/ server = "mysql" /\ ~HasWritten(u) /\ ~HasWritten(t)'
  <2>1. Search(t) \/ Create(t) \/ Patch(t)
    BY <1>2, Doers, RestartAborts, EndsAre
       DEF Aborts, Commit, CommitUnanswered, Goto, TypeOK, InTransaction
  <2>2. u \in Others(t)
    BY <1>2 DEF Others
  <2>3. CASE Search(t)
    <3>1. MayRead(t) /\ ~HasWritten(t)'
      BY <2>3 DEF Search, HasWritten, TypeOK
    <3>. QED
      BY <1>1, <1>2, <2>2, <3>1 DEF MayRead
  <2>4. CASE Create(t)
    <3>1. MayWriteIn(t) /\ InTransaction(t)
      BY <2>4 DEF Create, InTransaction
    <3>. QED
      BY <1>1, <1>2, <2>2, <3>1 DEF MayWriteIn, LockInv
  <2>5. CASE Patch(t)
    <3>1. InTransaction(t) /\ (Patched(t) # ref[t] => MayWriteIn(t))
          /\ work'[t] = (work[t] \ {ref[t]}) \cup {Patched(t)} /\ view' = view
      BY <2>5 DEF Patch, InTransaction, TypeOK
    <3>2. CASE Patched(t) # ref[t]
      BY <1>1, <1>2, <2>2, <3>1, <3>2 DEF MayWriteIn, LockInv
    <3>3. CASE Patched(t) = ref[t]
      <4>1. ref[t] \in work[t]
        BY <1>2, <2>5, <3>1 DEF Patch, TxInv, Made
      <4>2. work'[t] = work[t]
        BY <3>1, <3>3, <4>1
      <4>. QED
        BY <1>2, <3>1, <4>2 DEF LockInv, HasWritten
    <3>. QED
      BY <3>2, <3>3
  <2>. QED
    BY <2>1, <2>3, <2>4, <2>5
<1>3. ASSUME NEW u \in Finders, NEW v \in Finders, u # v, InTransaction(u)', InTransaction(v)'
      PROVE  server = "postgres" \/ (server = "mysql" /\ ~HasWritten(u)')
  <2>1. CASE u # t /\ v # t
    BY <1>3, <2>1, OthersInTx DEF LockInv
  <2>2. CASE u = t
    BY <1>2, <1>3, <2>2, OthersInTx
  <2>3. CASE v = t
    BY <1>2, <1>3, <2>3, OthersInTx
  <2>. QED
    BY <2>1, <2>2, <2>3
<1>. QED
  BY <1>1, <1>3 DEF LockInv

-----------------------------------------------------------------------------
\* Once an attempt has failed, or another has written, it stays so.
LEMMA FirstBefore ==
    ASSUME IInv, NEW t \in Callers, Step(t), FirstAttempts'
    PROVE  /\ FirstAttempts
           /\ t \in Finders => pc'[t] # "new"
           /\ \A r \in everRows' : ~Known(r.id) => t \in Finders /\ Adds(t, r.id)
           /\ \A s \in table' : ~InTable(s.id) => t \in Finders /\ Adds(t, s.id)
<1>1. TypeOK /\ StoreInv /\ IdInv /\ TxInv /\ TypeOK'
  BY TypeStep DEF IInv
<1>2. everRows \subseteq everRows' /\ NobodyDestroyed /\ t \notin Destroyers
      /\ everRows' \subseteq Rows
  BY <1>1, TableStep, ElsewhereStep DEF RowsStep, FirstAttempts, OnlyFindersWrote
<1>3. \A u \in Callers \ {t} : attempt'[u] = attempt[u] /\ reconnected'[u] = reconnected[u]
  BY <1>1, OthersStay
<1>4. ASSUME t \in Finders
      PROVE  attempt[t] = 0 /\ ~reconnected[t] /\ pc'[t] # "new"
  <2>1. attempt'[t] = 0 /\ ~reconnected'[t]
    BY <1>4 DEF FirstAttempts
  <2>2. CASE Restarts(t)
    BY <1>1, <2>1, <2>2, RestartAborts DEF Aborts
  <2>3. ~CommitUnanswered(t)
    BY <1>1, <2>1 DEF CommitUnanswered, TypeOK
  <2>4. CASE Search(t) \/ Create(t) \/ Patch(t) \/ Commit(t)
    BY <1>1, <2>1, <2>4 DEF Search, Create, Patch, Commit, Goto, TypeOK
  <2>5. CASE Stamp(t) \/ Ends(t)
    BY <1>1, <2>1, <2>5, EndsAre DEF tx
  <2>. QED
    BY <1>4, <2>2, <2>3, <2>4, <2>5, Doers
<1>5. FirstAttempts
  <2>1. \A v \in Finders : attempt[v] = 0 /\ ~reconnected[v]
    BY <1>3, <1>4, Kinds DEF FirstAttempts
  <2>. QED
    BY <1>2, <2>1 DEF FirstAttempts, OnlyFindersWrote
<1>6. \A r \in everRows' : r.id[1] \in Finders
  BY DEF FirstAttempts, OnlyFindersWrote
<1>7. /\ \A r \in everRows' : ~Known(r.id) => t \in Finders /\ Adds(t, r.id)
      /\ \A s \in table' : ~InTable(s.id) => t \in Finders /\ Adds(t, s.id)
  BY <1>1, <1>6, TableStep, ElsewhereStep DEF RowsStep, Adds
<1>. QED
  BY <1>4, <1>5, <1>7

BlankOf(t) ==
    /\ pc[t] = "new" => fieldsId[t] = None
    /\ InTransaction(t) /\ (pc[t] = "create" \/ wasCreated[t]) => view[t] = {}
    /\ InTransaction(t) /\ view[t] = {} => StillBlank(t)

(***************************************************************************)
(* A finder that makes a row saw an empty table; the table is empty still, *)
(* or the commit is refused.                                               *)
(***************************************************************************)
LEMMA FirstOfAll ==
    ASSUME IInv, FirstAttempts, NEW t \in Finders, NEW id, Adds(t, id)
    PROVE  table = {} /\ everRows = {}
<1>1. pc[t] = "commit" /\ wasCreated[t] /\ InTransaction(t) /\ HasWritten(t) /\ ~Refused(t)
  BY Kinds DEF Adds, InTransaction
<1>2. StillBlank(t)
  BY <1>1 DEF IInv, AgreeInv
<1>3. table = {}
  BY <1>1, <1>2 DEF StillBlank, Refused, MustConflict
<1>. QED
  BY <1>3 DEF IInv, StoreInv, InTable, FirstAttempts, OnlyFindersWrote

LEMMA AgreeStep ==
    ASSUME IInv, NEW t \in Callers, Step(t)
    PROVE  AgreeInv'
<1>. SUFFICES ASSUME FirstAttempts'  PROVE /\ \A r, s \in everRows' : r.id = s.id
                                          /\ \A u \in Finders : BlankOf(u)'
  BY DEF AgreeInv, BlankOf
<1>1. TypeOK /\ StoreInv /\ IdInv /\ TxInv /\ LockInv /\ RowsStep(t) /\ LockInv'
  BY TableStep, LockStep DEF IInv
<1>2. /\ FirstAttempts
      /\ t \in Finders => pc'[t] # "new"
      /\ \A r \in everRows' : ~Known(r.id) => t \in Finders /\ Adds(t, r.id)
      /\ \A s \in table' : ~InTable(s.id) => t \in Finders /\ Adds(t, s.id)
  BY FirstBefore
<1>3. (\A r, s \in everRows : r.id = s.id) /\ \A u \in Finders : BlankOf(u)
  BY <1>2 DEF IInv, AgreeInv, BlankOf
<1>4. \A r, s \in everRows' : r.id = s.id
  <2>1. CASE \A r \in everRows' : Known(r.id)
    BY <1>3, <2>1 DEF Known
  <2>2. CASE \E r \in everRows' : ~Known(r.id)
    <3>1. t \in Finders /\ everRows = {}
      BY <1>2, <2>2, FirstOfAll
    <3>2. \A r \in everRows' : Adds(t, r.id)
      BY <1>2, <3>1 DEF Known
    <3>. QED
      BY <3>1, <3>2, Kinds DEF Adds
  <2>. QED
    BY <2>1, <2>2
<1>5. ASSUME NEW u \in Finders, u # t  PROVE BlankOf(u)'
  <2>1. BlankOf(u) /\ server' = server
    BY <1>1, <1>3, <1>5, OthersStay DEF base
  <2>2. ASSUME InTransaction(u), StillBlank(u)  PROVE StillBlank(u)'
    <3>1. CASE table' = {} \/ (server = "postgres" /\ stale[u])
      BY <1>1, <1>5, <2>1, <3>1, OthersInTx DEF StillBlank
    <3>2. CASE table' # {} /\ table = {}
      <4>1. PICK id : t \in Finders /\ Adds(t, id)
        BY <1>2, <3>2 DEF InTable
      <4>2. pc[t] = "commit" /\ HasWritten(t) /\ InTransaction(t)
        BY <4>1, Kinds DEF Adds, InTransaction
      <4>3. server = "postgres"
        BY <1>1, <1>5, <2>2, <4>1, <4>2 DEF LockInv
      <4>4. Commit(t) \/ CommitUnanswered(t)
        <5>1. everRows' # everRows
          BY <1>1, <3>2, <4>1, <1>2, FirstOfAll DEF RowsStep
        <5>. QED
          BY <1>1, <4>1, <5>1, Doers, RestartAborts, EndsAre
             DEF Search, Create, Patch, Aborts, hist
      <4>5. stale'[u]
        BY <1>5, <2>2, <4>2, <4>4, Kinds DEF Commit, CommitUnanswered, Commits
      <4>. QED
        BY <2>1, <4>3, <4>5 DEF StillBlank
    <3>. QED
      BY <2>2, <3>1, <3>2 DEF StillBlank
  <2>3. /\ InTransaction(u)' = InTransaction(u) /\ pc'[u] = pc[u] /\ view'[u] = view[u]
        /\ wasCreated'[u] = wasCreated[u] /\ fieldsId'[u] = fieldsId[u]
    BY <1>1, <1>5, OthersInTx
  <2>. QED
    BY <2>1, <2>2, <2>3 DEF BlankOf
<1>6. ASSUME t \in Finders  PROVE BlankOf(t)'
  <2>1. BlankOf(t) /\ pc'[t] # "new" /\ server' = server
    BY <1>1, <1>2, <1>3, <1>6, OthersStay DEF base
  <2>2. CASE Search(t)
    <3>1. /\ pc[t] = "new" /\ view'[t] = table /\ table' = table /\ ~wasCreated'[t]
          /\ pc'[t] = "create" => Matches(t) = {}
      BY <1>1, <2>2 DEF Search, Goto, TypeOK
    <3>2. Matches(t) = table
      BY <2>1, <3>1 DEF BlankOf, Matches
    <3>. QED
      BY <2>1, <3>1, <3>2 DEF BlankOf, StillBlank
  <2>3. CASE Create(t) \/ Patch(t)
    <3>1. /\ InTransaction(t) /\ view' = view /\ UNCHANGED <<table, server, stale>>
          /\ pc'[t] # "create" /\ (wasCreated'[t] => pc[t] = "create" \/ wasCreated[t])
      BY <1>1, <2>3 DEF Create, Patch, InTransaction, Goto, TypeOK, base
    <3>. QED
      BY <2>1, <3>1 DEF BlankOf, StillBlank
  <2>4. CASE Commit(t) \/ CommitUnanswered(t) \/ Restarts(t) \/ Stamp(t) \/ Ends(t)
    <3>1. ~InTransaction(t)'
      BY <1>1, <2>4, RestartAborts, EndsAre DEF Commit, CommitUnanswered, Aborts, Goto, TypeOK,
         InTransaction
    <3>. QED
      BY <2>1, <3>1 DEF BlankOf
  <2>. QED
    BY <1>6, <2>2, <2>3, <2>4, Doers
<1>. QED
  BY <1>4, <1>5, <1>6

-----------------------------------------------------------------------------
LEMMA InitInv == Init => IInv
<1>. SUFFICES ASSUME Init  PROVE IInv
  OBVIOUS
<1>1. TypeOK
  <2>1. unique \in BOOLEAN /\ pc \in [Callers -> Phases]
    <3>1. PICK setup \in Setups :
            /\ unique = setup.unique
            /\ pc = [t \in Callers |-> IF t \in setup.calls THEN "new" ELSE "absent"]
      BY DEF Init
    <3>2. setup.unique \in BOOLEAN
      BY SetupsAssumption
    <3>. QED
      BY <3>1, <3>2 DEF Phases
  <2>2. 0 \in 0 .. MaxRetries /\ 0 \in 0 .. MaxFaults
    BY Bounds
  <2>. QED
    BY <2>1, <2>2 DEF Init, TypeOK
<1>2. /\ table = {} /\ everRows = {} /\ \A t \in Callers : pc[t] \in {"new", "absent"}
      /\ \A t \in Callers : fieldsId[t] = None /\ ref[t] = None
  BY DEF Init
<1>3. StoreInv /\ IdInv
  BY <1>2 DEF StoreInv, IdInv
<1>4. TxInv /\ OutcomeInv /\ LockInv
  BY <1>2, Kinds DEF TxInv, OutcomeInv, Placed, Held, Knows, Resolved, LockInv, InTransaction,
     HasInserted
<1>5. ReadInv /\ AgreeInv
  BY <1>2, Kinds DEF ReadInv, AgreeInv, InTransaction
<1>. QED
  BY <1>1, <1>3, <1>4, <1>5 DEF IInv

LEMMA IInvStep == IInv /\ [Next]_vars => IInv'
<1>. SUFFICES ASSUME IInv, [Next]_vars  PROVE IInv'
  OBVIOUS
<1>1. ASSUME NEW t \in Callers, Step(t)  PROVE IInv'
  BY <1>1, TypeStep, StoreStep, IdStep, TxStep, OutcomeStep, ReadStep, LockStep, AgreeStep
     DEF IInv
<1>2. CASE UNCHANGED vars
  BY <1>2 DEF IInv, vars, base, tx, meta, hist, TypeOK, StoreInv, InTable, NobodyDestroyed,
     IdInv, TxInv, InTransaction, SeesNone, Made, Found, OutcomeInv, Placed, Held, Knows,
     HasInserted, ReadInv,
     Known, LockInv, HasWritten, AgreeInv, FirstAttempts, OnlyFindersWrote, StillBlank
<1>. QED
  BY <1>1, <1>2 DEF Next, Finished

LEMMA Invariance == Spec => []IInv
  BY InitInv, IInvStep, PTL DEF Spec

-----------------------------------------------------------------------------
(***************************************************************************)
(* The variables hold what the code can store in them, and ids are unique  *)
(* in the table.                                                           *)
(***************************************************************************)
THEOREM TypeCorrect == Spec => []TypeOK
<1>1. IInv => TypeOK
  BY DEF IInv
<1>. QED
  BY <1>1, Invariance, PTL

(***************************************************************************)
(* A call that keeps its `fields` inserts one row at most, however often   *)
(* it is repeated (lib/dbh.js, create(); lib/obj.js, _runOn).              *)
(***************************************************************************)
THEOREM OneRowPerCall == Spec => []AtMostOneRowPerCall
<1>1. IInv => AtMostOneRowPerCall
  <2>1. SUFFICES ASSUME IInv, NEW t \in Callers, KnowsItsId(t)
                 PROVE  Cardinality(InsertedBy(t)) <= 1
    BY DEF AtMostOneRowPerCall, KnowsItsId
  <2>2. InsertedBy(t) \subseteq {fieldsId[t]}
    BY <2>1 DEF InsertedBy, IInv, IdInv
  <2>3. InsertedBy(t) = {} \/ InsertedBy(t) = {fieldsId[t]}
    BY <2>2
  <2>. QED
    <3>1. Cardinality({}) = 0 /\ Cardinality({fieldsId[t]}) = 1
      BY FS_EmptySet, FS_Singleton
    <3>. QED
      BY <2>3, <3>1
<1>. QED
  BY <1>1, Invariance, PTL

(***************************************************************************)
(* A findOrCreate that fails leaves no row behind                          *)
(* (docs/transactions.md, 103-107).                                        *)
(***************************************************************************)
THEOREM NoRowLeft == Spec => []RejectedFinderLeavesNoRow
<1>1. IInv => RejectedFinderLeavesNoRow
  <2>1. SUFFICES ASSUME IInv, NEW t \in Finders, t \notin answerLost
                 PROVE  /\ pc[t] = "rejected" => InsertedBy(t) = {}
                        /\ pc[t] = "rejectedLate" => InsertedBy(t) \subseteq {ref[t].id}
    BY DEF RejectedFinderLeavesNoRow
  <2>2. Placed(t) /\ Knows(t)
    BY <2>1 DEF IInv, OutcomeInv
  <2>3. CASE pc[t] = "rejected"
    BY <2>1, <2>2, <2>3, Kinds DEF Placed, Resolved, HasInserted, InsertedBy
  <2>4. CASE pc[t] = "rejectedLate"
    <3>1. \A r \in everRows : r.id[1] = t => r.id = fieldsId[t]
      BY <2>1, Kinds DEF IInv, IdInv, KnowsItsId
    <3>2. CASE HasInserted(t)
      BY <2>1, <2>2, <2>4, <3>1, <3>2 DEF Knows, Resolved, InsertedBy
    <3>3. CASE ~HasInserted(t)
      BY <3>3 DEF HasInserted, InsertedBy
    <3>. QED
      BY <3>2, <3>3
  <2>. QED
    BY <2>3, <2>4
<1>. QED
  BY <1>1, Invariance, PTL

(***************************************************************************)
(* What findOrCreate returns was committed as returned, and its hooks are  *)
(* told whether it was created (docs/transactions.md, 139-142).            *)
(***************************************************************************)
THEOREM TruthTold == Spec => []FinderTellsTheTruth
<1>1. \A t : InsertedBy(t) # {} <=> HasInserted(t)
  BY DEF HasInserted, InsertedBy
<1>2. IInv => FinderTellsTheTruth
  BY <1>1 DEF IInv, OutcomeInv, Knows, FinderTellsTheTruth
<1>. QED
  BY <1>2, Invariance, PTL

(***************************************************************************)
(* createIgnore returns the row it inserted and only that; upsert, with    *)
(* conflictColumns, the row it updated (lib/dbh.js, 1172-1176 and 1278).   *)
(***************************************************************************)
THEOREM WinnerReturned == Spec => []WinnerIsReturned
<1>1. ASSUME IInv, NobodyDestroyed, NEW t \in Ignorers, pc[t] = "fulfilled"
      PROVE  IF ref[t] = None THEN InsertedBy(t) = {} ELSE InsertedBy(t) = {ref[t].id}
  <2>1. KnowsItsId(t) /\ t \in Callers
    BY Kinds DEF KnowsItsId
  <2>2. CASE ref[t] = None
    BY <1>1, <2>2 DEF IInv, ReadInv, HasInserted, InsertedBy
  <2>3. CASE ref[t] # None
    <3>1. PICK r \in everRows : r.id = ref[t].id /\ r.id[1] = t
      BY <1>1, <2>3 DEF IInv, ReadInv, Known
    <3>2. \A s \in everRows : s.id[1] = t => s.id = ref[t].id
      BY <1>1, <2>1, <3>1 DEF IInv, IdInv
    <3>. QED
      BY <2>3, <3>1, <3>2 DEF InsertedBy
  <2>. QED
    BY <2>2, <2>3
<1>2. IInv => WinnerIsReturned
  BY <1>1, Kinds DEF WinnerIsReturned, IInv, ReadInv
<1>. QED
  BY <1>2, Invariance, PTL

(***************************************************************************)
(* Finders that nobody and nothing disturbs return the same row            *)
(* (lib/dbh.js, 1069-1072).                                                *)
(***************************************************************************)
THEOREM FirstAgree == Spec => []FirstAttemptsAgree
<1>1. IInv => FirstAttemptsAgree
  BY DEF IInv, OutcomeInv, Knows, AgreeInv, FirstAttempts, FirstAttemptsAgree
<1>. QED
  BY <1>1, Invariance, PTL

====
