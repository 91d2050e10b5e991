---------------------------- MODULE SqliteQueue ----------------------------
(***************************************************************************)
(* How the SQLite dialect shares its one connection                        *)
(* (lib/dialects/SQLiteDialect.js: acquireTransactionConnection, release,  *)
(* beginTransaction and the wrapper's query), driven by runRootTransaction *)
(* (lib/transactions.js).                                                  *)
(*                                                                         *)
(* better-sqlite3 executes a statement synchronously, so what interleaves  *)
(* is JavaScript: tasks issue queries and open transactions at any time,   *)
(* and the continuations of resolved promises wait in the microtask queue, *)
(* which is first-in first-out and modelled as such.                       *)
(***************************************************************************)
EXTENDS Naturals, Sequences, FiniteSets

CONSTANTS
    Txs,          \* top-level dbh.transaction() calls
    Queries,      \* ordinary queries sent through the parent handle
    None,
    AwaitsParent  \* transactions whose callback awaits a parent-handle query

ASSUME NoneAssumption == None \notin Txs \cup Queries
ASSUME DisjointAssumption == Txs \cap Queries = {}
ASSUME AwaitsParentAssumption == AwaitsParent \subseteq Txs

VARIABLES
    pc,            \* where each transaction call stands
    position,      \* which promise of the _transactionQueue chain it installed
    lastPosition,  \* the promise _transactionQueue holds; 0 is Promise.resolve()
    unlocked,      \* chain promises that are resolved
    active,        \* handle._activeTransaction
    deferred,      \* per transaction: queries chained on its _activeTransaction
    query,         \* per query: where it stands
    awaiting,      \* per transaction: the parent-handle query its callback awaits
    jobs,          \* the microtask queue
    dbOwner,       \* the transaction open in the database
    ranInside      \* ordinary queries that ran while a transaction was open

vars == <<pc, position, lastPosition, unlocked, active, deferred, query,
          awaiting, jobs, dbOwner, ranInside>>

Resume(t) == [kind |-> "resume", who |-> t]
BeginJob(t) == [kind |-> "begin", who |-> t]
QueryJob(q) == [kind |-> "query", who |-> q]

Init ==
    /\ pc = [t \in Txs |-> "new"]
    /\ position = [t \in Txs |-> 0]
    /\ lastPosition = 0
    /\ unlocked = {0}
    /\ active = None
    /\ deferred = [t \in Txs |-> <<>>]
    /\ query = [q \in Queries |-> "new"]
    /\ awaiting = [t \in Txs |-> None]
    /\ jobs = <<>>
    /\ dbOwner = None
    /\ ranInside = {}

(***************************************************************************)
(* acquireTransactionConnection up to `await ready`: install a new promise *)
(* behind the current one and wait for that one.                           *)
(***************************************************************************)
Acquire(t) ==
    /\ pc[t] = "new"
    /\ pc' = [pc EXCEPT ![t] = "waiting"]
    /\ position' = [position EXCEPT ![t] = lastPosition + 1]
    /\ lastPosition' = lastPosition + 1
    /\ jobs' = IF lastPosition \in unlocked THEN Append(jobs, Resume(t)) ELSE jobs
    /\ UNCHANGED <<unlocked, active, deferred, query, awaiting, dbOwner, ranInside>>

\* executeQuery: the statement runs at once, inside whatever transaction is open.
Execute(q) ==
    /\ query' = [query EXCEPT ![q] = "done"]
    /\ ranInside' = IF dbOwner # None THEN ranInside \cup {q} ELSE ranInside

\* Mutant: the wrapper's query does not look at _activeTransaction.
DispatchAtOnce(q) == Execute(q) /\ UNCHANGED deferred

\* wrapper.query: behind the active transaction if there is one.
Dispatch(q) ==
    IF active # None
    THEN /\ deferred' = [deferred EXCEPT ![active] = Append(@, q)]
         /\ query' = [query EXCEPT ![q] = "deferred"]
         /\ UNCHANGED ranInside
    ELSE Execute(q) /\ UNCHANGED deferred

Query(q) ==
    /\ query[q] = "new"
    /\ Dispatch(q)
    /\ UNCHANGED <<pc, position, lastPosition, unlocked, active, awaiting, jobs, dbOwner>>

(***************************************************************************)
(* A callback (or a hook it calls without { tx }) awaits a query on the    *)
(* parent handle.                                                          *)
(***************************************************************************)
CallbackQueriesParent(t, q) ==
    /\ t \in AwaitsParent /\ pc[t] = "body" /\ awaiting[t] = None
    /\ query[q] = "new"
    /\ awaiting' = [awaiting EXCEPT ![t] = q]
    /\ Dispatch(q)
    /\ UNCHANGED <<pc, position, lastPosition, unlocked, active, jobs, dbOwner>>

(***************************************************************************)
(* The microtask queue.  A resumed call claims the handle and returns its  *)
(* lease; its BEGIN follows in a later microtask.  A deferred query runs   *)
(* without looking at _activeTransaction again.                            *)
(***************************************************************************)
RunResume(t) ==
    /\ jobs # <<>> /\ Head(jobs) = Resume(t)
    /\ active' = t
    /\ pc' = [pc EXCEPT ![t] = "begin"]
    /\ jobs' = Append(Tail(jobs), BeginJob(t))
    /\ UNCHANGED <<position, lastPosition, unlocked, deferred, query, awaiting,
                   dbOwner, ranInside>>

RunQuery(q) ==
    /\ jobs # <<>> /\ Head(jobs) = QueryJob(q)
    /\ jobs' = Tail(jobs)
    /\ Execute(q)
    /\ UNCHANGED <<pc, position, lastPosition, unlocked, active, deferred, awaiting, dbOwner>>

(***************************************************************************)
(* beginTransaction.  BEGIN is refused while a transaction is open on the  *)
(* connection, and may be refused (SQLITE_BUSY) on account of another      *)
(* process; either way the lease is cleaned up and released.               *)
(***************************************************************************)
RunBegin(t) ==
    /\ jobs # <<>> /\ Head(jobs) = BeginJob(t)
    /\ jobs' = Tail(jobs)
    /\ \/ /\ dbOwner = None
          /\ dbOwner' = t
          /\ pc' = [pc EXCEPT ![t] = "body"]
       \/ /\ UNCHANGED dbOwner
          /\ pc' = [pc EXCEPT ![t] = "ended"]
    /\ UNCHANGED <<position, lastPosition, unlocked, active, deferred, query,
                   awaiting, ranInside>>

\* The callback settles, and COMMIT or ROLLBACK ends the transaction.
End(t) ==
    /\ pc[t] = "body"
    /\ awaiting[t] # None => query[awaiting[t]] = "done"
    /\ dbOwner' = None
    /\ pc' = [pc EXCEPT ![t] = "ended"]
    /\ UNCHANGED <<position, lastPosition, unlocked, active, deferred, query,
                   awaiting, jobs, ranInside>>

\* Mutant: unlock() wakes any waiting call.
AnyWaiting(t) == {u \in Txs : pc[u] = "waiting"}

Successors(t) == {u \in Txs : pc[u] = "waiting" /\ position[u] = position[t] + 1}

\* Mutant: release() forgets finishActiveTransaction().
NoDeferredJobs(t) == <<>>

DeferredJobs(t) == [i \in 1 .. Len(deferred[t]) |-> QueryJob(deferred[t][i])]

ResumeJobs(S) == IF S = {} THEN <<>> ELSE <<Resume(CHOOSE u \in S : TRUE)>>

\* The promise that the call's unlock() resolves: the one it installed.
Resolved(t) == position[t]

(***************************************************************************)
(* lease.release(): give the handle back, resolve activeTransaction (its   *)
(* deferred queries enter the microtask queue in the order they came),     *)
(* then unlock() the next call.                                            *)
(***************************************************************************)
Release(t) ==
    /\ pc[t] = "ended"
    /\ active' = IF active = t THEN None ELSE active
    /\ jobs' = (jobs \o DeferredJobs(t)) \o ResumeJobs(Successors(t))
    /\ query' = [q \in Queries |->
                   IF \E i \in 1 .. Len(deferred[t]) : deferred[t][i] = q
                   THEN "queued" ELSE query[q]]
    /\ deferred' = [deferred EXCEPT ![t] = <<>>]
    /\ unlocked' = unlocked \cup {Resolved(t)}
    /\ pc' = [pc EXCEPT ![t] = "settled"]
    /\ UNCHANGED <<position, lastPosition, awaiting, dbOwner, ranInside>>

Finished ==
    /\ \A t \in Txs : pc[t] = "settled"
    /\ \A q \in Queries : query[q] = "done"
    /\ UNCHANGED vars

TxStep(t) == RunResume(t) \/ RunBegin(t) \/ End(t) \/ Release(t)

Next ==
    \/ \E t \in Txs : Acquire(t) \/ TxStep(t)
    \/ \E q \in Queries : Query(q) \/ RunQuery(q)
    \/ \E t \in Txs, q \in Queries : CallbackQueriesParent(t, q)
    \/ Finished

Spec == Init /\ [][Next]_vars

(***************************************************************************)
(* Microtasks run, callbacks settle once what they await has, and          *)
(* runRootTransaction always reaches release.  Nobody is obliged to issue  *)
(* a query or a transaction.                                               *)
(***************************************************************************)
Fairness ==
    /\ \A t \in Txs : WF_vars(TxStep(t))
    /\ \A q \in Queries : WF_vars(RunQuery(q))

FairSpec == Spec /\ Fairness

-----------------------------------------------------------------------------

Phases == {"new", "waiting", "begin", "body", "ended", "settled"}
Running == {"begin", "body", "ended"}

Jobs == [kind : {"resume", "begin"}, who : Txs] \cup [kind : {"query"}, who : Queries]

(***************************************************************************)
(* The variables hold what the code can store in them.                     *)
(***************************************************************************)
TypeOK ==
    /\ pc \in [Txs -> Phases]
    /\ position \in [Txs -> Nat]
    /\ lastPosition \in Nat
    /\ unlocked \subseteq 0 .. lastPosition
    /\ active \in Txs \cup {None}
    /\ deferred \in [Txs -> Seq(Queries)]
    /\ query \in [Queries -> {"new", "deferred", "queued", "done"}]
    /\ awaiting \in [Txs -> Queries \cup {None}]
    /\ jobs \in Seq(Jobs)
    /\ dbOwner \in Txs \cup {None}
    /\ ranInside \subseteq Queries

(***************************************************************************)
(* docs/transactions.md: queueing "prevents unrelated async work from      *)
(* accidentally becoming part of the active transaction".  No ordinary     *)
(* query, deferred or not, ever runs while a transaction is open.          *)
(***************************************************************************)
NoForeignStatement == ranInside = {}

(***************************************************************************)
(* Concurrent calls "cannot issue a second BEGIN while the first           *)
(* transaction is still active": one call at a time holds the handle, and  *)
(* the database's open transaction is the one the handle says is active.   *)
(***************************************************************************)
OneTransactionAtATime ==
    /\ \A t, u \in Txs : pc[t] \in Running /\ pc[u] \in Running => t = u
    /\ dbOwner # None => active = dbOwner

(***************************************************************************)
(* Transactions run in the order they were asked for: one that holds the   *)
(* handle has seen every earlier one settle.                               *)
(***************************************************************************)
RunsInCallOrder ==
    \A t, u \in Txs :
        pc[t] \in Running /\ 0 < position[u] /\ position[u] < position[t]
            => pc[u] = "settled"

HandleAwaited == \E t \in Txs : awaiting[t] # None

(***************************************************************************)
(* As long as no callback awaits a query on the parent handle, every       *)
(* transaction that was asked for settles, and every ordinary query that   *)
(* was sent runs.                                                          *)
(***************************************************************************)
EverythingSettles ==
    /\ \A t \in Txs : pc[t] = "waiting" ~> (pc[t] = "settled" \/ HandleAwaited)
    /\ \A q \in Queries : query[q] = "deferred" ~> (query[q] = "done" \/ HandleAwaited)

(***************************************************************************)
(* docs/transactions.md, "Hooks": a hook that does not forward tx "writes  *)
(* outside the transaction, and those writes survive a rollback".  So the  *)
(* query a callback awaits on the parent handle runs at some time.         *)
(***************************************************************************)
ParentQueryRuns ==
    \A t \in Txs, q \in Queries : awaiting[t] = q ~> query[q] = "done"

Serial == INSTANCE SerialConnection
    WITH owner <- dbOwner,
         over <- {t \in Txs : pc[t] \in {"ended", "settled"}},
         ran <- {q \in Queries : query[q] = "done"}

(***************************************************************************)
(* The queue, the deferred promises and the microtasks together implement  *)
(* a connection that serves one transaction or one ordinary query at a     *)
(* time.                                                                   *)
(***************************************************************************)
ImplementsSerialConnection == Serial!Spec

=============================================================================
