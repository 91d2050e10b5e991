---------------------------- MODULE HandleCache ----------------------------
(***************************************************************************)
(* The life of connection pools: dbh() and closeAllConnections             *)
(* (lib/dbh.js) with the cache connCache, handle() with its shared         *)
(* in-progress promise, and the recovery of retryIfConnectionLost          *)
(* (lib/utils.js; lib/obj.js for the model-level variant).                 *)
(*                                                                         *)
(* A step is one synchronous segment between awaits.  All callers use the  *)
(* same connection options, so connCache has one key.  pool.end() refuses  *)
(* new statements from the moment it is called.                            *)
(***************************************************************************)
EXTENDS Naturals, FiniteSets

CONSTANTS
    Direct,        \* callers of dbh() with no options
    Extra,         \* callers of dbh({ ignoreCachedConnections: true })
    Recovering,    \* callers of retryIfConnectionLost(cb)
    Models,        \* callers of Model.retryIfConnectionLost(cb)
    Closers,       \* callers of closeAllConnections()
    Teams,         \* sets of callers: those that call in one history
    None,
    MaxPools,      \* bound on pools created
    MaxFaults,     \* bound on lost connections and failed createPool calls
    MaxReadFaults  \* bound on failed createPool calls for a read replica

Handled == Recovering \cup Models
Callers == Direct \cup Extra \cup Handled \cup Closers
Pools == 1 .. MaxPools

ASSUME NoneAssumption == None \notin Pools \cup Callers
ASSUME TeamsAssumption == Teams \subseteq SUBSET Callers
ASSUME KindsAssumption ==
    /\ Direct \cap Extra = {}
    /\ (Direct \cup Extra) \cap (Handled \cup Closers) = {}
    /\ Recovering \cap Models = {} /\ Handled \cap Closers = {}
ASSUME FiniteAssumption == IsFiniteSet(Callers)
ASSUME BoundsAssumption == {MaxPools, MaxFaults, MaxReadFaults} \subseteq Nat

VARIABLES
    pc,          \* where each caller is suspended
    attempt,     \* retryIfConnectionLost: first or second use of a handle
    pool,        \* the pool each caller has got or is creating
    replaced,    \* previouslyCachedConn of each dbh() call
    cache,       \* connCache[key]
    handleDbh,   \* handle.dbh
    inProgress,  \* the caller whose work handle.accessInProgress stands for
    state,       \* per pool
    failedWith,  \* history: the pool on which the first attempt failed
    faults, readFaults

callers == <<pc, attempt, pool, replaced>>
shared  == <<cache, handleDbh, inProgress, state>>
history == failedWith
counts  == <<faults, readFaults>>
vars    == <<callers, shared, history, counts>>

Init ==
    /\ \E team \in Teams : pc = [t \in Callers |-> IF t \in team THEN "new" ELSE "absent"]
    /\ attempt = [t \in Callers |-> 1]
    /\ pool = [t \in Callers |-> None]
    /\ replaced = [t \in Callers |-> None]
    /\ cache = None
    /\ handleDbh = None
    /\ inProgress = None
    /\ state = [p \in Pools |-> "unborn"]
    /\ failedWith = [t \in Callers |-> None]
    /\ faults = 0
    /\ readFaults = 0

Goto(t, phase) == pc' = [pc EXCEPT ![t] = phase]
Fault == faults < MaxFaults /\ faults' = faults + 1 /\ UNCHANGED readFaults

\* The options a caller passes on to dbh().
IgnoresCache(t) == t \in Extra \/ (t \in Recovering /\ attempt[t] = 2)
ClosesReplaced(t) == t \in Recovering /\ attempt[t] = 2

(***************************************************************************)
(* dbh(options) up to its first await: a cache hit, or the decision to     *)
(* create a pool and, on the recovery path, to close the one then cached.  *)
(***************************************************************************)
EnterDbh(t) ==
    IF cache # None /\ ~IgnoresCache(t)
    THEN /\ pool' = [pool EXCEPT ![t] = cache]
         /\ Goto(t, "returned")
         /\ UNCHANGED replaced
    ELSE /\ replaced' = [replaced EXCEPT ![t] =
                           IF ClosesReplaced(t) THEN cache ELSE None]
         /\ Goto(t, "creating")
         /\ UNCHANGED pool

CallDbh(t) ==
    /\ t \in Direct \cup Extra /\ pc[t] = "new"
    /\ EnterDbh(t)
    /\ UNCHANGED <<attempt, shared, history, counts>>

\* createPool for the primary answers.
PoolCreated(t) ==
    /\ pc[t] = "creating"
    /\ \E p \in Pools :
         /\ state[p] = "unborn" /\ \A q \in Pools : q < p => state[q] # "unborn"
         /\ state' = [state EXCEPT ![p] = "open"]
         /\ pool' = [pool EXCEPT ![t] = p]
    /\ Goto(t, "replicas")
    /\ UNCHANGED <<attempt, replaced, cache, handleDbh, inProgress, history, counts>>

\* createPool fails, having closed what it opened: dbh() rejects.
CreateFails(t) ==
    /\ pc[t] = "creating" /\ Fault
    /\ pool' = [pool EXCEPT ![t] = None]
    /\ Goto(t, "returned")
    /\ UNCHANGED <<attempt, replaced, shared, history>>

\* createPool of a read replica fails: dbh() rejects, the primary pool stays as it is.
ReplicaFails(t) ==
    /\ pc[t] = "replicas"
    /\ readFaults < MaxReadFaults /\ readFaults' = readFaults + 1
    /\ pool' = [pool EXCEPT ![t] = None]
    /\ Goto(t, "returned")
    /\ UNCHANGED <<attempt, replaced, shared, history, faults>>

\* !isPlainExtraHandle
Caches(t) == ~(IgnoresCache(t) /\ ~ClosesReplaced(t))

CloseReplaced(t) ==
    IF replaced[t] # None THEN [state EXCEPT ![replaced[t]] = "ended"] ELSE state

\* The end of dbh(): write the cache, then close the pool that was replaced.
InstallPool(t) ==
    /\ pc[t] = "replicas"
    /\ cache' = IF Caches(t) THEN pool[t] ELSE cache
    /\ state' = CloseReplaced(t)
    /\ Goto(t, IF replaced[t] # None THEN "ending" ELSE "returned")
    /\ UNCHANGED <<attempt, pool, replaced, handleDbh, inProgress, history, counts>>

\* `await previouslyCachedConn.end()` answers or fails; a failure is swallowed.
ReplacedEnded(t) ==
    /\ pc[t] = "ending"
    /\ Goto(t, "returned")
    /\ UNCHANGED <<attempt, pool, replaced, shared, history, counts>>

\* A direct caller gets its handle, or an exception.
DirectReturns(t) ==
    /\ t \in Direct \cup Extra /\ pc[t] = "returned"
    /\ Goto(t, IF pool[t] = None THEN "failed" ELSE "using")
    /\ UNCHANGED <<attempt, pool, replaced, shared, history, counts>>

\* A direct caller is done; a throwaway handle is ended by its owner.
DirectDone(t) ==
    /\ t \in Direct \cup Extra /\ pc[t] = "using"
    /\ state' = IF t \in Extra THEN [state EXCEPT ![pool[t]] = "ended"] ELSE state
    /\ Goto(t, "done")
    /\ UNCHANGED <<attempt, pool, replaced, cache, handleDbh, inProgress, history, counts>>

-----------------------------------------------------------------------------
(***************************************************************************)
(* handle(options), called by both attempts of retryIfConnectionLost.      *)
(* Model.retryIfConnectionLost's factory drops the options of the second   *)
(* attempt.                                                                *)
(***************************************************************************)
\* Mutant: accessInProgress is not consulted.
NeverJoins(t) == FALSE

Joins(t) == inProgress # None

EnterHandle(t) ==
    \/ /\ Joins(t)
       /\ Goto(t, "joined")
       /\ UNCHANGED <<pool, replaced, inProgress>>
    \/ /\ ~Joins(t)
       /\ handleDbh # None /\ ~IgnoresCache(t)
       /\ pool' = [pool EXCEPT ![t] = handleDbh]
       /\ Goto(t, "using")
       /\ UNCHANGED <<replaced, inProgress>>
    \/ /\ ~Joins(t)
       /\ handleDbh = None \/ IgnoresCache(t)
       /\ inProgress' = t
       /\ EnterDbh(t)

CallHandle(t) ==
    /\ t \in Handled /\ pc[t] \in {"new", "retry"}
    /\ EnterHandle(t)
    /\ UNCHANGED <<attempt, cache, handleDbh, state, history, counts>>

Joined == {u \in Callers : pc[u] = "joined"}

\* Mutant: a failed getDbh() leaves through the catch without resolving.
ResolvedIfPool(t) == IF pool[t] # None THEN Joined ELSE {}

\* Those who await accessInProgress when t resolves it.
ResolvedBy(t) == Joined

\* Mutant: handle.dbh is written only when it is still unset.
PublishedOnce(t) == IF handleDbh # None THEN handleDbh ELSE pool[t]

Published(t) == pool[t]

(***************************************************************************)
(* getDbh() answers: handle.dbh is what it returned, or undefined, and the *)
(* shared promise gives it to everyone who joined.                         *)
(***************************************************************************)
HandleReturns(t) ==
    /\ t \in Handled /\ pc[t] = "returned"
    /\ handleDbh' = Published(t)
    /\ inProgress' = None
    /\ pool' = [u \in Callers |-> IF u \in ResolvedBy(t) THEN pool[t] ELSE pool[u]]
    /\ pc' = [u \in Callers |-> IF u \in ResolvedBy(t) \cup {t} THEN "using" ELSE pc[u]]
    /\ UNCHANGED <<attempt, replaced, cache, state, history, counts>>

\* The callback succeeds.
CallbackDone(t) ==
    /\ t \in Handled /\ pc[t] = "using"
    /\ pool[t] # None /\ state[pool[t]] = "open"
    /\ Goto(t, "done")
    /\ UNCHANGED <<attempt, pool, replaced, shared, history, counts>>

(***************************************************************************)
(* NULL_HANDLE, or a callback that reports a lost connection: try once     *)
(* more; the second time the error goes to onReconnectRetryFailed.         *)
(***************************************************************************)
Retry(t) ==
    /\ IF attempt[t] = 1
       THEN /\ Goto(t, "retry")
            /\ attempt' = [attempt EXCEPT ![t] = 2]
            /\ failedWith' = [failedWith EXCEPT ![t] = pool[t]]
       ELSE /\ Goto(t, "failed")
            /\ UNCHANGED <<attempt, failedWith>>
    /\ UNCHANGED <<pool, replaced, shared>>

NullHandle(t) ==
    /\ t \in Handled /\ pc[t] = "using" /\ pool[t] = None
    /\ Retry(t)
    /\ UNCHANGED counts

ConnectionLost(t) ==
    /\ t \in Handled /\ pc[t] = "using" /\ pool[t] # None
    /\ state[pool[t]] = "open"
    /\ Fault
    /\ Retry(t)

\* "pool is closed" is not one of the messages that lead to a retry.
PoolIsClosed(t) ==
    /\ t \in Handled /\ pc[t] = "using" /\ pool[t] # None
    /\ state[pool[t]] = "ended"
    /\ Goto(t, "failed")
    /\ UNCHANGED <<attempt, pool, replaced, shared, history, counts>>

-----------------------------------------------------------------------------
\* Pools that hold connections and belong to nobody's throwaway handle.
OpenPools == {p \in Pools : state[p] = "open" /\ \A t \in Extra : pool[t] # p}

\* closeAllConnections: end what the cache holds now ...
CloseAll(t) ==
    /\ t \in Closers /\ pc[t] = "new"
    /\ pool' = [pool EXCEPT ![t] = cache]
    /\ IF cache = None
       THEN Goto(t, "done") /\ UNCHANGED state
       ELSE Goto(t, "closing") /\ state' = [state EXCEPT ![cache] = "ended"]
    /\ UNCHANGED <<attempt, replaced, cache, handleDbh, inProgress, failedWith, counts>>

\* ... and, when that is over, delete the keys seen at the start.
DeletedEntry(t) == None

AllClosed(t) ==
    /\ t \in Closers /\ pc[t] = "closing"
    /\ cache' = DeletedEntry(t)
    /\ Goto(t, "done")
    /\ UNCHANGED <<attempt, pool, replaced, handleDbh, inProgress, state, history, counts>>

-----------------------------------------------------------------------------
Step(t) ==
    \/ CallDbh(t)
    \/ PoolCreated(t)
    \/ CreateFails(t)
    \/ ReplicaFails(t)
    \/ InstallPool(t)
    \/ ReplacedEnded(t)
    \/ DirectReturns(t)
    \/ DirectDone(t)
    \/ CallHandle(t)
    \/ HandleReturns(t)
    \/ CallbackDone(t)
    \/ NullHandle(t)
    \/ ConnectionLost(t)
    \/ PoolIsClosed(t)
    \/ CloseAll(t)
    \/ AllClosed(t)

Over == {"done", "failed", "absent"}

Next == \E t \in Callers : Step(t)

Spec == Init /\ [][Next]_vars

\* createPool, end() and the callbacks settle.
Fairness == \A t \in Callers : WF_vars(Step(t))

FairSpec == Spec /\ Fairness

-----------------------------------------------------------------------------

Phases == {"new", "creating", "replicas", "ending", "returned", "joined",
           "using", "retry", "closing"} \cup Over

(***************************************************************************)
(* The variables hold what the code can store in them.                     *)
(***************************************************************************)
TypeOK ==
    /\ pc \in [Callers -> Phases]
    /\ attempt \in [Callers -> {1, 2}]
    /\ pool \in [Callers -> Pools \cup {None}]
    /\ replaced \in [Callers -> Pools \cup {None}]
    /\ cache \in Pools \cup {None}
    /\ handleDbh \in Pools \cup {None}
    /\ inProgress \in Handled \cup {None}
    /\ state \in [Pools -> {"unborn", "open", "ended"}]
    /\ failedWith \in [Callers -> Pools \cup {None}]
    /\ faults \in 0 .. MaxFaults
    /\ readFaults \in 0 .. MaxReadFaults

\* Nobody has called dbh() or closeAllConnections() past handle().
HandlesAlone == \A t \in Direct \cup Closers : pc[t] \in {"new", "absent"}

(***************************************************************************)
(* Nobody is handed a pool that somebody has ended, whatever throwaway     *)
(* handles and replacements come and go: dbh() resolves to an open pool    *)
(* but while closeAllConnections is waiting, and so does handle(), where,  *)
(* while a replacement has closed the old pool and not yet published the   *)
(* new one, every call joins the replacement.                              *)
(***************************************************************************)
OpenPoolsAreServed ==
    /\ cache # None /\ state[cache] = "ended" => \E t \in Closers : pc[t] = "closing"
    /\ HandlesAlone /\ inProgress = None /\ handleDbh # None => state[handleDbh] = "open"

(***************************************************************************)
(* Callers that go through handle() share one pool and orphan none: an     *)
(* open pool is the cached one, a throwaway, or one whose dbh() call is    *)
(* under way; and a further pool is created only by a call whose first     *)
(* attempt failed (README.md, 1156: simultaneous cold calls share one      *)
(* handle).                                                                *)
(***************************************************************************)
OneHandleForAll ==
    HandlesAlone =>
        /\ readFaults = 0 =>
              \A p \in OpenPools :
                  p = cache \/ \E t \in Callers : pool[t] = p /\ pc[t] = "replicas"
        /\ Cardinality({p \in Pools : state[p] # "unborn" /\ \A t \in Extra : pool[t] # p})
              <= 1 + readFaults + Cardinality({t \in Recovering : attempt[t] = 2})

(***************************************************************************)
(* Every caller settles, those who joined a handle creation that failed    *)
(* included.                                                               *)
(***************************************************************************)
EveryCallerSettles == \A t \in Callers : <>(pc[t] \in Over)

(***************************************************************************)
(* lib/utils.js, 115-120: the pool that recovery closes is the one whose   *)
(* connection was just found dead.  (Not so, with two callers: README.)    *)
(***************************************************************************)
OnlyAbandonedPoolsAreClosed ==
    \A t \in Recovering :
        pc[t] = "ending" /\ failedWith[t] # None => replaced[t] = failedWith[t]

=============================================================================
