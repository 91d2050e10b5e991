------------------------- MODULE HandleCacheProofs -------------------------
(***************************************************************************)
(* Proofs about HandleCache for any callers, pools and faults: nobody is   *)
(* handed a pool that was ended, and callers of handle() share one pool    *)
(* and orphan none.                                                        *)
(*                                                                         *)
(* The argument: a pool is private to the call that creates it until the   *)
(* cache holds it, the pool a replacement ends is the one that was cached  *)
(* when it began, and accessInProgress lets one caller of handle() at a    *)
(* time change the cache.                                                  *)
(***************************************************************************)
EXTENDS HandleCache, FiniteSetTheorems, TLAPS

(***************************************************************************)
(* Who is in which phase, and whose work handle.accessInProgress stands    *)
(* for: at most one caller of handle() is inside dbh().                    *)
(***************************************************************************)
Inside == {"creating", "replicas", "ending", "returned"}
Active(t) == t \in Handled /\ pc[t] \in Inside

PhaseInv ==
    \A t \in Callers :
        /\ pc[t] \in {"joined", "retry"} => t \in Handled
        /\ pc[t] = "closing" => t \in Closers
        /\ pc[t] \in Inside => t \notin Closers
        /\ Active(t) <=> inProgress = t
        /\ replaced[t] # None => ClosesReplaced(t)
        /\ attempt[t] = 2 => pc[t] # "new"
        /\ t \in Extra /\ pool[t] # None => pc[t] \in {"replicas", "returned", "using", "done"}
        /\ t \in Extra /\ pc[t] = "using" => pool[t] # None
        /\ pc[t] = "replicas" => pool[t] # None

\* Whatever holds a pool holds one that was created.
BornInv ==
    \A p \in Pools : state[p] = "unborn" =>
        /\ p \notin {cache, handleDbh}
        /\ \A t \in Callers : p \notin {pool[t], replaced[t]}

\* A pool nobody else has got: one that is not installed yet, or a throwaway.
Private(t) == pool[t] # None /\ (pc[t] = "replicas" \/ t \in Extra)

PrivateInv ==
    \A t \in Callers : Private(t) =>
        /\ pc[t] # "done" => state[pool[t]] = "open"
        /\ pool[t] \notin {cache, handleDbh}
        /\ \A u \in Callers : replaced[u] # pool[t] /\ (u # t => pool[u] # pool[t])

ClosingInv == cache # None /\ state[cache] = "ended" => \E t \in Closers : pc[t] = "closing"

\* Callers that go through handle() change the cache one at a time.
CacheIsHandle ==
    /\ \A t \in Handled :
         /\ pc[t] \in {"creating", "replicas"} => replaced[t] = cache
         /\ pc[t] \in {"ending", "returned"} => pool[t] \in {None, cache}
    /\ inProgress = None => handleDbh \in {None, cache}

NoOrphans ==
    readFaults = 0 =>
        \A p \in OpenPools : p = cache \/ \E t \in Callers : pool[t] = p /\ pc[t] = "replicas"

\* The pools that were created, but for throwaways, and what they were created for.
CreatedPools == {p \in Pools : state[p] # "unborn" /\ \A t \in Extra : pool[t] # p}
Recovered == {t \in Recovering : attempt[t] = 2 /\ pc[t] \notin {"retry", "creating"}}
HasFirst ==
    \/ cache # None
    \/ \E t \in Handled : pc[t] = "replicas" /\ ~ClosesReplaced(t)

CountInv ==
    Cardinality(CreatedPools) <= (IF HasFirst THEN 1 ELSE 0) + readFaults + Cardinality(Recovered)

AloneInv == HandlesAlone => CacheIsHandle /\ NoOrphans /\ CountInv

IInv ==
    /\ TypeOK
    /\ PhaseInv
    /\ BornInv
    /\ PrivateInv
    /\ ClosingInv
    /\ AloneInv

-----------------------------------------------------------------------------
LEMMA Bounds ==
    /\ MaxPools \in Nat /\ MaxFaults \in Nat /\ MaxReadFaults \in Nat
    /\ Pools \subseteq Nat
    /\ IsFiniteSet(Pools) /\ IsFiniteSet(Recovering)
<1>1. MaxPools \in Nat /\ MaxFaults \in Nat /\ MaxReadFaults \in Nat
  BY BoundsAssumption
<1>2. IsFiniteSet(Pools)
  BY <1>1, FS_Interval DEF Pools
<1>3. Recovering \subseteq Callers
  BY DEF Callers, Handled
<1>4. IsFiniteSet(Recovering)
  BY <1>3, FiniteAssumption, FS_Subset
<1>. QED
  BY <1>1, <1>2, <1>4 DEF Pools

\* None is neither a pool nor a caller, and the kinds of callers are distinct.
LEMMA Kinds ==
    /\ None \notin Pools /\ None \notin Callers
    /\ Handled \subseteq Callers /\ Closers \subseteq Callers /\ Extra \subseteq Callers
    /\ Recovering \subseteq Handled
    /\ \A t \in Callers : /\ t \in Extra \cup Direct => t \notin Handled /\ t \notin Closers
                          /\ t \in Extra => t \notin Direct
                          /\ t \in Handled => t \notin Closers
  BY NoneAssumption, KindsAssumption DEF Callers, Handled

\* The variables of a caller that calls dbh().
LEMMA EnterTypes ==
    ASSUME TypeOK, NEW t \in Callers, EnterDbh(t)
    PROVE  /\ pc' \in [Callers -> Phases]
           /\ pool' \in [Callers -> Pools \cup {None}]
           /\ replaced' \in [Callers -> Pools \cup {None}]
<1>1. {"returned", "creating"} \subseteq Phases
  BY DEF Phases
<1>. QED
  BY <1>1 DEF TypeOK, EnterDbh, Goto

LEMMA TypeStep == TypeOK /\ [Next]_vars => TypeOK'
<1>. SUFFICES ASSUME TypeOK, [Next]_vars PROVE TypeOK'
  OBVIOUS
<1>. USE Kinds, Bounds
<1>1. ASSUME NEW t \in Callers, CallDbh(t)  PROVE TypeOK'
  <2>1. pc' \in [Callers -> Phases] /\ pool' \in [Callers -> Pools \cup {None}]
          /\ replaced' \in [Callers -> Pools \cup {None}]
    BY <1>1, EnterTypes DEF CallDbh
  <2>. QED
    BY <1>1, <2>1 DEF CallDbh, TypeOK, shared, history, counts
<1>2. ASSUME NEW t \in Callers, PoolCreated(t)  PROVE TypeOK'
  BY <1>2 DEF PoolCreated, TypeOK, Phases, Goto, history, counts
<1>3. ASSUME NEW t \in Callers, CreateFails(t)  PROVE TypeOK'
  BY <1>3 DEF CreateFails, TypeOK, Phases, Goto, shared, history, Fault
<1>4. ASSUME NEW t \in Callers, ReplicaFails(t)  PROVE TypeOK'
  BY <1>4 DEF ReplicaFails, TypeOK, Phases, Goto, shared, history
<1>5. ASSUME NEW t \in Callers, InstallPool(t)  PROVE TypeOK'
  BY <1>5 DEF InstallPool, TypeOK, Phases, Goto, CloseReplaced, history, counts
<1>6. ASSUME NEW t \in Callers, ReplacedEnded(t)  PROVE TypeOK'
  BY <1>6 DEF ReplacedEnded, TypeOK, Phases, Over, Goto, shared, history, counts
<1>7. ASSUME NEW t \in Callers, DirectReturns(t)  PROVE TypeOK'
  BY <1>7 DEF DirectReturns, TypeOK, Phases, Over, Goto, shared, history, counts
<1>8. ASSUME NEW t \in Callers, DirectDone(t)  PROVE TypeOK'
  BY <1>8 DEF DirectDone, TypeOK, Phases, Over, Goto, shared, history, counts
<1>9. ASSUME NEW t \in Callers, CallHandle(t)  PROVE TypeOK'
  <2>1. /\ pc' \in [Callers -> Phases]
        /\ pool' \in [Callers -> Pools \cup {None}]
        /\ replaced' \in [Callers -> Pools \cup {None}]
        /\ inProgress' \in Handled \cup {None}
    <3>1. CASE EnterDbh(t) /\ inProgress' = t
      BY <1>9, <3>1, EnterTypes DEF CallHandle
    <3>2. CASE ~(EnterDbh(t) /\ inProgress' = t)
      BY <1>9, <3>2 DEF CallHandle, EnterHandle, TypeOK, Phases, Goto
    <3>. QED
      BY <3>1, <3>2
  <2>. QED
    BY <1>9, <2>1 DEF CallHandle, TypeOK, history, counts
<1>10. ASSUME NEW t \in Callers, HandleReturns(t)  PROVE TypeOK'
  BY <1>10 DEF HandleReturns, TypeOK, Phases, Published, history, counts
<1>11. ASSUME NEW t \in Callers, CallbackDone(t) \/ PoolIsClosed(t)  PROVE TypeOK'
  BY <1>11 DEF CallbackDone, PoolIsClosed, TypeOK, Phases, Over, Goto, shared, history, counts
<1>12. ASSUME NEW t \in Callers, NullHandle(t) \/ ConnectionLost(t)  PROVE TypeOK'
  BY <1>12 DEF NullHandle, ConnectionLost, Retry, TypeOK, Phases, Over, Goto, shared, counts, Fault
<1>13. ASSUME NEW t \in Callers, CloseAll(t)  PROVE TypeOK'
  BY <1>13 DEF CloseAll, TypeOK, Phases, Over, Goto, counts
<1>14. ASSUME NEW t \in Callers, AllClosed(t)  PROVE TypeOK'
  BY <1>14 DEF AllClosed, TypeOK, Phases, Over, Goto, DeletedEntry, counts, history
<1>15. CASE UNCHANGED vars
  BY <1>15 DEF TypeOK, vars, callers, shared, history, counts
<1>. QED
  BY <1>1, <1>2, <1>3, <1>4, <1>5, <1>6, <1>7, <1>8, <1>9, <1>10, <1>11, <1>12, <1>13, <1>14,
     <1>15 DEF Next, Step

-----------------------------------------------------------------------------
\* Only the caller that takes the step moves, but for those whom HandleReturns resolves.
LEMMA EnterPhases ==
    ASSUME TypeOK, NEW t \in Callers, EnterDbh(t)
    PROVE  /\ pc'[t] \in {"returned", "creating"}
           /\ \A u \in Callers \ {t} : /\ pc'[u] = pc[u] /\ pool'[u] = pool[u]
                                       /\ replaced'[u] = replaced[u]
           /\ \/ /\ pc'[t] = "returned" /\ pool'[t] = cache /\ cache # None
                 /\ ~IgnoresCache(t) /\ replaced'[t] = replaced[t]
              \/ /\ pc'[t] = "creating" /\ pool'[t] = pool[t]
                 /\ cache = None \/ IgnoresCache(t)
                 /\ replaced'[t] = IF ClosesReplaced(t) THEN cache ELSE None
  BY DEF TypeOK, EnterDbh, Goto

\* Everybody stays in phases of his kind, and one caller of handle() at a time is inside dbh().
LEMMA PhaseStep == TypeOK /\ PhaseInv /\ [Next]_vars => PhaseInv'
<1>. SUFFICES ASSUME TypeOK, PhaseInv, [Next]_vars PROVE PhaseInv'
  OBVIOUS
<1>. USE Kinds DEF Inside, Active, ClosesReplaced
<1>1. ASSUME NEW t \in Callers, CallDbh(t)  PROVE PhaseInv'
  <2>1. /\ EnterDbh(t) /\ t \in Direct \cup Extra /\ pc[t] = "new"
        /\ attempt' = attempt /\ inProgress' = inProgress
    BY <1>1 DEF CallDbh, shared
  <2>2. t \notin Handled /\ t \notin Closers /\ t \notin Recovering
    BY <2>1
  <2>3. t \in Extra => pool[t] = None /\ IgnoresCache(t)
    BY <2>1 DEF PhaseInv, IgnoresCache
  <2>. QED
    BY <2>1, <2>2, <2>3, EnterPhases DEF PhaseInv
<1>2. ASSUME NEW t \in Callers, PoolCreated(t)  PROVE PhaseInv'
  BY <1>2 DEF PoolCreated, TypeOK, PhaseInv, Goto
<1>3. ASSUME NEW t \in Callers, CreateFails(t)  PROVE PhaseInv'
  BY <1>3 DEF CreateFails, TypeOK, PhaseInv, Goto, shared
<1>4. ASSUME NEW t \in Callers, ReplicaFails(t)  PROVE PhaseInv'
  BY <1>4 DEF ReplicaFails, TypeOK, PhaseInv, Goto, shared
<1>5. ASSUME NEW t \in Callers, InstallPool(t)  PROVE PhaseInv'
  BY <1>5 DEF InstallPool, TypeOK, PhaseInv, Goto
<1>6. ASSUME NEW t \in Callers, ReplacedEnded(t)  PROVE PhaseInv'
  BY <1>6 DEF ReplacedEnded, TypeOK, PhaseInv, Goto, shared
<1>7. ASSUME NEW t \in Callers, DirectReturns(t)  PROVE PhaseInv'
  BY <1>7 DEF DirectReturns, TypeOK, PhaseInv, Goto, shared
<1>8. ASSUME NEW t \in Callers, DirectDone(t)  PROVE PhaseInv'
  BY <1>8 DEF DirectDone, TypeOK, PhaseInv, Goto
<1>9. ASSUME NEW t \in Callers, CallHandle(t)  PROVE PhaseInv'
  <2>1. t \in Handled /\ pc[t] \in {"new", "retry"} /\ attempt' = attempt /\ EnterHandle(t)
    BY <1>9 DEF CallHandle
  <2>2. t \notin Extra /\ t \notin Closers
    BY <2>1
  <2>3. CASE pc' = [pc EXCEPT ![t] = "joined"] /\ UNCHANGED <<pool, replaced, inProgress>>
    BY <2>1, <2>2, <2>3 DEF TypeOK, PhaseInv
  <2>4. CASE /\ pc' = [pc EXCEPT ![t] = "using"] /\ UNCHANGED <<replaced, inProgress>>
             /\ pool' = [pool EXCEPT ![t] = handleDbh]
    BY <2>1, <2>2, <2>4 DEF TypeOK, PhaseInv
  <2>5. CASE EnterDbh(t) /\ inProgress' = t /\ inProgress = None
    BY <2>1, <2>2, <2>5, EnterPhases DEF PhaseInv
  <2>. QED
    BY <2>1, <2>3, <2>4, <2>5 DEF EnterHandle, Joins, Goto
<1>10. ASSUME NEW t \in Callers, HandleReturns(t)  PROVE PhaseInv'
  <2>1. \A u \in Callers : \/ u \in Joined \cup {t} /\ u \in Handled /\ pc'[u] = "using"
                           \/ /\ u \notin Joined \cup {t}
                              /\ pc'[u] = pc[u] /\ pool'[u] = pool[u]
    BY <1>10 DEF HandleReturns, ResolvedBy, Joined, PhaseInv
  <2>2. /\ inProgress = t /\ inProgress' = None
        /\ replaced' = replaced /\ attempt' = attempt
    BY <1>10 DEF HandleReturns, PhaseInv
  <2>. QED
    BY <2>1, <2>2 DEF PhaseInv
<1>11. ASSUME NEW t \in Callers, CallbackDone(t) \/ PoolIsClosed(t)  PROVE PhaseInv'
  BY <1>11 DEF CallbackDone, PoolIsClosed, TypeOK, PhaseInv, Goto, shared
<1>12. ASSUME NEW t \in Callers, NullHandle(t) \/ ConnectionLost(t)  PROVE PhaseInv'
  BY <1>12 DEF NullHandle, ConnectionLost, Retry, TypeOK, PhaseInv, Goto, shared
<1>13. ASSUME NEW t \in Callers, CloseAll(t)  PROVE PhaseInv'
  BY <1>13 DEF CloseAll, TypeOK, PhaseInv, Goto
<1>14. ASSUME NEW t \in Callers, AllClosed(t)  PROVE PhaseInv'
  BY <1>14 DEF AllClosed, TypeOK, PhaseInv, Goto
<1>15. CASE UNCHANGED vars
  BY <1>15 DEF PhaseInv, vars, callers, shared
<1>. QED
  BY <1>1, <1>2, <1>3, <1>4, <1>5, <1>6, <1>7, <1>8, <1>9, <1>10, <1>11, <1>12, <1>13, <1>14,
     <1>15 DEF Next, Step

\* A pool that was not created is held by nobody; a new one is held by its creator.
LEMMA BornStep == TypeOK /\ BornInv /\ [Next]_vars => BornInv'
<1>. SUFFICES ASSUME TypeOK, BornInv, [Next]_vars PROVE BornInv'
  OBVIOUS
<1>. USE Kinds
<1>1. ASSUME NEW t \in Callers, CallDbh(t)  PROVE BornInv'
  BY <1>1, EnterPhases DEF CallDbh, BornInv, shared
<1>2. ASSUME NEW t \in Callers, PoolCreated(t)  PROVE BornInv'
  BY <1>2 DEF PoolCreated, TypeOK, BornInv
<1>3. ASSUME NEW t \in Callers, CreateFails(t)  PROVE BornInv'
  BY <1>3 DEF CreateFails, TypeOK, BornInv, shared
<1>4. ASSUME NEW t \in Callers, ReplicaFails(t)  PROVE BornInv'
  BY <1>4 DEF ReplicaFails, TypeOK, BornInv, shared
<1>5. ASSUME NEW t \in Callers, InstallPool(t)  PROVE BornInv'
  BY <1>5 DEF InstallPool, TypeOK, BornInv, CloseReplaced
<1>6. ASSUME NEW t \in Callers, ReplacedEnded(t)  PROVE BornInv'
  BY <1>6 DEF ReplacedEnded, BornInv, shared
<1>7. ASSUME NEW t \in Callers, DirectReturns(t)  PROVE BornInv'
  BY <1>7 DEF DirectReturns, BornInv, shared
<1>8. ASSUME NEW t \in Callers, DirectDone(t)  PROVE BornInv'
  BY <1>8 DEF DirectDone, TypeOK, BornInv
<1>9. ASSUME NEW t \in Callers, CallHandle(t)  PROVE BornInv'
  <2>1. \A u \in Callers :
          /\ pool'[u] \in {pool[u], handleDbh, cache}
          /\ replaced'[u] \in {replaced[u], cache, None}
    BY <1>9, EnterPhases DEF CallHandle, EnterHandle, TypeOK
  <2>. QED
    BY <1>9, <2>1 DEF CallHandle, BornInv
<1>10. ASSUME NEW t \in Callers, HandleReturns(t)  PROVE BornInv'
  BY <1>10 DEF HandleReturns, BornInv, Published
<1>11. ASSUME NEW t \in Callers,
              CallbackDone(t) \/ PoolIsClosed(t) \/ NullHandle(t) \/ ConnectionLost(t)
       PROVE BornInv'
  BY <1>11 DEF CallbackDone, PoolIsClosed, NullHandle, ConnectionLost, Retry, BornInv, shared
<1>12. ASSUME NEW t \in Callers, CloseAll(t)  PROVE BornInv'
  BY <1>12 DEF CloseAll, TypeOK, BornInv
<1>13. ASSUME NEW t \in Callers, AllClosed(t)  PROVE BornInv'
  BY <1>13 DEF AllClosed, BornInv, DeletedEntry
<1>14. CASE UNCHANGED vars
  BY <1>14 DEF BornInv, vars, callers, shared
<1>. QED
  BY <1>1, <1>2, <1>3, <1>4, <1>5, <1>6, <1>7, <1>8, <1>9, <1>10, <1>11, <1>12, <1>13, <1>14
     DEF Next, Step

\* A pool is private to its creator until it is installed, a throwaway for good.
LEMMA PrivateStep == TypeOK /\ PhaseInv /\ BornInv /\ PrivateInv /\ [Next]_vars => PrivateInv'
<1>. SUFFICES ASSUME TypeOK, PhaseInv, BornInv, PrivateInv, [Next]_vars PROVE PrivateInv'
  OBVIOUS
<1>. USE Kinds DEF Private
<1>1. ASSUME NEW t \in Callers, EnterDbh(t), pc[t] \in {"new", "retry"},
             UNCHANGED <<cache, handleDbh, state>>
      PROVE  PrivateInv'
  <2>1. t \in Extra => pool[t] = None /\ IgnoresCache(t)
    BY <1>1 DEF PhaseInv, IgnoresCache
  <2>2. \A u \in Callers \ {t} : Private(u)' <=> Private(u)
    BY <1>1, EnterPhases
  <2>3. ~Private(t)'
    BY <1>1, <2>1, EnterPhases
  <2>4. \A u \in Callers : Private(u) => pool[u] # cache /\ pool[u] \in Pools
    BY DEF PrivateInv, TypeOK
  <2>5. \A u \in Callers : pool'[u] \in {pool[u], cache} /\ replaced'[u] \in {replaced[u], cache, None}
    BY <1>1, EnterPhases
  <2>6. \A u \in Callers \ {t} : pool'[u] = pool[u] /\ pc'[u] = pc[u]
    BY <1>1, EnterPhases
  <2>. QED
    BY <1>1, <2>2, <2>3, <2>4, <2>5, <2>6 DEF PrivateInv
<1>2. ASSUME NEW t \in Callers, CallDbh(t)  PROVE PrivateInv'
  BY <1>1, <1>2 DEF CallDbh, shared
<1>3. ASSUME NEW t \in Callers, PoolCreated(t)  PROVE PrivateInv'
  <2>1. PICK p \in Pools : /\ state[p] = "unborn" /\ state' = [state EXCEPT ![p] = "open"]
                           /\ pool' = [pool EXCEPT ![t] = p]
    BY <1>3 DEF PoolCreated
  <2>2. /\ pc' = [pc EXCEPT ![t] = "replicas"]
        /\ UNCHANGED <<replaced, cache, handleDbh>>
    BY <1>3 DEF PoolCreated, Goto
  <2>3. p \notin {cache, handleDbh} /\ \A u \in Callers : p \notin {pool[u], replaced[u]}
    BY <2>1 DEF BornInv
  <2>4. ASSUME NEW u \in Callers, u # t, Private(u)'
        PROVE  /\ pc'[u] # "done" => state'[pool'[u]] = "open"
               /\ pool'[u] \notin {cache', handleDbh'}
               /\ \A v \in Callers : replaced'[v] # pool'[u] /\ (v # u => pool'[v] # pool'[u])
    BY <2>1, <2>2, <2>3, <2>4 DEF PrivateInv, TypeOK
  <2>5. /\ state'[pool'[t]] = "open" /\ pool'[t] = p
        /\ \A v \in Callers : v # t => pool'[v] = pool[v]
    BY <2>1 DEF TypeOK
  <2>. QED
    BY <2>2, <2>3, <2>4, <2>5 DEF PrivateInv
<1>4. ASSUME NEW t \in Callers, CreateFails(t) \/ ReplicaFails(t)  PROVE PrivateInv'
  BY <1>4 DEF CreateFails, ReplicaFails, TypeOK, PrivateInv, Goto, shared
<1>5. ASSUME NEW t \in Callers, InstallPool(t)  PROVE PrivateInv'
  <2>1. /\ pc[t] = "replicas" /\ pc'[t] \in {"ending", "returned"}
        /\ \A u \in Callers : u # t => pc'[u] = pc[u]
        /\ UNCHANGED <<pool, replaced, handleDbh>>
    BY <1>5 DEF InstallPool, Goto, TypeOK
  <2>2. \A u \in Callers : Private(u)' => Private(u) /\ (u = t => t \in Extra)
    BY <2>1
  <2>3. t \in Extra => ~Caches(t)
    BY DEF Caches, IgnoresCache, ClosesReplaced
  <2>4. cache' = cache \/ (cache' = pool[t] /\ t \notin Extra)
    BY <1>5, <2>3 DEF InstallPool
  <2>5. \A u \in Callers : Private(u)' => pool[u] # cache'
    BY <2>1, <2>2, <2>4 DEF PrivateInv
  <2>6. \A u \in Callers : Private(u)' => state'[pool[u]] = state[pool[u]]
    BY <1>5, <2>2 DEF InstallPool, CloseReplaced, PrivateInv, TypeOK
  <2>. QED
    BY <2>1, <2>2, <2>5, <2>6 DEF PrivateInv
<1>6. ASSUME NEW t \in Callers, ReplacedEnded(t) \/ DirectReturns(t)  PROVE PrivateInv'
  BY <1>6 DEF ReplacedEnded, DirectReturns, TypeOK, PrivateInv, PhaseInv, Goto, shared
<1>7. ASSUME NEW t \in Callers, DirectDone(t)  PROVE PrivateInv'
  <2>1. /\ pc' = [pc EXCEPT ![t] = "done"] /\ UNCHANGED <<pool, replaced, cache, handleDbh>>
        /\ state' = IF t \in Extra THEN [state EXCEPT ![pool[t]] = "ended"] ELSE state
    BY <1>7 DEF DirectDone, Goto
  <2>. QED
    BY <2>1 DEF PrivateInv, TypeOK
<1>8. ASSUME NEW t \in Callers, CallHandle(t)  PROVE PrivateInv'
  <2>1. t \in Handled /\ pc[t] \in {"new", "retry"} /\ EnterHandle(t)
        /\ UNCHANGED <<cache, handleDbh, state>>
    BY <1>8 DEF CallHandle
  <2>2. CASE EnterDbh(t)
    BY <1>1, <2>1, <2>2
  <2>3. CASE pc' = [pc EXCEPT ![t] = "joined"] /\ UNCHANGED <<pool, replaced>>
    BY <2>1, <2>3 DEF PrivateInv, TypeOK
  <2>4. CASE /\ pc' = [pc EXCEPT ![t] = "using"] /\ UNCHANGED replaced
             /\ pool' = [pool EXCEPT ![t] = handleDbh]
    BY <2>1, <2>4 DEF PrivateInv, TypeOK
  <2>. QED
    BY <2>1, <2>2, <2>3, <2>4 DEF EnterHandle, Goto
<1>9. ASSUME NEW t \in Callers, HandleReturns(t)  PROVE PrivateInv'
  <2>1. /\ t \in Handled /\ pc[t] = "returned" /\ handleDbh' = pool[t]
        /\ UNCHANGED <<replaced, cache, state>>
    BY <1>9 DEF HandleReturns, Published
  <2>2. \A u \in Callers : \/ u \in Joined \cup {t} /\ u \in Handled /\ pc'[u] = "using"
                                 /\ pool'[u] = pool[t]
                           \/ pc'[u] = pc[u] /\ pool'[u] = pool[u]
    BY <1>9 DEF HandleReturns, ResolvedBy, Joined, PhaseInv
  <2>3. \A u \in Callers : Private(u)' => Private(u) /\ u # t /\ pool'[u] = pool[u] /\ pc'[u] = pc[u]
    BY <2>1, <2>2
  <2>4. \A u \in Callers : pool'[u] \in {pool[u], pool[t]}
    BY <2>2
  <2>. QED
    BY <2>1, <2>2, <2>3 DEF PrivateInv
<1>10. ASSUME NEW t \in Callers,
              CallbackDone(t) \/ PoolIsClosed(t) \/ NullHandle(t) \/ ConnectionLost(t)
       PROVE PrivateInv'
  <2>1. /\ pc[t] = "using" /\ pc'[t] \in {"done", "failed", "retry"} /\ t \in Handled
        /\ \A u \in Callers : u # t => pc'[u] = pc[u]
        /\ UNCHANGED <<pool, replaced, cache, handleDbh, state>>
    BY <1>10
       DEF CallbackDone, PoolIsClosed, NullHandle, ConnectionLost, Retry, Goto, TypeOK, shared
  <2>. QED
    BY <2>1 DEF PrivateInv
<1>11. ASSUME NEW t \in Callers, CloseAll(t)  PROVE PrivateInv'
  <2>1. /\ t \in Closers /\ pc[t] = "new" /\ pc'[t] \in {"done", "closing"}
        /\ \A u \in Callers : u # t => pc'[u] = pc[u]
        /\ pool' = [pool EXCEPT ![t] = cache]
        /\ UNCHANGED <<replaced, cache, handleDbh>>
        /\ \A p \in Pools : p # cache => state'[p] = state[p]
    BY <1>11 DEF CloseAll, TypeOK, Goto
  <2>2. \A u \in Callers : Private(u)' => Private(u) /\ u # t
    BY <2>1 DEF TypeOK
  <2>. QED
    BY <2>1, <2>2 DEF PrivateInv, TypeOK
<1>12. ASSUME NEW t \in Callers, AllClosed(t)  PROVE PrivateInv'
  BY <1>12 DEF AllClosed, TypeOK, PrivateInv, DeletedEntry, Goto
<1>13. CASE UNCHANGED vars
  BY <1>13 DEF PrivateInv, vars, callers, shared
<1>. QED
  BY <1>2, <1>3, <1>4, <1>5, <1>6, <1>7, <1>8, <1>9, <1>10, <1>11, <1>12, <1>13 DEF Next, Step

\* The cache holds an ended pool only while somebody closes all of them.
LEMMA ClosingStep ==
    TypeOK /\ PhaseInv /\ PrivateInv /\ ClosingInv /\ [Next]_vars => ClosingInv'
<1>. SUFFICES ASSUME TypeOK, PhaseInv, PrivateInv, ClosingInv, [Next]_vars PROVE ClosingInv'
  OBVIOUS
<1>. USE Kinds
<1>1. ASSUME cache' # None, state'[cache'] = "ended"
      PROVE  \E t \in Closers : pc'[t] = "closing"
  <2>1. ASSUME NEW t \in Callers, InstallPool(t)
        PROVE  cache' = cache /\ state'[cache] = state[cache]
    <3>1. /\ pc[t] = "replicas" /\ pool[t] # None /\ pool[t] \in Pools
          /\ cache' = IF Caches(t) THEN pool[t] ELSE cache
          /\ state' = CloseReplaced(t)
      BY <2>1 DEF InstallPool, PhaseInv, TypeOK
    <3>2. state[pool[t]] = "open" /\ replaced[t] # pool[t]
      BY <3>1 DEF PrivateInv, Private
    <3>3. state'[pool[t]] = "open"
      BY <3>1, <3>2 DEF CloseReplaced, TypeOK
    <3>4. ~Caches(t)
      BY <1>1, <3>1, <3>3
    <3>5. replaced[t] = None
      BY <3>4 DEF Caches, PhaseInv
    <3>. QED
      BY <3>1, <3>4, <3>5 DEF CloseReplaced
  <2>2. ASSUME NEW t \in Callers, DirectDone(t)
        PROVE  cache' = cache /\ state'[cache] = state[cache]
    BY <2>2, <1>1 DEF DirectDone, PrivateInv, Private, TypeOK, PhaseInv
  <2>3. ASSUME NEW t \in Callers, PoolCreated(t)
        PROVE  cache' = cache /\ state'[cache] = state[cache]
    BY <2>3, <1>1 DEF PoolCreated, TypeOK
  <2>4. ASSUME NEW t \in Callers, CloseAll(t)
        PROVE  t \in Closers /\ pc'[t] = "closing"
    BY <2>4, <1>1 DEF CloseAll, TypeOK, Goto
  <2>5. ASSUME NEW t \in Callers, AllClosed(t)  PROVE FALSE
    BY <2>5, <1>1 DEF AllClosed, DeletedEntry
  <2>6. ASSUME NEW t \in Callers, Step(t), ~CloseAll(t)
        PROVE  cache' = cache /\ state'[cache] = state[cache]
    BY <2>1, <2>2, <2>3, <2>5, <2>6
       DEF Step, CallDbh, CreateFails, ReplicaFails, ReplacedEnded, DirectReturns, CallHandle,
           HandleReturns, CallbackDone, PoolIsClosed, NullHandle, ConnectionLost, Retry, shared
  <2>7. ASSUME NEW t \in Callers, Step(t), ~CloseAll(t), NEW u \in Closers, pc[u] = "closing"
        PROVE  pc'[u] = "closing"
    <3>1. ~AllClosed(t)
      BY <2>5
    <3>2. CASE EnterDbh(t) /\ pc[t] \in {"new", "retry"}
      BY <2>7, <3>2, EnterPhases
    <3>3. CASE HandleReturns(t)
      BY <2>7, <3>3 DEF HandleReturns, ResolvedBy, Joined
    <3>. QED
      BY <2>7, <3>1, <3>2, <3>3
         DEF Step, CallDbh, PoolCreated, CreateFails, ReplicaFails, InstallPool, ReplacedEnded,
             DirectReturns, DirectDone, CallHandle, EnterHandle, CallbackDone, PoolIsClosed,
             NullHandle, ConnectionLost, Retry, Goto, TypeOK
  <2>8. CASE \E t \in Callers : Step(t)
    BY <1>1, <2>4, <2>6, <2>7, <2>8 DEF ClosingInv
  <2>9. CASE UNCHANGED vars
    BY <1>1, <2>9 DEF ClosingInv, vars, callers, shared
  <2>. QED
    BY <2>8, <2>9 DEF Next
<1>. QED
  BY <1>1 DEF ClosingInv

-----------------------------------------------------------------------------
(***************************************************************************)
(* While nobody goes past handle(), a step is one of a caller of handle()  *)
(* or of a throwaway handle.                                               *)
(***************************************************************************)
LEMMA AloneStays ==
    ASSUME TypeOK, NEW t \in Callers, Step(t), HandlesAlone'
    PROVE  HandlesAlone /\ t \in Handled \cup Extra
<1>. USE Kinds
<1>1. CASE HandleReturns(t)
  BY <1>1 DEF HandleReturns, HandlesAlone, Callers
<1>2. CASE EnterDbh(t) /\ pc[t] \in {"new", "retry"}
  BY <1>2, EnterPhases DEF HandlesAlone, Callers
<1>3. CASE /\ pc'[t] \notin {"new", "absent"} /\ pc[t] \notin {"absent"}
           /\ \A u \in Callers \ {t} : pc'[u] = pc[u]
  BY <1>3 DEF HandlesAlone, Callers
<1>. QED
  BY <1>1, <1>2, <1>3
     DEF Step, CallDbh, PoolCreated, CreateFails, ReplicaFails, InstallPool, ReplacedEnded,
         DirectReturns, DirectDone, CallHandle, EnterHandle, CallbackDone, PoolIsClosed,
         NullHandle, ConnectionLost, Retry, CloseAll, AllClosed, Goto, TypeOK

\* A throwaway handle touches neither the cache nor a caller of handle().
LEMMA ExtraStep ==
    ASSUME TypeOK, PhaseInv, NEW t \in Extra, Step(t)
    PROVE  /\ UNCHANGED <<cache, handleDbh, inProgress, attempt>>
           /\ \A u \in Callers \ {t} : /\ pc'[u] = pc[u] /\ pool'[u] = pool[u]
                                       /\ replaced'[u] = replaced[u]
           /\ pc'[t] # "new"
<1>. USE Kinds
<1>1. t \in Callers /\ t \notin Handled /\ t \notin Closers /\ t \notin Recovering
  OBVIOUS
<1>2. ~Caches(t)
  BY <1>1 DEF Caches, IgnoresCache, ClosesReplaced
<1>3. CASE CallDbh(t)
  BY <1>1, <1>3, EnterPhases DEF CallDbh, shared
<1>. QED
  BY <1>1, <1>2, <1>3
     DEF Step, PoolCreated, CreateFails, ReplicaFails, InstallPool, ReplacedEnded,
         DirectReturns, DirectDone, CallHandle, HandleReturns, CallbackDone, PoolIsClosed,
         NullHandle, ConnectionLost, CloseAll, AllClosed, Goto, TypeOK, shared

\* The cache changes only under the caller that is inside dbh(), and it is the handle.
LEMMA CacheStep ==
    ASSUME TypeOK, PhaseInv, CacheIsHandle, NEW t \in Handled, Step(t)
    PROVE  CacheIsHandle'
<1>. USE Kinds DEF Inside, Active
<1>1. t \in Callers /\ t \notin Direct /\ t \notin Extra /\ t \notin Closers
  OBVIOUS
<1>2. \A u \in Handled \ {t} : pc[t] \in Inside => pc[u] \notin Inside
  BY <1>1 DEF PhaseInv
<1>3. CASE PoolCreated(t) \/ CreateFails(t) \/ ReplicaFails(t)
  BY <1>1, <1>2, <1>3
     DEF PoolCreated, CreateFails, ReplicaFails, CacheIsHandle, PhaseInv, TypeOK, Goto, shared
<1>4. CASE InstallPool(t)
  <2>1. Caches(t)
    BY <1>1 DEF Caches, IgnoresCache, ClosesReplaced
  <2>. QED
    BY <1>1, <1>2, <1>4, <2>1 DEF InstallPool, CacheIsHandle, PhaseInv, TypeOK, Goto
<1>5. CASE ReplacedEnded(t)
  BY <1>1, <1>2, <1>5 DEF ReplacedEnded, CacheIsHandle, TypeOK, Goto, shared
<1>6. CASE CallHandle(t)
  <2>1. /\ pc[t] \in {"new", "retry"} /\ attempt' = attempt /\ EnterHandle(t)
        /\ UNCHANGED <<cache, handleDbh>>
    BY <1>6 DEF CallHandle
  <2>2. CASE EnterDbh(t) /\ inProgress' = t
    <3>1. \/ pc'[t] = "returned" /\ pool'[t] = cache
          \/ pc'[t] = "creating" /\ replaced'[t] = cache
      <4>1. cache # None /\ IgnoresCache(t) => ClosesReplaced(t)
        BY <1>1 DEF IgnoresCache, ClosesReplaced
      <4>. QED
        BY <1>1, <2>2, <4>1, EnterPhases
    <3>. QED
      BY <1>1, <2>1, <2>2, <3>1, EnterPhases DEF CacheIsHandle
  <2>3. CASE pc' = [pc EXCEPT ![t] = "joined"] /\ UNCHANGED <<pool, replaced, inProgress>>
    BY <1>1, <2>1, <2>3 DEF CacheIsHandle, TypeOK
  <2>4. CASE /\ pc' = [pc EXCEPT ![t] = "using"] /\ UNCHANGED <<replaced, inProgress>>
             /\ pool' = [pool EXCEPT ![t] = handleDbh]
    BY <1>1, <2>1, <2>4 DEF CacheIsHandle, TypeOK
  <2>. QED
    BY <2>1, <2>2, <2>3, <2>4 DEF EnterHandle, Goto
<1>7. CASE HandleReturns(t)
  BY <1>1, <1>2, <1>7 DEF HandleReturns, Published, ResolvedBy, Joined, CacheIsHandle
<1>8. CASE CallbackDone(t) \/ PoolIsClosed(t) \/ NullHandle(t) \/ ConnectionLost(t)
  BY <1>1, <1>8
     DEF CallbackDone, PoolIsClosed, NullHandle, ConnectionLost, Retry, CacheIsHandle, Goto,
         TypeOK, shared
<1>. QED
  BY <1>1, <1>3, <1>4, <1>5, <1>6, <1>7, <1>8
     DEF Step, CallDbh, DirectReturns, DirectDone, CloseAll, AllClosed

\* A step that neither creates, fails nor installs a pool keeps what is created and cached.
Keeps(t) ==
    /\ UNCHANGED <<cache, readFaults>>
    /\ \A p \in Pools : /\ state'[p] = "open" => state[p] = "open"
                        /\ state'[p] # "unborn" => state[p] # "unborn"
    /\ \A u \in Extra : pool'[u] = pool[u]
    /\ \A u \in Callers : /\ pc[u] = "replicas" => pc'[u] = "replicas" /\ pool'[u] = pool[u]
                          /\ ClosesReplaced(u)' = ClosesReplaced(u) \/ pc[u] = "using"
    /\ Recovered \subseteq Recovered'

LEMMA KeepSteps ==
    ASSUME TypeOK, PhaseInv, BornInv, NEW t \in Handled \cup Extra, Step(t)
    PROVE  PoolCreated(t) \/ ReplicaFails(t) \/ InstallPool(t) \/ Keeps(t)
<1>. USE Kinds DEF Keeps
<1>1. t \in Callers /\ t \notin Closers /\ t \notin Direct
  OBVIOUS
<1>2. CASE CallDbh(t)
  <2>1. EnterDbh(t) /\ pc[t] = "new" /\ attempt' = attempt /\ t \in Extra
        /\ UNCHANGED <<shared, counts>>
    BY <1>1, <1>2 DEF CallDbh
  <2>2. \A u \in Callers : pc[u] = "replicas" => u # t
    BY <2>1
  <2>3. pool' = pool
    BY <2>1 DEF EnterDbh, IgnoresCache
  <2>4. Recovered \subseteq Recovered'
    BY <2>1, EnterPhases DEF Recovered
  <2>. QED
    BY <2>1, <2>2, <2>3, <2>4, EnterPhases DEF shared, counts, ClosesReplaced
<1>3. CASE CreateFails(t)
  <2>1. t \in Extra => pool[t] = None
    BY <1>3 DEF CreateFails, PhaseInv
  <2>2. Recovered \subseteq Recovered'
    BY <1>3 DEF CreateFails, Recovered, TypeOK, Goto
  <2>. QED
    BY <1>1, <1>3, <2>1, <2>2 DEF CreateFails, ClosesReplaced, TypeOK, Goto, shared, Fault
<1>4. CASE ReplacedEnded(t) \/ DirectReturns(t)
  <2>1. Recovered \subseteq Recovered'
    BY <1>4 DEF ReplacedEnded, DirectReturns, Recovered, TypeOK, Goto
  <2>. QED
    BY <1>1, <1>4, <2>1
       DEF ReplacedEnded, DirectReturns, ClosesReplaced, TypeOK, Goto, shared, counts
<1>5. CASE DirectDone(t)
  <2>1. Recovered \subseteq Recovered'
    BY <1>5 DEF DirectDone, Recovered, TypeOK, Goto
  <2>. QED
    BY <1>1, <1>5, <2>1
       DEF DirectDone, ClosesReplaced, TypeOK, PhaseInv, BornInv, Goto, counts
<1>6. CASE CallHandle(t)
  <2>1. /\ t \in Handled /\ pc[t] \in {"new", "retry"} /\ attempt' = attempt /\ EnterHandle(t)
        /\ UNCHANGED <<cache, state, counts>>
    BY <1>6 DEF CallHandle
  <2>2. \A u \in Callers \ {t} : pc'[u] = pc[u] /\ pool'[u] = pool[u]
    BY <1>1, <2>1, EnterPhases DEF EnterHandle, Goto, TypeOK
  <2>3. t \notin Recovered
    BY <2>1 DEF Recovered, PhaseInv
  <2>4. Recovered \subseteq Recovered'
    BY <2>1, <2>2, <2>3 DEF Recovered
  <2>. QED
    BY <1>1, <2>1, <2>2, <2>4 DEF ClosesReplaced, counts
<1>7. CASE HandleReturns(t)
  <2>1. \A u \in Callers : \/ u \in Joined \cup {t} /\ u \in Handled /\ pc[u] \in {"joined", "returned"}
                              /\ pc'[u] = "using"
                           \/ pc'[u] = pc[u] /\ pool'[u] = pool[u]
    BY <1>7 DEF HandleReturns, ResolvedBy, Joined, PhaseInv
  <2>2. UNCHANGED <<attempt, cache, state, counts>>
    BY <1>7 DEF HandleReturns
  <2>3. Recovered \subseteq Recovered'
    BY <2>1, <2>2 DEF Recovered
  <2>. QED
    BY <2>1, <2>2, <2>3 DEF ClosesReplaced, counts
<1>8. CASE CallbackDone(t) \/ PoolIsClosed(t) \/ NullHandle(t) \/ ConnectionLost(t)
  <2>1. /\ pc[t] = "using" /\ t \in Handled
        /\ \/ pc'[t] \in {"done", "failed"} /\ attempt' = attempt
           \/ pc'[t] = "retry" /\ attempt[t] = 1 /\ attempt' = [attempt EXCEPT ![t] = 2]
        /\ \A u \in Callers \ {t} : pc'[u] = pc[u]
        /\ UNCHANGED <<pool, cache, state, readFaults>>
    BY <1>1, <1>8
       DEF CallbackDone, PoolIsClosed, NullHandle, ConnectionLost, Retry, Goto, TypeOK, shared,
           counts, Fault
  <2>2. Recovered \subseteq Recovered'
    BY <2>1 DEF Recovered, TypeOK
  <2>. QED
    BY <2>1, <2>2 DEF ClosesReplaced, TypeOK
<1>. QED
  BY <1>1, <1>2, <1>3, <1>4, <1>5, <1>6, <1>7, <1>8 DEF Step, CloseAll, AllClosed

\* Every open pool stays the cached one, a throwaway, or on its way to the cache.
LEMMA OrphanStep ==
    ASSUME TypeOK, PhaseInv, BornInv, CacheIsHandle, NoOrphans,
           NEW t \in Handled \cup Extra, Step(t)
    PROVE  NoOrphans'
<1>. USE Kinds
<1>1. t \in Callers
  OBVIOUS
<1>2. ASSUME readFaults = 0, NEW p \in Pools, state[p] = "open", \A u \in Extra : pool[u] # p
      PROVE  p = cache \/ \E u \in Callers : pool[u] = p /\ pc[u] = "replicas"
  BY <1>2 DEF NoOrphans, OpenPools
<1>3. ASSUME readFaults' = 0, NEW p \in Pools, state'[p] = "open", \A u \in Extra : pool'[u] # p
      PROVE  p = cache' \/ \E u \in Callers : pool'[u] = p /\ pc'[u] = "replicas"
  <2>1. CASE Keeps(t)
    BY <1>2, <1>3, <2>1 DEF Keeps
  <2>2. CASE PoolCreated(t)
    <3>1. PICK q \in Pools : state' = [state EXCEPT ![q] = "open"] /\ pool' = [pool EXCEPT ![t] = q]
      BY <2>2 DEF PoolCreated
    <3>2. /\ pc[t] = "creating" /\ pc' = [pc EXCEPT ![t] = "replicas"]
          /\ UNCHANGED <<cache, readFaults>>
      BY <2>2 DEF PoolCreated, Goto, counts
    <3>3. CASE p = q
      BY <1>1, <3>1, <3>2, <3>3 DEF TypeOK
    <3>4. CASE p # q
      <4>1. state[p] = "open" /\ \A u \in Extra : pool[u] # p
        BY <1>3, <3>1, <3>2, <3>4 DEF TypeOK, PhaseInv
      <4>. QED
        BY <1>1, <1>2, <1>3, <3>1, <3>2, <4>1 DEF TypeOK
    <3>. QED
      BY <3>3, <3>4
  <2>3. CASE ReplicaFails(t)
    BY <1>3, <2>3, Bounds DEF ReplicaFails, TypeOK
  <2>4. CASE InstallPool(t)
    <3>1. /\ pc[t] = "replicas" /\ UNCHANGED <<pool, readFaults>>
          /\ \A u \in Callers \ {t} : pc'[u] = pc[u]
          /\ cache' = IF Caches(t) THEN pool[t] ELSE cache
          /\ state' = CloseReplaced(t)
      BY <2>4 DEF InstallPool, Goto, TypeOK, counts
    <3>2. state[p] = "open" /\ \A u \in Extra : pool[u] # p
      BY <1>3, <3>1 DEF CloseReplaced, TypeOK
    <3>3. CASE t \in Extra
      <4>1. ~Caches(t)
        BY <3>3 DEF Caches, IgnoresCache, ClosesReplaced
      <4>. QED
        BY <1>2, <1>3, <3>1, <3>2, <3>3, <4>1
    <3>4. CASE t \in Handled
      <4>1. Caches(t) /\ replaced[t] = cache
        BY <3>1, <3>4 DEF Caches, IgnoresCache, ClosesReplaced, CacheIsHandle
      <4>2. p # cache \/ cache = None
        BY <1>3, <3>1, <4>1 DEF CloseReplaced, TypeOK
      <4>. QED
        BY <1>2, <1>3, <3>1, <3>2, <4>1, <4>2
    <3>. QED
      BY <3>3, <3>4
  <2>. QED
    BY <2>1, <2>2, <2>3, <2>4, KeepSteps
<1>. QED
  BY <1>3 DEF NoOrphans, OpenPools

-----------------------------------------------------------------------------
LEMMA Finite ==
    /\ IsFiniteSet(CreatedPools) /\ Cardinality(CreatedPools) \in Nat
    /\ IsFiniteSet(CreatedPools') /\ Cardinality(CreatedPools') \in Nat
    /\ IsFiniteSet(Recovered) /\ Cardinality(Recovered) \in Nat
    /\ IsFiniteSet(Recovered') /\ Cardinality(Recovered') \in Nat
<1>1. /\ CreatedPools \subseteq Pools /\ CreatedPools' \subseteq Pools
      /\ Recovered \subseteq Recovering /\ Recovered' \subseteq Recovering
  BY DEF CreatedPools, Recovered
<1>2. /\ IsFiniteSet(CreatedPools) /\ IsFiniteSet(CreatedPools')
      /\ IsFiniteSet(Recovered) /\ IsFiniteSet(Recovered')
  BY <1>1, Bounds, FS_Subset
<1>. QED
  BY <1>2, FS_CardinalityType

\* How the counts move with the sets.
LEMMA RecoveredGrow ==
    ASSUME Recovered \subseteq Recovered'
    PROVE  /\ Cardinality(Recovered) <= Cardinality(Recovered')
           /\ Recovered' # Recovered => Cardinality(Recovered) + 1 <= Cardinality(Recovered')
<1>1. /\ Cardinality(Recovered) <= Cardinality(Recovered')
      /\ Cardinality(Recovered) = Cardinality(Recovered') => Recovered = Recovered'
  BY Finite, FS_Subset
<1>. QED
  BY <1>1, Finite

LEMMA CreatedKept ==
    ASSUME CreatedPools' \subseteq CreatedPools
    PROVE  Cardinality(CreatedPools') <= Cardinality(CreatedPools)
  BY Finite, FS_Subset

LEMMA CreatedOne ==
    ASSUME NEW p, CreatedPools' \subseteq CreatedPools \cup {p}
    PROVE  Cardinality(CreatedPools') <= Cardinality(CreatedPools) + 1
<1>1. /\ IsFiniteSet(CreatedPools \cup {p})
      /\ Cardinality(CreatedPools \cup {p}) \in {Cardinality(CreatedPools), Cardinality(CreatedPools) + 1}
  BY Finite, FS_AddElement
<1>2. Cardinality(CreatedPools') <= Cardinality(CreatedPools \cup {p})
  BY <1>1, FS_Subset
<1>. QED
  BY <1>1, <1>2, Finite

\* A further pool is created only by a second attempt, or replaces one whose replica failed.
LEMMA CountStep ==
    ASSUME TypeOK, PhaseInv, BornInv, PrivateInv, CacheIsHandle, CountInv,
           NEW t \in Handled \cup Extra, Step(t)
    PROVE  CountInv'
<1>. USE Kinds
<1>1. /\ t \in Callers
      /\ readFaults \in Nat /\ readFaults' \in Nat
  <2>1. TypeOK'
    BY TypeStep, Kinds DEF Next
  <2>. QED
    BY <2>1, Bounds DEF TypeOK
<1>2. Cardinality(CreatedPools) <= (IF HasFirst THEN 1 ELSE 0) + readFaults + Cardinality(Recovered)
  BY DEF CountInv
<1>3. ASSUME CreatedPools' \subseteq CreatedPools, readFaults' = readFaults,
             Recovered \subseteq Recovered', HasFirst => HasFirst'
      PROVE  CountInv'
  BY <1>1, <1>2, <1>3, Finite, RecoveredGrow, CreatedKept DEF CountInv
<1>4. CASE Keeps(t)
  <2>1. CreatedPools' \subseteq CreatedPools
    BY <1>4 DEF Keeps, CreatedPools
  <2>2. HasFirst => HasFirst'
    BY <1>4 DEF Keeps, HasFirst
  <2>. QED
    BY <1>3, <1>4, <2>1, <2>2 DEF Keeps
<1>5. CASE PoolCreated(t)
  <2>1. PICK p \in Pools : state' = [state EXCEPT ![p] = "open"] /\ pool' = [pool EXCEPT ![t] = p]
    BY <1>5 DEF PoolCreated
  <2>2. /\ pc[t] = "creating" /\ pc' = [pc EXCEPT ![t] = "replicas"]
        /\ UNCHANGED <<cache, readFaults, attempt>>
    BY <1>5 DEF PoolCreated, Goto, counts
  <2>3. CreatedPools' \subseteq CreatedPools \cup {p}
    BY <1>1, <2>1, <2>2 DEF CreatedPools, TypeOK, PhaseInv
  <2>4. Recovered \subseteq Recovered' /\ t \notin Recovered
    BY <2>2 DEF Recovered, TypeOK
  <2>5. HasFirst => HasFirst'
    BY <1>1, <2>2 DEF HasFirst, ClosesReplaced, TypeOK
  <2>6. CASE t \in Extra
    <3>1. p \notin CreatedPools'
      BY <1>1, <2>1, <2>6 DEF CreatedPools, TypeOK
    <3>. QED
      BY <1>3, <2>2, <2>3, <2>4, <2>5, <3>1
  <2>7. CASE t \in Handled /\ ClosesReplaced(t)
    <3>1. t \in Recovered'
      BY <2>2, <2>7 DEF Recovered, ClosesReplaced, TypeOK
    <3>2. Cardinality(Recovered) + 1 <= Cardinality(Recovered')
      BY <2>4, <3>1, RecoveredGrow
    <3>3. Cardinality(CreatedPools') <= Cardinality(CreatedPools) + 1
      BY <2>3, CreatedOne
    <3>. QED
      BY <1>1, <1>2, <2>2, <2>5, <3>2, <3>3, Finite DEF CountInv
  <2>8. CASE t \in Handled /\ ~ClosesReplaced(t)
    <3>1. cache = None
      BY <1>1, <2>2, <2>8 DEF CacheIsHandle, PhaseInv
    <3>2. ~HasFirst
      BY <1>1, <2>2, <2>8, <3>1 DEF HasFirst, PhaseInv, Active, Inside
    <3>3. HasFirst'
      BY <1>1, <2>2, <2>8 DEF HasFirst, ClosesReplaced, TypeOK
    <3>4. Cardinality(CreatedPools') <= Cardinality(CreatedPools) + 1
      BY <2>3, CreatedOne
    <3>. QED
      BY <1>1, <1>2, <2>2, <2>4, <3>2, <3>3, <3>4, Finite, RecoveredGrow DEF CountInv
  <2>. QED
    BY <2>6, <2>7, <2>8
<1>6. CASE ReplicaFails(t)
  <2>1. /\ pc[t] = "replicas" /\ readFaults' = readFaults + 1
        /\ pc' = [pc EXCEPT ![t] = "returned"] /\ pool' = [pool EXCEPT ![t] = None]
        /\ UNCHANGED <<cache, state, attempt>>
    BY <1>6 DEF ReplicaFails, Goto, shared
  <2>2. Recovered \subseteq Recovered'
    BY <2>1 DEF Recovered, TypeOK
  <2>3. CASE t \in Extra
    <3>1. CreatedPools' \subseteq CreatedPools \cup {pool[t]}
      BY <1>1, <2>1 DEF CreatedPools, TypeOK
    <3>2. HasFirst => HasFirst'
      BY <1>1, <2>1, <2>3 DEF HasFirst, ClosesReplaced, TypeOK
    <3>3. Cardinality(CreatedPools') <= Cardinality(CreatedPools) + 1
      BY <3>1, CreatedOne
    <3>. QED
      BY <1>1, <1>2, <2>1, <2>2, <3>2, <3>3, Finite, RecoveredGrow DEF CountInv
  <2>4. CASE t \in Handled
    <3>1. CreatedPools' \subseteq CreatedPools
      BY <1>1, <2>1, <2>4 DEF CreatedPools, TypeOK
    <3>. QED
      BY <1>1, <1>2, <2>1, <2>2, <3>1, Finite, RecoveredGrow, CreatedKept DEF CountInv
  <2>. QED
    BY <2>3, <2>4
<1>7. CASE InstallPool(t)
  <2>1. /\ pc[t] = "replicas" /\ pc'[t] \in {"ending", "returned"}
        /\ \A u \in Callers \ {t} : pc'[u] = pc[u]
        /\ UNCHANGED <<pool, readFaults, attempt>>
        /\ cache' = IF Caches(t) THEN pool[t] ELSE cache
    BY <1>7 DEF InstallPool, Goto, counts, TypeOK
  <2>2. Recovered \subseteq Recovered'
    BY <2>1 DEF Recovered
  <2>3. CreatedPools' \subseteq CreatedPools
    BY <1>7, <2>1 DEF InstallPool, CloseReplaced, CreatedPools, BornInv, TypeOK
  <2>4. HasFirst => HasFirst'
    <3>1. CASE t \in Extra
      <4>1. ~Caches(t)
        BY <3>1 DEF Caches, IgnoresCache, ClosesReplaced
      <4>. QED
        BY <1>1, <2>1, <3>1, <4>1 DEF HasFirst, ClosesReplaced
    <3>2. CASE t \in Handled
      <4>1. Caches(t) /\ pool[t] # None
        BY <1>1, <2>1, <3>2 DEF Caches, IgnoresCache, ClosesReplaced, PhaseInv
      <4>. QED
        BY <2>1, <4>1 DEF HasFirst
    <3>. QED
      BY <3>1, <3>2
  <2>. QED
    BY <1>3, <2>1, <2>2, <2>3, <2>4
<1>. QED
  BY <1>4, <1>5, <1>6, <1>7, KeepSteps

LEMMA AloneStep ==
    TypeOK /\ PhaseInv /\ BornInv /\ PrivateInv /\ AloneInv /\ [Next]_vars => AloneInv'
<1>. SUFFICES ASSUME TypeOK, PhaseInv, BornInv, PrivateInv, AloneInv, [Next]_vars, HandlesAlone'
              PROVE  CacheIsHandle' /\ NoOrphans' /\ CountInv'
  BY DEF AloneInv
<1>1. CASE \E t \in Callers : Step(t)
  <2>1. PICK t \in Callers : Step(t)
    BY <1>1
  <2>2. CacheIsHandle /\ NoOrphans /\ CountInv /\ t \in Handled \cup Extra
    BY <2>1, AloneStays DEF AloneInv
  <2>3. CacheIsHandle'
    <3>1. CASE t \in Handled
      BY <2>1, <2>2, <3>1, CacheStep
    <3>2. CASE t \in Extra
      BY <2>1, <2>2, <3>2, ExtraStep, Kinds DEF CacheIsHandle
    <3>. QED
      BY <2>2, <3>1, <3>2
  <2>. QED
    BY <2>1, <2>2, <2>3, OrphanStep, CountStep
<1>2. CASE UNCHANGED vars
  <2>1. CacheIsHandle /\ NoOrphans /\ CountInv
    BY <1>2 DEF AloneInv, HandlesAlone, vars, callers
  <2>. QED
    BY <1>2, <2>1
       DEF vars, callers, shared, counts, CacheIsHandle, NoOrphans, CountInv, OpenPools,
           CreatedPools, Recovered, HasFirst, ClosesReplaced
<1>. QED
  BY <1>1, <1>2 DEF Next

-----------------------------------------------------------------------------
\* Nothing has been created.
LEMMA InitInv == Init => IInv
<1>. SUFFICES ASSUME Init PROVE IInv
  OBVIOUS
<1>. USE Kinds
<1>1. TypeOK
  BY Bounds DEF Init, TypeOK, Phases, Over
<1>2. \A t \in Callers : /\ pc[t] \in {"new", "absent"} /\ attempt[t] = 1
                         /\ pool[t] = None /\ replaced[t] = None
  BY DEF Init
<1>3. /\ cache = None /\ handleDbh = None /\ inProgress = None /\ readFaults = 0
      /\ \A p \in Pools : state[p] = "unborn"
  BY DEF Init
<1>4. PhaseInv /\ BornInv /\ PrivateInv /\ ClosingInv
  BY <1>2, <1>3 DEF PhaseInv, BornInv, PrivateInv, ClosingInv, Private, Active, Inside
<1>5. CacheIsHandle /\ NoOrphans
  BY <1>2, <1>3 DEF CacheIsHandle, NoOrphans, OpenPools
<1>6. CountInv
  <2>1. CreatedPools = {}
    BY <1>3 DEF CreatedPools
  <2>2. Cardinality(CreatedPools) = 0
    BY <2>1, FS_EmptySet
  <2>. QED
    BY <1>3, <2>2, Finite DEF CountInv
<1>. QED
  BY <1>1, <1>4, <1>5, <1>6 DEF IInv, AloneInv

LEMMA IInvStep == IInv /\ [Next]_vars => IInv'
  BY TypeStep, PhaseStep, BornStep, PrivateStep, ClosingStep, AloneStep DEF IInv

LEMMA Invariance == Spec => []IInv
  BY InitInv, IInvStep, PTL DEF Spec

(***************************************************************************)
(* The type invariant of the pools, for any callers and bounds.            *)
(***************************************************************************)
THEOREM TypeCorrect == Spec => []TypeOK
<1>1. IInv => TypeOK
  BY DEF IInv
<1>. QED
  BY <1>1, Invariance, PTL

(***************************************************************************)
(* Nobody is handed a pool that somebody has ended: not by dbh(), but      *)
(* while closeAllConnections is waiting, and not by handle(), whose        *)
(* callers join a replacement that is under way.                           *)
(***************************************************************************)
THEOREM OpenPoolsServed == Spec => []OpenPoolsAreServed
<1>1. ASSUME IInv, HandlesAlone, inProgress = None, handleDbh # None
      PROVE  state[handleDbh] = "open"
  <2>1. handleDbh = cache /\ cache \in Pools
    BY <1>1 DEF IInv, AloneInv, CacheIsHandle, TypeOK
  <2>2. state[cache] # "ended"
    BY <1>1, <2>1, Kinds DEF IInv, ClosingInv, HandlesAlone
  <2>3. state[cache] # "unborn"
    BY <1>1, <2>1 DEF IInv, BornInv
  <2>. QED
    BY <1>1, <2>1, <2>2, <2>3 DEF IInv, TypeOK
<1>2. IInv => OpenPoolsAreServed
  BY <1>1 DEF OpenPoolsAreServed, IInv, ClosingInv
<1>. QED
  BY <1>2, Invariance, PTL

(***************************************************************************)
(* Callers that go through handle() share one pool and orphan none; a      *)
(* further pool is created only by a call whose first attempt failed.      *)
(***************************************************************************)
THEOREM OneHandle == Spec => []OneHandleForAll
<1>1. ASSUME IInv, HandlesAlone
      PROVE  Cardinality(CreatedPools)
                 <= 1 + readFaults + Cardinality({t \in Recovering : attempt[t] = 2})
  <2>. DEFINE Second == {t \in Recovering : attempt[t] = 2}
  <2>1. IsFiniteSet(Second) /\ Recovered \subseteq Second
    BY Bounds, FS_Subset DEF Recovered
  <2>2. Cardinality(Recovered) <= Cardinality(Second) /\ Cardinality(Second) \in Nat
    BY <2>1, FS_Subset, FS_CardinalityType
  <2>3. Cardinality(CreatedPools) <= (IF HasFirst THEN 1 ELSE 0) + readFaults + Cardinality(Recovered)
    BY <1>1 DEF IInv, AloneInv, CountInv
  <2>4. readFaults \in Nat
    BY <1>1, Bounds DEF IInv, TypeOK
  <2>. QED
    BY <2>2, <2>3, <2>4, Finite
<1>2. IInv => OneHandleForAll
  BY <1>1 DEF OneHandleForAll, CreatedPools, IInv, AloneInv, NoOrphans
<1>. QED
  BY <1>2, Invariance, PTL

====
