------------------------- MODULE SqliteQueueProofs -------------------------
(***************************************************************************)
(* Proofs about SqliteQueue for any number of transactions and queries.    *)
(* The inductive invariant says three things: the promise chain is         *)
(* resolved from the front (ChainInv); the handle's _activeTransaction is  *)
(* the one call that is between resume and release (ActiveInv); and the    *)
(* microtask queue holds deferred queries only while no call is active,    *)
(* with at most one resume or begin job, at its end (JobsInv).             *)
(***************************************************************************)
EXTENDS SqliteQueue, SequenceTheorems, TLAPS

ChainInv ==
    /\ 0 \in unlocked
    /\ \A t \in Txs : position[t] <= lastPosition
    /\ \A t \in Txs : pc[t] = "new" <=> position[t] = 0
    /\ \A t, u \in Txs : position[t] = position[u] /\ position[t] # 0 => t = u
    /\ \A t \in Txs : pc[t] \in Running \cup {"settled"} => position[t] - 1 \in unlocked
    /\ \A n \in unlocked \ {0} : \E t \in Txs : position[t] = n /\ pc[t] = "settled"
    /\ \A n \in unlocked : \A m \in 0 .. n : m \in unlocked

ActiveInv ==
    /\ \A t \in Txs : pc[t] \in Running <=> active = t
    /\ dbOwner # None => active = dbOwner /\ pc[dbOwner] = "body"

JobsInv ==
    \A i \in 1 .. Len(jobs) :
        /\ jobs[i].kind = "query" => active = None
        /\ jobs[i].kind = "resume" =>
             /\ i = Len(jobs) /\ active = None
             /\ pc[jobs[i].who] = "waiting"
             /\ position[jobs[i].who] - 1 \in unlocked
        /\ jobs[i].kind = "begin" =>
             i = Len(jobs) /\ active = jobs[i].who /\ pc[jobs[i].who] = "begin"

DeferredInv ==
    \A t \in Txs : \A i \in 1 .. Len(deferred[t]) :
        active = t /\ query[deferred[t][i]] = "deferred"

IInv ==
    /\ TypeOK
    /\ ChainInv
    /\ ActiveInv
    /\ JobsInv
    /\ DeferredInv
    /\ NoForeignStatement

(***************************************************************************)
(* The promise of a call is resolved only once the call has settled.       *)
(***************************************************************************)
LEMMA UnlockedMeansSettled ==
    ASSUME TypeOK, ChainInv, NEW t \in Txs, position[t] \in unlocked, position[t] # 0
    PROVE  pc[t] = "settled"
<1>1. PICK u \in Txs : position[u] = position[t] /\ pc[u] = "settled"
  BY DEF ChainInv
<1>2. u = t
  BY <1>1 DEF ChainInv
<1> QED BY <1>1, <1>2

(***************************************************************************)
(* When the last promise of the chain is resolved nothing is under way.    *)
(***************************************************************************)
LEMMA NothingUnderWay ==
    ASSUME TypeOK, ChainInv, lastPosition \in unlocked, NEW t \in Txs
    PROVE  pc[t] \in {"new", "settled"}
<1>1. position[t] \in Nat /\ lastPosition \in Nat /\ position[t] <= lastPosition
  BY DEF TypeOK, ChainInv
<1>2. position[t] \in unlocked
  BY <1>1 DEF ChainInv
<1>3. CASE position[t] = 0
  BY <1>3 DEF ChainInv
<1>4. CASE position[t] # 0
  BY <1>2, <1>4, UnlockedMeansSettled
<1> QED BY <1>3, <1>4

LEMMA InitInv == Init => IInv
BY NoneAssumption
   DEF Init, IInv, TypeOK, ChainInv, ActiveInv, JobsInv, DeferredInv,
       NoForeignStatement, Phases, Running

(***************************************************************************)
(* One lemma per action: it preserves the inductive invariant.             *)
(***************************************************************************)
LEMMA AcquireInv == ASSUME IInv, NEW t \in Txs, Acquire(t) PROVE IInv'
<1> USE DEF IInv
<1>1. TypeOK'
  BY DEF TypeOK, Acquire, Phases, Jobs, Resume
<1>2. ChainInv'
  BY DEF TypeOK, ChainInv, Acquire, Phases, Running
<1>3. ActiveInv'
  BY DEF TypeOK, ActiveInv, Acquire, Phases, Running
<1>4. JobsInv'
  <2>1. CASE lastPosition \in unlocked
    <3>1. \A u \in Txs : pc[u] \in {"new", "settled"}
      BY <2>1, NothingUnderWay
    <3>2. active = None
      BY <3>1 DEF ActiveInv, TypeOK, Running
    <3>3. \A i \in 1 .. Len(jobs) : jobs[i].kind = "query"
      <4>1. \A i \in 1 .. Len(jobs) : jobs[i] \in Jobs
        BY DEF TypeOK
      <4>2. \A i \in 1 .. Len(jobs) : jobs[i].kind # "resume"
        BY <3>1, <4>1 DEF JobsInv, Jobs
      <4>3. \A i \in 1 .. Len(jobs) : jobs[i].kind # "begin"
        BY <3>1, <4>1 DEF JobsInv, Jobs
      <4> QED BY <4>1, <4>2, <4>3 DEF Jobs
    <3>4. jobs' = Append(jobs, Resume(t)) /\ jobs \in Seq(Jobs)
      BY <2>1 DEF Acquire, TypeOK
    <3>5. Len(jobs') = Len(jobs) + 1 /\ jobs'[Len(jobs')] = Resume(t)
      BY <3>4
    <3>6. \A i \in 1 .. Len(jobs) : jobs'[i].kind = "query"
      BY <3>3, <3>4
    <3>7. pc'[t] = "waiting" /\ position'[t] - 1 \in unlocked' /\ active' = None
      BY <2>1, <3>2 DEF Acquire, TypeOK
    <3> QED BY <3>5, <3>6, <3>7 DEF JobsInv, Resume
  <2>2. CASE lastPosition \notin unlocked
    BY <2>2 DEF TypeOK, JobsInv, Acquire, Jobs, Phases
  <2> QED BY <2>1, <2>2
<1>5. DeferredInv'
  BY DEF DeferredInv, Acquire
<1>6. NoForeignStatement'
  BY DEF NoForeignStatement, Acquire
<1> QED BY <1>1, <1>2, <1>3, <1>4, <1>5, <1>6

(***************************************************************************)
(* Sending a query touches only the queries: what Query and                *)
(* CallbackQueriesParent have in common.                                   *)
(***************************************************************************)
LEMMA DispatchInv ==
    ASSUME IInv, NEW q \in Queries, query[q] = "new", Dispatch(q),
           awaiting' \in [Txs -> Queries \cup {None}],
           UNCHANGED <<pc, position, lastPosition, unlocked, active, jobs, dbOwner>>
    PROVE  IInv'
<1> USE DEF IInv
<1>1. CASE active # None
  <2>1. active \in Txs /\ deferred' = [deferred EXCEPT ![active] = Append(@, q)]
        /\ query' = [query EXCEPT ![q] = "deferred"] /\ ranInside' = ranInside
    BY <1>1 DEF Dispatch, TypeOK
  <2>2. TypeOK'
    BY <2>1 DEF TypeOK
  <2>3. DeferredInv'
    BY <2>1 DEF DeferredInv, TypeOK
  <2> QED BY <2>1, <2>2, <2>3
          DEF ChainInv, ActiveInv, JobsInv, NoForeignStatement
<1>2. CASE active = None
  <2>1. dbOwner = None
    BY <1>2, NoneAssumption DEF ActiveInv
  <2>2. query' = [query EXCEPT ![q] = "done"] /\ ranInside' = ranInside
        /\ deferred' = deferred
    BY <1>2, <2>1 DEF Dispatch, Execute
  <2>3. TypeOK'
    BY <2>2 DEF TypeOK
  <2>4. DeferredInv'
    BY <2>2, <1>2, NoneAssumption DEF DeferredInv, TypeOK
  <2> QED BY <2>2, <2>3, <2>4
          DEF ChainInv, ActiveInv, JobsInv, NoForeignStatement
<1> QED BY <1>1, <1>2

LEMMA QueryInv == ASSUME IInv, NEW q \in Queries, Query(q) PROVE IInv'
BY DispatchInv DEF Query, IInv, TypeOK

LEMMA CallbackQueriesParentInv ==
    ASSUME IInv, NEW t \in Txs, NEW q \in Queries, CallbackQueriesParent(t, q)
    PROVE  IInv'
<1>1. awaiting' \in [Txs -> Queries \cup {None}]
  BY DEF CallbackQueriesParent, IInv, TypeOK
<1> QED BY <1>1, DispatchInv DEF CallbackQueriesParent

(***************************************************************************)
(* The job at the head, and what is left of the queue without it.          *)
(***************************************************************************)
LEMMA HeadJob ==
    ASSUME TypeOK, jobs # <<>>
    PROVE  /\ Len(jobs) \in Nat \ {0}
           /\ Head(jobs) = jobs[1] /\ jobs[1] \in Jobs
           /\ Tail(jobs) \in Seq(Jobs)
           /\ Len(Tail(jobs)) = Len(jobs) - 1
           /\ \A i \in 1 .. Len(jobs) - 1 : Tail(jobs)[i] = jobs[i + 1]
           /\ Len(jobs) = 1 => Tail(jobs) = <<>>
<1>1. \A s \in Seq(Jobs) : Len(s) = 0 => s = <<>>
  OBVIOUS
<1>2. jobs \in Seq(Jobs) /\ Len(jobs) \in Nat \ {0}
  BY DEF TypeOK
<1>3. Tail(jobs) \in Seq(Jobs) /\ Len(Tail(jobs)) = Len(jobs) - 1
  BY <1>2
<1>4. Head(jobs) = jobs[1] /\ jobs[1] \in Jobs
  BY <1>2
<1>5. \A i \in 1 .. Len(jobs) - 1 : Tail(jobs)[i] = jobs[i + 1]
  BY <1>2
<1> QED BY <1>1, <1>2, <1>3, <1>4, <1>5

(***************************************************************************)
(* A call that moves on while it is active leaves the chain as it is.      *)
(***************************************************************************)
LEMMA ChainUnmoved ==
    ASSUME TypeOK, ChainInv, NEW t \in Txs, pc[t] \in Running, NEW phase \in Running,
           pc' = [pc EXCEPT ![t] = phase],
           UNCHANGED <<position, lastPosition, unlocked>>
    PROVE  ChainInv'
<1>1. \A u \in Txs : pc'[u] = "new" <=> pc[u] = "new"
  BY DEF TypeOK, Running
<1>2. \A u \in Txs : pc'[u] = "settled" <=> pc[u] = "settled"
  BY DEF TypeOK, Running
<1>3. \A u \in Txs : pc'[u] \in Running <=> pc[u] \in Running
  BY DEF TypeOK
<1> QED BY <1>1, <1>2, <1>3 DEF ChainInv

LEMMA RunResumeInv == ASSUME IInv, NEW t \in Txs, RunResume(t) PROVE IInv'
<1> USE DEF IInv
<1>1. /\ jobs[1].kind = "resume" /\ jobs[1].who = t
      /\ 1 \in 1 .. Len(jobs)
  BY HeadJob DEF RunResume, Resume
<1>2. /\ Len(jobs) = 1 /\ active = None
      /\ pc[t] = "waiting" /\ position[t] - 1 \in unlocked
  BY <1>1 DEF JobsInv
<1>3. jobs' \in Seq(Jobs) /\ Len(jobs') = 1 /\ jobs'[1] = BeginJob(t)
  <2>1. jobs # <<>> /\ jobs' = Append(Tail(jobs), BeginJob(t))
    BY DEF RunResume
  <2>2. Tail(jobs) \in Seq(Jobs) /\ Len(Tail(jobs)) = 0
    BY <2>1, <1>2, HeadJob
  <2>3. BeginJob(t) \in Jobs
    BY DEF BeginJob, Jobs
  <2>4. \A s \in Seq(Jobs), j \in Jobs :
          /\ Append(s, j) \in Seq(Jobs) /\ Len(Append(s, j)) = Len(s) + 1
          /\ Append(s, j)[Len(s) + 1] = j
    OBVIOUS
  <2> QED BY <2>1, <2>2, <2>3, <2>4
<1>4. TypeOK'
  BY <1>3 DEF TypeOK, RunResume, Phases
<1>5. ChainInv'
  BY <1>2 DEF TypeOK, ChainInv, RunResume, Phases, Running
<1>6. dbOwner = None
  BY <1>2, NoneAssumption DEF ActiveInv
<1>7. ActiveInv'
  <2>1. \A u \in Txs : pc[u] \notin Running
    BY <1>2, NoneAssumption DEF ActiveInv
  <2> QED BY <2>1, <1>6 DEF TypeOK, ActiveInv, RunResume, Running
<1>8. JobsInv'
  <2>1. pc'[t] = "begin" /\ active' = t
    BY DEF RunResume, TypeOK
  <2>2. jobs'[1].kind = "begin" /\ jobs'[1].who = t
    BY <1>3 DEF BeginJob
  <2>3. \A i \in 1 .. Len(jobs') : i = 1
    BY <1>3
  <2> QED BY <1>3, <2>1, <2>2, <2>3 DEF JobsInv
<1>9. DeferredInv'
  BY <1>2, NoneAssumption DEF DeferredInv, RunResume, TypeOK
<1>10. NoForeignStatement'
  BY DEF NoForeignStatement, RunResume
<1> QED BY <1>4, <1>5, <1>7, <1>8, <1>9, <1>10

LEMMA RunQueryInv == ASSUME IInv, NEW q \in Queries, RunQuery(q) PROVE IInv'
<1> USE DEF IInv
<1>1. jobs[1] = QueryJob(q) /\ Len(jobs) \in Nat \ {0}
  BY HeadJob DEF RunQuery
<1>2. active = None
  BY <1>1 DEF JobsInv, QueryJob
<1>3. dbOwner = None
  BY <1>2, NoneAssumption DEF ActiveInv
<1>4. jobs' = Tail(jobs) /\ query' = [query EXCEPT ![q] = "done"]
      /\ ranInside' = ranInside
  BY <1>3 DEF RunQuery, Execute
<1>5. TypeOK'
  BY <1>4, HeadJob DEF TypeOK, RunQuery
<1>6. JobsInv'
  <2>1. SUFFICES ASSUME NEW i \in 1 .. Len(jobs')
                 PROVE  /\ jobs'[i] = jobs[i + 1]
                        /\ i + 1 \in 1 .. Len(jobs)
                        /\ i = Len(jobs') <=> i + 1 = Len(jobs)
    BY <2>1 DEF JobsInv, RunQuery
  <2> QED BY <1>1, <1>4, HeadJob DEF RunQuery
<1>7. DeferredInv'
  BY <1>2, NoneAssumption DEF DeferredInv, RunQuery, TypeOK
<1> QED BY <1>4, <1>5, <1>6, <1>7
        DEF ChainInv, ActiveInv, NoForeignStatement, RunQuery

LEMMA RunBeginInv == ASSUME IInv, NEW t \in Txs, RunBegin(t) PROVE IInv'
<1> USE DEF IInv
<1>1. /\ jobs[1].kind = "begin" /\ jobs[1].who = t
      /\ 1 \in 1 .. Len(jobs)
  BY HeadJob DEF RunBegin, BeginJob
<1>2. Len(jobs) = 1 /\ active = t /\ pc[t] = "begin"
  BY <1>1 DEF JobsInv
<1>3. jobs' = <<>>
  BY <1>2, HeadJob DEF RunBegin
<1>4. dbOwner = None
  BY <1>2 DEF ActiveInv
<1>5. \/ pc' = [pc EXCEPT ![t] = "body"] /\ dbOwner' = t
      \/ pc' = [pc EXCEPT ![t] = "ended"] /\ dbOwner' = dbOwner
  BY DEF RunBegin
<1>6. TypeOK'
  <2>1. jobs' \in Seq(Jobs)
    BY HeadJob DEF RunBegin
  <2>2. pc' \in [Txs -> Phases] /\ dbOwner' \in Txs \cup {None}
    BY <1>5 DEF TypeOK, Phases
  <2> QED BY <2>1, <2>2 DEF TypeOK, RunBegin
<1>7. ChainInv'
  BY <1>2, <1>5, ChainUnmoved DEF RunBegin, Running
<1>8. ActiveInv'
  BY <1>2, <1>4, <1>5 DEF TypeOK, ActiveInv, RunBegin, Running
<1>9. JobsInv'
  BY <1>3 DEF JobsInv
<1> QED BY <1>6, <1>7, <1>8, <1>9 DEF DeferredInv, NoForeignStatement, RunBegin

LEMMA EndInv == ASSUME IInv, NEW t \in Txs, End(t) PROVE IInv'
<1> USE DEF IInv
<1>1. active = t
  BY DEF End, ActiveInv, Running
<1>2. TypeOK'
  BY DEF TypeOK, End, Phases
<1>3. ChainInv'
  BY ChainUnmoved DEF End, Running
<1>4. ActiveInv'
  BY DEF TypeOK, ActiveInv, End, Running
<1>5. JobsInv'
  <2>1. \A i \in 1 .. Len(jobs) : jobs[i].kind \notin {"query", "resume", "begin"}
    BY <1>1, NoneAssumption DEF JobsInv, End
  <2> QED BY <2>1 DEF JobsInv, End
<1> QED BY <1>2, <1>3, <1>4, <1>5 DEF DeferredInv, NoForeignStatement, End

(***************************************************************************)
(* Releasing finds an empty microtask queue, so what it leaves there is    *)
(* its deferred queries and then at most the next call.                    *)
(***************************************************************************)
LEMMA ReleaseInv == ASSUME IInv, NEW t \in Txs, Release(t) PROVE IInv'
<1> USE DEF IInv
<1>1. active = t /\ active' = None /\ pc[t] = "ended"
  BY DEF Release, ActiveInv, Running
<1>2. dbOwner = None
  BY <1>1 DEF ActiveInv
<1>3. jobs = <<>>
  <2>1. \A i \in 1 .. Len(jobs) : jobs[i] \in Jobs
    BY DEF TypeOK
  <2>2. \A i \in 1 .. Len(jobs) : jobs[i].kind \notin {"query", "resume", "begin"}
    BY <1>1, NoneAssumption DEF JobsInv
  <2>3. Len(jobs) = 0
    <3>1. Len(jobs) \in Nat
      BY DEF TypeOK
    <3>2. \A j \in Jobs : j.kind \in {"query", "resume", "begin"}
      BY DEF Jobs
    <3> QED BY <2>1, <2>2, <3>1, <3>2
  <2>4. \A s \in Seq(Jobs) : Len(s) = 0 => s = <<>>
    OBVIOUS
  <2> QED BY <2>3, <2>4 DEF TypeOK
<1>4. /\ DeferredJobs(t) \in Seq(Jobs)
      /\ Len(DeferredJobs(t)) = Len(deferred[t])
      /\ \A i \in 1 .. Len(deferred[t]) : DeferredJobs(t)[i].kind = "query"
  <2>1. deferred[t] \in Seq(Queries)
    BY DEF TypeOK
  <2>2. \A i \in 1 .. Len(deferred[t]) :
          QueryJob(deferred[t][i]) \in Jobs /\ QueryJob(deferred[t][i]).kind = "query"
    BY <2>1 DEF QueryJob, Jobs
  <2>3. Len(deferred[t]) \in Nat
    BY <2>1
  <2>4. /\ DeferredJobs(t) \in [1 .. Len(deferred[t]) -> Jobs]
        /\ \A i \in 1 .. Len(deferred[t]) : DeferredJobs(t)[i] = QueryJob(deferred[t][i])
    BY <2>2 DEF DeferredJobs
  <2>5. DeferredJobs(t) \in Seq(Jobs) /\ Len(DeferredJobs(t)) = Len(deferred[t])
    <3>1. \A k \in Nat : \A f \in [1 .. k -> Jobs] : f \in Seq(Jobs) /\ Len(f) = k
      OBVIOUS
    <3> QED BY <2>3, <2>4, <3>1
  <2> QED BY <2>2, <2>4, <2>5
<1>5. PICK n \in 0 .. 1, u \in Txs :
        /\ jobs' \in Seq(Jobs)
        /\ Len(jobs') = Len(deferred[t]) + n
        /\ \A i \in 1 .. Len(deferred[t]) : jobs'[i].kind = "query"
        /\ n = 1 => /\ jobs'[Len(jobs')] = Resume(u)
                    /\ u \in Successors(t)
  <2> DEFINE S == Successors(t)
             front == DeferredJobs(t)
  <2>1. jobs' = (<<>> \o front) \o ResumeJobs(S)
    BY <1>3 DEF Release
  <2>2. <<>> \o front = front
    BY <1>4, ConcatEmptySeq
  <2>3. CASE S = {}
    <3>1. jobs' = front
      BY <2>1, <2>2, <2>3, <1>4, ConcatEmptySeq DEF ResumeJobs
    <3>2. deferred[t] \in Seq(Queries)
      BY DEF TypeOK
    <3> QED BY <3>1, <3>2, <1>4
  <2>4. CASE S # {}
    <3>1. PICK u \in S : ResumeJobs(S) = <<Resume(u)>>
      BY <2>4 DEF ResumeJobs
    <3>2. u \in Txs /\ Resume(u) \in Jobs
      BY <3>1 DEF Successors, Resume, Jobs
    <3>3. jobs' = front \o <<Resume(u)>>
      BY <2>1, <2>2, <3>1
    <3>4. /\ jobs' \in Seq(Jobs)
          /\ Len(jobs') = Len(front) + 1
          /\ jobs'[Len(front) + 1] = Resume(u)
          /\ \A i \in 1 .. Len(front) : jobs'[i] = front[i]
      BY <3>2, <3>3, <1>4
    <3>5. deferred[t] \in Seq(Queries)
      BY DEF TypeOK
    <3> QED BY <3>1, <3>2, <3>4, <3>5, <1>4
  <2> QED BY <2>3, <2>4
<1>6. /\ unlocked' = unlocked \cup {position[t]} /\ position' = position
      /\ lastPosition' = lastPosition /\ pc' = [pc EXCEPT ![t] = "settled"]
  BY DEF Release, Resolved
<1>7. /\ position[t] \in 1 .. lastPosition /\ position[t] - 1 \in unlocked
      /\ lastPosition \in Nat
  BY <1>1 DEF TypeOK, ChainInv, Running
<1>8. TypeOK'
  <2>1. pc' \in [Txs -> Phases] /\ unlocked' \subseteq 0 .. lastPosition'
    <3>1. pc' \in [Txs -> Phases]
      BY <1>6 DEF TypeOK, Phases
    <3>2. position[t] \in 0 .. lastPosition
      BY <1>7
    <3> QED BY <1>6, <3>1, <3>2 DEF TypeOK
  <2>2. deferred' \in [Txs -> Seq(Queries)]
    <3>1. \A S : <<>> \in Seq(S)
      OBVIOUS
    <3> QED BY <3>1 DEF TypeOK, Release
  <2>3. query' \in [Queries -> {"new", "deferred", "queued", "done"}]
    BY DEF TypeOK, Release
  <2> QED BY <1>1, <1>5, <2>1, <2>2, <2>3 DEF TypeOK, Release
<1>9. ChainInv'
  <2>1. \A v \in Txs : pc'[v] = "settled" <=> pc[v] = "settled" \/ v = t
    BY <1>6 DEF TypeOK
  <2>2. \A v \in Txs : pc'[v] = "new" <=> pc[v] = "new"
    BY <1>1, <1>6 DEF TypeOK
  <2>3. \A v \in Txs : pc'[v] \in Running => pc[v] \in Running
    BY <1>6 DEF TypeOK, Running
  <2>4. \A v \in Txs : pc'[v] \in Running \cup {"settled"} => position'[v] - 1 \in unlocked'
    BY <1>6, <1>7, <2>1, <2>3 DEF ChainInv
  <2>5. \A p \in unlocked' \ {0} : \E v \in Txs : position'[v] = p /\ pc'[v] = "settled"
    BY <1>6, <2>1 DEF ChainInv
  <2>6. \A p \in unlocked' : \A m \in 0 .. p : m \in unlocked'
    <3>1. SUFFICES ASSUME NEW m \in 0 .. position[t] PROVE m \in unlocked'
      BY <3>1, <1>6 DEF ChainInv
    <3>2. CASE m = position[t]
      BY <3>2, <1>6
    <3>3. CASE m # position[t]
      <4>1. m \in 0 .. position[t] - 1
        BY <3>3, <1>7
      <4> QED BY <4>1, <1>6, <1>7 DEF ChainInv
    <3> QED BY <3>2, <3>3
  <2> QED BY <1>6, <2>2, <2>4, <2>5, <2>6 DEF ChainInv
<1>10. ActiveInv'
  BY <1>1, <1>2, <1>6, NoneAssumption DEF TypeOK, ActiveInv, Release, Running
<1>11. JobsInv'
  <2>1. SUFFICES ASSUME NEW i \in 1 .. Len(jobs')
                 PROVE  \/ jobs'[i].kind = "query"
                        \/ /\ jobs'[i].kind = "resume" /\ i = Len(jobs')
                           /\ pc'[jobs'[i].who] = "waiting"
                           /\ position'[jobs'[i].who] - 1 \in unlocked'
    BY <1>1, <2>1 DEF JobsInv
  <2>2. Len(deferred[t]) \in Nat
    BY DEF TypeOK
  <2>3. CASE i \in 1 .. Len(deferred[t])
    BY <1>5, <2>3
  <2>4. CASE i \notin 1 .. Len(deferred[t])
    <3>1. n = 1 /\ i = Len(jobs')
      BY <1>5, <2>2, <2>4
    <3>2. jobs'[i].kind = "resume" /\ jobs'[i].who = u
      BY <1>5, <3>1 DEF Resume
    <3>3. pc[u] = "waiting" /\ position[u] = position[t] + 1
      BY <1>5, <3>1 DEF Successors
    <3>4. pc'[u] = "waiting" /\ position'[u] - 1 = position[t]
      BY <1>1, <1>6, <1>7, <3>3 DEF TypeOK
    <3> QED BY <1>6, <3>1, <3>2, <3>4
  <2> QED BY <2>3, <2>4
<1>12. DeferredInv'
  <2>1. SUFFICES ASSUME NEW v \in Txs PROVE Len(deferred'[v]) = 0
    BY <2>1 DEF DeferredInv
  <2>2. CASE v = t
    BY <2>2 DEF Release, TypeOK
  <2>3. CASE v # t
    <3>1. deferred'[v] = deferred[v] /\ deferred[v] \in Seq(Queries)
      BY <2>3 DEF Release, TypeOK
    <3>2. \A i \in 1 .. Len(deferred[v]) : FALSE
      BY <1>1, <2>3 DEF DeferredInv
    <3> QED BY <3>1, <3>2
  <2> QED BY <2>2, <2>3
<1>13. NoForeignStatement'
  BY DEF NoForeignStatement, Release
<1> QED BY <1>8, <1>9, <1>10, <1>11, <1>12, <1>13

LEMMA StutterInv == ASSUME IInv, UNCHANGED vars PROVE IInv'
BY DEF vars, IInv, TypeOK, ChainInv, ActiveInv, JobsInv, DeferredInv, NoForeignStatement

(***************************************************************************)
(* Every reachable state satisfies the inductive invariant.                *)
(***************************************************************************)
THEOREM Invariance == Spec => []IInv
<1>1. IInv /\ [Next]_vars => IInv'
  <2>1. SUFFICES ASSUME IInv, [Next]_vars PROVE IInv'
    OBVIOUS
  <2>2. CASE UNCHANGED vars
    BY <2>1, <2>2, StutterInv
  <2>3. ASSUME NEW t \in Txs, Acquire(t) PROVE IInv'
    BY <2>1, <2>3, AcquireInv
  <2>4. ASSUME NEW t \in Txs, RunResume(t) PROVE IInv'
    BY <2>1, <2>4, RunResumeInv
  <2>5. ASSUME NEW t \in Txs, RunBegin(t) PROVE IInv'
    BY <2>1, <2>5, RunBeginInv
  <2>6. ASSUME NEW t \in Txs, End(t) PROVE IInv'
    BY <2>1, <2>6, EndInv
  <2>7. ASSUME NEW t \in Txs, Release(t) PROVE IInv'
    BY <2>1, <2>7, ReleaseInv
  <2>8. ASSUME NEW q \in Queries, Query(q) PROVE IInv'
    BY <2>1, <2>8, QueryInv
  <2>9. ASSUME NEW q \in Queries, RunQuery(q) PROVE IInv'
    BY <2>1, <2>9, RunQueryInv
  <2>10. ASSUME NEW t \in Txs, NEW q \in Queries, CallbackQueriesParent(t, q)
         PROVE  IInv'
    BY <2>1, <2>10, CallbackQueriesParentInv
  <2>11. CASE Finished
    BY <2>2, <2>11 DEF Finished
  <2> QED BY <2>1, <2>2, <2>3, <2>4, <2>5, <2>6, <2>7, <2>8, <2>9, <2>10, <2>11
          DEF Next, TxStep
<1> QED BY InitInv, <1>1, PTL DEF Spec

(***************************************************************************)
(* The variables of the queue hold what the code can store in them.        *)
(***************************************************************************)
THEOREM TypeCorrect == Spec => []TypeOK
BY Invariance, PTL DEF IInv

(***************************************************************************)
(* However many transactions and queries share the connection, no ordinary *)
(* query runs inside somebody's transaction.                               *)
(***************************************************************************)
THEOREM NoForeignStatementEver == Spec => []NoForeignStatement
BY Invariance, PTL DEF IInv

(***************************************************************************)
(* At most one call holds the handle, and it is the one whose transaction  *)
(* is open.                                                                *)
(***************************************************************************)
THEOREM OneAtATime == Spec => []OneTransactionAtATime
<1>1. IInv => OneTransactionAtATime
  BY DEF IInv, ActiveInv, OneTransactionAtATime
<1> QED BY <1>1, Invariance, PTL

(***************************************************************************)
(* Transactions are served in the order in which they were asked for.      *)
(***************************************************************************)
THEOREM ServedInOrder == Spec => []RunsInCallOrder
<1>1. IInv => RunsInCallOrder
  <2>1. SUFFICES ASSUME IInv, NEW t \in Txs, NEW u \in Txs, pc[t] \in Running,
                        0 < position[u], position[u] < position[t]
                 PROVE  pc[u] = "settled"
    BY <2>1 DEF RunsInCallOrder
  <2>2. position[t] \in Nat /\ position[u] \in Nat /\ position[t] - 1 \in unlocked
    BY <2>1 DEF IInv, TypeOK, ChainInv
  <2>3. position[u] \in 0 .. position[t] - 1
    BY <2>1, <2>2
  <2>4. position[u] \in unlocked /\ position[u] # 0
    BY <2>1, <2>2, <2>3 DEF IInv, ChainInv
  <2> QED BY <2>1, <2>4, UnlockedMeansSettled DEF IInv
<1> QED BY <1>1, Invariance, PTL

(***************************************************************************)
(* The queue implements a connection that serves one transaction or one    *)
(* ordinary query at a time: BEGIN opens, COMMIT, ROLLBACK and a refused   *)
(* BEGIN close, and a query that executes runs while nothing is open.      *)
(***************************************************************************)
Over == {t \in Txs : pc[t] \in {"ended", "settled"}}
Ran == {q \in Queries : query[q] = "done"}

LEMMA ExecuteRuns ==
    ASSUME IInv, NEW q \in Queries, Execute(q), dbOwner = None, query[q] # "done",
           dbOwner' = dbOwner, Over' = Over
    PROVE  Serial!Run(q)
<1>1. Ran' = Ran \cup {q} /\ q \notin Ran
  BY DEF Execute, IInv, TypeOK, Ran
<1> QED BY <1>1 DEF Serial!Run, Over, Ran

LEMMA DispatchRefines ==
    ASSUME IInv, NEW q \in Queries, query[q] = "new", Dispatch(q),
           dbOwner' = dbOwner, Over' = Over
    PROVE  Serial!Run(q) \/ UNCHANGED Serial!svars
<1>1. CASE active = None
  <2>1. dbOwner = None
    BY <1>1, NoneAssumption DEF IInv, ActiveInv
  <2> QED BY <1>1, <2>1, ExecuteRuns DEF Dispatch
<1>2. CASE active # None
  <2>1. query' = [query EXCEPT ![q] = "deferred"]
    BY <1>2 DEF Dispatch
  <2>2. Ran' = Ran
    BY <2>1 DEF IInv, TypeOK, Ran
  <2> QED BY <2>2 DEF Serial!svars, Over, Ran
<1> QED BY <1>1, <1>2

THEOREM Refinement == Spec => ImplementsSerialConnection
<1>1. Init => Serial!Init
  BY DEF Init, Serial!Init
<1>2. IInv /\ [Next]_vars => [Serial!Next]_(Serial!svars)
  <2>1. SUFFICES ASSUME IInv, [Next]_vars
                 PROVE  Serial!Next \/ UNCHANGED Serial!svars
    OBVIOUS
  <2>2. CASE UNCHANGED vars
    BY <2>2 DEF vars, Serial!svars
  <2>3. ASSUME NEW t \in Txs, Acquire(t) PROVE UNCHANGED Serial!svars
    <3>1. Over' = Over
      BY <2>1, <2>3 DEF Acquire, IInv, TypeOK, Over
    <3> QED BY <2>3, <3>1 DEF Acquire, Serial!svars, Over
  <2>4. ASSUME NEW t \in Txs, RunResume(t) PROVE UNCHANGED Serial!svars
    <3>1. jobs[1].kind = "resume" /\ jobs[1].who = t /\ 1 \in 1 .. Len(jobs)
      BY <2>1, <2>4, HeadJob DEF RunResume, Resume, IInv
    <3>2. pc[t] = "waiting"
      BY <2>1, <3>1 DEF IInv, JobsInv
    <3>3. Over' = Over
      BY <2>1, <2>4, <3>2 DEF RunResume, IInv, TypeOK, Over
    <3> QED BY <2>4, <3>3 DEF RunResume, Serial!svars, Over
  <2>5. ASSUME NEW t \in Txs, RunBegin(t) PROVE Serial!Open(t) \/ Serial!Close(t)
    <3>1. jobs[1].kind = "begin" /\ jobs[1].who = t /\ 1 \in 1 .. Len(jobs)
      BY <2>1, <2>5, HeadJob DEF RunBegin, BeginJob, IInv
    <3>2. pc[t] = "begin" /\ active = t
      BY <2>1, <3>1 DEF IInv, JobsInv
    <3>3. dbOwner = None /\ t \notin Over
      BY <2>1, <3>2 DEF IInv, ActiveInv, Over
    <3>4. CASE dbOwner' = t /\ pc' = [pc EXCEPT ![t] = "body"]
      <4>1. Over' = Over
        BY <2>1, <3>2, <3>4 DEF IInv, TypeOK, Over
      <4> QED BY <2>5, <3>3, <3>4, <4>1 DEF RunBegin, Serial!Open, Over
    <3>5. CASE dbOwner' = dbOwner /\ pc' = [pc EXCEPT ![t] = "ended"]
      <4>1. Over' = Over \cup {t}
        BY <2>1, <3>5 DEF IInv, TypeOK, Over
      <4> QED BY <2>5, <3>3, <3>5, <4>1 DEF RunBegin, Serial!Close, Over
    <3> QED BY <2>5, <3>4, <3>5 DEF RunBegin
  <2>6. ASSUME NEW t \in Txs, End(t) PROVE Serial!Close(t)
    <3>1. active = t /\ dbOwner \in {None, t} /\ t \notin Over
      BY <2>1, <2>6 DEF End, IInv, ActiveInv, Running, Over
    <3>2. Over' = Over \cup {t}
      BY <2>1, <2>6 DEF End, IInv, TypeOK, Over
    <3> QED BY <2>6, <3>1, <3>2 DEF End, Serial!Close, Over
  <2>7. ASSUME NEW t \in Txs, Release(t) PROVE UNCHANGED Serial!svars
    <3>1. Over' = Over
      BY <2>1, <2>7 DEF Release, IInv, TypeOK, Over
    <3>2. \A q \in Queries : query'[q] = "done" <=> query[q] = "done"
      BY <2>1, <2>7 DEF Release, IInv, DeferredInv
    <3> QED BY <2>7, <3>1, <3>2 DEF Release, Serial!svars, Over
  <2>8. ASSUME NEW q \in Queries, Query(q)
        PROVE  Serial!Run(q) \/ UNCHANGED Serial!svars
    BY <2>1, <2>8, DispatchRefines DEF Query, Over
  <2>9. ASSUME NEW q \in Queries, RunQuery(q)
        PROVE  Serial!Run(q) \/ UNCHANGED Serial!svars
    <3>1. jobs[1] = QueryJob(q) /\ Len(jobs) \in Nat \ {0}
      BY <2>1, <2>9, HeadJob DEF RunQuery, IInv
    <3>2. dbOwner = None
      BY <2>1, <3>1, NoneAssumption DEF IInv, JobsInv, ActiveInv, QueryJob
    <3>3. CASE query[q] # "done"
      BY <2>1, <2>9, <3>2, <3>3, ExecuteRuns DEF RunQuery, Over
    <3>4. CASE query[q] = "done"
      <4>1. Ran' = Ran
        BY <2>1, <2>9, <3>4 DEF RunQuery, Execute, IInv, TypeOK, Ran
      <4> QED BY <2>9, <4>1 DEF RunQuery, Serial!svars, Ran
    <3> QED BY <3>3, <3>4
  <2>10. ASSUME NEW t \in Txs, NEW q \in Queries, CallbackQueriesParent(t, q)
         PROVE  Serial!Run(q) \/ UNCHANGED Serial!svars
    BY <2>1, <2>10, DispatchRefines DEF CallbackQueriesParent, Over
  <2>11. CASE Finished
    BY <2>2, <2>11 DEF Finished
  <2> QED BY <2>1, <2>2, <2>3, <2>4, <2>5, <2>6, <2>7, <2>8, <2>9, <2>10, <2>11
          DEF Next, TxStep, Serial!Next
<1> QED BY <1>1, <1>2, Invariance, PTL DEF Spec, ImplementsSerialConnection, Serial!Spec

=============================================================================
