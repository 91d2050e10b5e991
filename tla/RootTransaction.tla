-------------------------- MODULE RootTransaction --------------------------
(***************************************************************************)
(* The life of dbh.transaction(callback, { maxRetries }) on a top-level    *)
(* handle: lib/transactions.js (runTransaction, executeAttempt,            *)
(* runRootTransaction, isRetryableTransactionError) over what a dialect    *)
(* contributes: a lease, BEGIN, COMMIT, ROLLBACK, cleanup and release.     *)
(* SQLite is the pool of one connection; how it queues its transactions is *)
(* the subject of module SqliteQueue.                                      *)
(*                                                                         *)
(* Every call runs as its own asynchronous task, so calls interleave at    *)
(* each await; a step below is one await-to-await segment together with    *)
(* the database statement it waits for.  The pool and the server are       *)
(* external: a session is what one pooled connection holds on the server.  *)
(* What the callback does inside is the subject of module Savepoints; here *)
(* it fulfils or rejects.                                                  *)
(***************************************************************************)
EXTENDS Naturals, SequencesExt

CONSTANTS
    Calls,       \* the transaction() calls made by the program
    Conns,       \* the slots of the connection pool
    NoConn,      \* "no lease held"
    MaxRetries,  \* the maxRetries option of every call
    MaxFaults    \* bound: how many statements, leases or releases may fail

ASSUME RetriesAssumption == MaxRetries \in Nat
ASSUME FaultsAssumption  == MaxFaults \in Nat
ASSUME NoConnAssumption  == NoConn \notin Conns

(***************************************************************************)
(* Errors, as far as isRetryableTransactionError tells them apart:         *)
(* "conflict" has a recognised code somewhere along its cause chain,       *)
(* "fatal" has not.  "none" is an error variable that was never assigned.  *)
(***************************************************************************)
Errors == {"conflict", "fatal"}
MaybeError == Errors \cup {"none"}

Attempt == Calls \X (0 .. MaxRetries)

Phases == {"idle", "acquire", "begin", "callback", "commit", "rollback",
           "cleanup", "release", "fulfilled", "rejected"}

Settled == {"fulfilled", "rejected"}

VARIABLES
    pc,            \* where each call's task is suspended
    attempt,       \* the argument of executeAttempt
    lease,         \* the leased connection
    began,         \* runRootTransaction's flags ...
    committed,
    primaryError,  \* ... and its error variables
    cleanupError,
    outcome,       \* what the promise rejected with, and its transactionCommitted mark
    waiting,       \* calls queued at the pool for a connection
    session,       \* per connection: the server-side transaction state
    durable,       \* attempts whose COMMIT took effect on the server
    inDoubt,       \* attempts whose COMMIT took effect but whose answer was lost
    faults         \* failures injected so far

flags   == <<began, committed>>
errors  == <<primaryError, cleanupError>>
server  == <<session, durable, inDoubt>>
vars    == <<pc, attempt, lease, flags, errors, outcome, waiting, server, faults>>

Idle == [mode |-> "idle", owner |-> <<>>]
Dead == [mode |-> "dead", owner |-> <<>>]
Open(a) == [mode |-> "open", owner |-> a]

NoOutcome == [error |-> "none", transactionCommitted |-> FALSE]

Me(t) == <<t, attempt[t]>>

Init ==
    /\ pc = [t \in Calls |-> "idle"]
    /\ attempt = [t \in Calls |-> 0]
    /\ lease = [t \in Calls |-> NoConn]
    /\ began = [t \in Calls |-> FALSE]
    /\ committed = [t \in Calls |-> FALSE]
    /\ primaryError = [t \in Calls |-> "none"]
    /\ cleanupError = [t \in Calls |-> "none"]
    /\ outcome = [t \in Calls |-> NoOutcome]
    /\ waiting = <<>>
    /\ session = [c \in Conns |-> Idle]
    /\ durable = {}
    /\ inDoubt = {}
    /\ faults = 0

MayFail == faults < MaxFaults
Fail == MayFail /\ faults' = faults + 1
Goto(t, phase) == pc' = [pc EXCEPT ![t] = phase]

\* Mutant: the transactionCommitted mark is not consulted.
IsRetryableIgnoringCommit(err) == err.error = "conflict"

(***************************************************************************)
(* isRetryableTransactionError(err): an error marked transactionCommitted  *)
(* is never retryable, whatever its code.                                  *)
(***************************************************************************)
IsRetryable(err) == ~err.transactionCommitted /\ err.error = "conflict"

(***************************************************************************)
(* runTransaction: the root attempt starts by asking the pool for a        *)
(* connection; a new attempt starts with fresh local variables.            *)
(***************************************************************************)
Start(t) ==
    /\ pc[t] = "idle"
    /\ Goto(t, "acquire")
    /\ waiting' = Append(waiting, t)
    /\ UNCHANGED <<attempt, lease, flags, errors, outcome, server, faults>>

(***************************************************************************)
(* acquireTransactionConnection: the pool serves its waiters in order and  *)
(* never hands one connection to two of them.                              *)
(***************************************************************************)
Acquire(t) ==
    /\ pc[t] = "acquire" /\ waiting # <<>> /\ Head(waiting) = t
    /\ \E c \in Conns :
         /\ \A u \in Calls : lease[u] # c
         /\ lease' = [lease EXCEPT ![t] = c]
    /\ waiting' = Tail(waiting)
    /\ Goto(t, "begin")
    /\ UNCHANGED <<attempt, flags, errors, outcome, server, faults>>

(***************************************************************************)
(* The pool's own wait limit expires.  The error leaves runRootTransaction *)
(* before there is a lease to release; it is no transaction conflict.      *)
(***************************************************************************)
AcquireTimesOut(t) ==
    /\ pc[t] = "acquire" /\ Fail
    /\ \E i \in 1 .. Len(waiting) :
         waiting[i] = t /\ waiting' = RemoveAt(waiting, i)
    /\ outcome' = [outcome EXCEPT ![t] =
                     [error |-> "fatal", transactionCommitted |-> FALSE]]
    /\ Goto(t, "rejected")
    /\ UNCHANGED <<attempt, lease, flags, errors, server>>

Begin(t) ==
    /\ pc[t] = "begin" /\ session[lease[t]].mode # "dead"
    /\ session' = [session EXCEPT ![lease[t]] = Open(Me(t))]
    /\ began' = [began EXCEPT ![t] = TRUE]
    /\ Goto(t, "callback")
    /\ UNCHANGED <<attempt, lease, committed, errors, outcome, waiting, durable,
                   inDoubt, faults>>

(***************************************************************************)
(* A statement of call t failed: the server may have kept the transaction  *)
(* open, ended it, or lost the connection.  Losing the connection is never *)
(* reported with a conflict code.                                          *)
(***************************************************************************)
FailedSession(t, err, after) ==
    /\ after \in {session[lease[t]], Idle, Dead}
    /\ after = Dead => err = "fatal"
    /\ session[lease[t]] = Dead => after = Dead
    /\ session' = [session EXCEPT ![lease[t]] = after]

BeginFails(t) ==
    /\ pc[t] = "begin" /\ Fail
    /\ \E err \in Errors, after \in {Idle, Dead} :
         /\ FailedSession(t, err, after)
         /\ primaryError' = [primaryError EXCEPT ![t] = err]
    /\ Goto(t, "cleanup")
    /\ UNCHANGED <<attempt, lease, flags, cleanupError, outcome,
                   waiting, durable, inDoubt>>

\* Mutant: `began = false` stands before COMMIT instead of after it.
CallbackFulfilsClearingBegan(t) ==
    /\ pc[t] = "callback"
    /\ began' = [began EXCEPT ![t] = FALSE]
    /\ Goto(t, "commit")
    /\ UNCHANGED <<attempt, lease, committed, errors, outcome, waiting, server, faults>>

CallbackFulfils(t) ==
    /\ pc[t] = "callback"
    /\ Goto(t, "commit")
    /\ UNCHANGED <<attempt, lease, flags, errors, outcome, waiting, server, faults>>

CallbackRejects(t) ==
    /\ pc[t] = "callback" /\ Fail
    /\ \E err \in Errors, after \in {session[lease[t]], Idle, Dead} :
         /\ FailedSession(t, err, after)
         /\ primaryError' = [primaryError EXCEPT ![t] = err]
    /\ Goto(t, "rollback")
    /\ UNCHANGED <<attempt, lease, flags, cleanupError, outcome,
                   waiting, durable, inDoubt>>

Commit(t) ==
    /\ pc[t] = "commit" /\ session[lease[t]].mode = "open"
    /\ session' = [session EXCEPT ![lease[t]] = Idle]
    /\ durable' = durable \cup {session[lease[t]].owner}
    /\ began' = [began EXCEPT ![t] = FALSE]
    /\ committed' = [committed EXCEPT ![t] = TRUE]
    /\ Goto(t, "cleanup")
    /\ UNCHANGED <<attempt, lease, errors, outcome, waiting, inDoubt, faults>>

(***************************************************************************)
(* COMMIT fails.  The transaction was refused, or the connection was lost  *)
(* before or after the server made it durable.                             *)
(***************************************************************************)
CommitFails(t) ==
    /\ pc[t] = "commit" /\ Fail
    /\ \E err \in Errors, after \in {session[lease[t]], Idle, Dead},
          tookEffect \in BOOLEAN :
         /\ FailedSession(t, err, after)
         /\ tookEffect => after = Dead /\ session[lease[t]].mode = "open"
         /\ durable' = IF tookEffect THEN durable \cup {session[lease[t]].owner}
                                     ELSE durable
         /\ inDoubt' = IF tookEffect THEN inDoubt \cup {session[lease[t]].owner}
                                     ELSE inDoubt
         /\ primaryError' = [primaryError EXCEPT ![t] = err]
    /\ Goto(t, IF began[t] THEN "rollback" ELSE "cleanup")
    /\ UNCHANGED <<attempt, lease, flags, cleanupError, outcome, waiting>>

\* Mutant: an error of ROLLBACK is thrown, past cleanup and release.
RollbackThrows(t) ==
    /\ pc[t] = "rollback"
    /\ session' = [session EXCEPT ![lease[t]] =
                     IF session[lease[t]].mode = "dead" THEN Dead ELSE Idle]
    /\ Goto(t, IF session[lease[t]].mode = "dead" THEN "rejected" ELSE "cleanup")
    /\ UNCHANGED <<attempt, lease, flags, errors, outcome, waiting, durable,
                   inDoubt, faults>>

(***************************************************************************)
(* The catch block's ROLLBACK, issued only while `began` still holds.  Its *)
(* own failure is attached to the primary error and changes nothing else.  *)
(* Assumed of the servers: one that is alive does not refuse ROLLBACK, so  *)
(* that it fails only with its connection, which then holds nothing.       *)
(***************************************************************************)
Rollback(t) ==
    /\ pc[t] = "rollback"
    /\ session' = [session EXCEPT ![lease[t]] =
                     IF session[lease[t]].mode = "dead" THEN Dead ELSE Idle]
    /\ Goto(t, "cleanup")
    /\ UNCHANGED <<attempt, lease, flags, errors, outcome, waiting, durable,
                   inDoubt, faults>>

Cleanup(t) ==
    /\ pc[t] = "cleanup"
    /\ \/ UNCHANGED <<cleanupError, faults>>
       \/ Fail /\ \E err \in Errors : cleanupError' = [cleanupError EXCEPT ![t] = err]
    /\ Goto(t, "release")
    /\ UNCHANGED <<attempt, lease, flags, primaryError, outcome,
                   waiting, server>>

\* Mutant: cleanup and release errors are rethrown without the mark.
ThrownErrorUnmarked(t, relErr) ==
    [error |-> IF primaryError[t] # "none" THEN primaryError[t]
               ELSE IF cleanupError[t] # "none" THEN cleanupError[t] ELSE relErr,
     transactionCommitted |-> FALSE]

(***************************************************************************)
(* The error runRootTransaction throws: the primary one if there is one,   *)
(* else the cleanup error, else the release error, and only the last two   *)
(* carry the transactionCommitted mark.                                    *)
(***************************************************************************)
ThrownError(t, relErr) ==
    IF primaryError[t] # "none"
    THEN [error |-> primaryError[t], transactionCommitted |-> FALSE]
    ELSE [error |-> IF cleanupError[t] # "none" THEN cleanupError[t] ELSE relErr,
          transactionCommitted |-> committed[t]]

CanRetry(t) == attempt[t] < MaxRetries

(***************************************************************************)
(* lease.release() and, in the same segment, the end of runRootTransaction *)
(* and executeAttempt's decision: return, retry with fresh variables, or   *)
(* rethrow.  The pool replaces a connection that died; a live one goes     *)
(* back as it is.                                                          *)
(***************************************************************************)
Finish(t, thrown) ==
    IF thrown.error = "none"
    THEN /\ Goto(t, "fulfilled")
         /\ UNCHANGED <<attempt, flags, errors, outcome, waiting>>
    ELSE IF CanRetry(t) /\ IsRetryable(thrown)
    THEN /\ Goto(t, "acquire")
         /\ attempt' = [attempt EXCEPT ![t] = @ + 1]
         /\ waiting' = Append(waiting, t)
         /\ began' = [began EXCEPT ![t] = FALSE]
         /\ committed' = [committed EXCEPT ![t] = FALSE]
         /\ primaryError' = [primaryError EXCEPT ![t] = "none"]
         /\ cleanupError' = [cleanupError EXCEPT ![t] = "none"]
         /\ UNCHANGED outcome
    ELSE /\ Goto(t, "rejected")
         /\ outcome' = [outcome EXCEPT ![t] = thrown]
         /\ UNCHANGED <<attempt, flags, errors, waiting>>

ReplaceIfDead(s) == IF s = Dead THEN Idle ELSE s

Release(t) ==
    /\ pc[t] = "release"
    /\ lease' = [lease EXCEPT ![t] = NoConn]
    /\ session' = [session EXCEPT ![lease[t]] = ReplaceIfDead(@)]
    /\ \/ UNCHANGED faults /\ Finish(t, ThrownError(t, "none"))
       \/ Fail /\ \E err \in Errors : Finish(t, ThrownError(t, err))
    /\ UNCHANGED <<durable, inDoubt>>

Step(t) ==
    \/ Start(t)
    \/ Acquire(t)
    \/ AcquireTimesOut(t)
    \/ Begin(t)
    \/ BeginFails(t)
    \/ CallbackFulfils(t)
    \/ CallbackRejects(t)
    \/ Commit(t)
    \/ CommitFails(t)
    \/ Rollback(t)
    \/ Cleanup(t)
    \/ Release(t)

AllSettled == (\A t \in Calls : pc[t] \in Settled) /\ UNCHANGED vars

Next == (\E t \in Calls : Step(t)) \/ AllSettled

(***************************************************************************)
(* Each call's task keeps running: the event loop resumes every settled    *)
(* await, the server answers every statement, the callback settles, and    *)
(* the pool hands a freed connection to its first waiter.                  *)
(***************************************************************************)
Fairness == \A t \in Calls : WF_vars(Step(t))

Spec == Init /\ [][Next]_vars

FairSpec == Spec /\ Fairness

-----------------------------------------------------------------------------

Sessions == {Idle, Dead} \cup {Open(a) : a \in Attempt}

(***************************************************************************)
(* The variables hold what the code can store in them.                     *)
(***************************************************************************)
TypeOK ==
    /\ pc \in [Calls -> Phases]
    /\ attempt \in [Calls -> 0 .. MaxRetries]
    /\ lease \in [Calls -> Conns \cup {NoConn}]
    /\ began \in [Calls -> BOOLEAN]
    /\ committed \in [Calls -> BOOLEAN]
    /\ primaryError \in [Calls -> MaybeError]
    /\ cleanupError \in [Calls -> MaybeError]
    /\ outcome \in [Calls -> [error : MaybeError, transactionCommitted : BOOLEAN]]
    /\ waiting \in Seq(Calls)
    /\ session \in [Conns -> Sessions]
    /\ durable \subseteq Attempt
    /\ inDoubt \subseteq durable
    /\ faults \in 0 .. MaxFaults

AttemptsOf(t, S) == {a \in 0 .. MaxRetries : <<t, a>> \in S}

(***************************************************************************)
(* However BEGIN, COMMIT, cleanup and release fail and whatever is         *)
(* retried, at most one attempt of a call ever takes effect: executing the *)
(* callback again is never executing its writes twice.                     *)
(***************************************************************************)
AtMostOneDurableAttempt ==
    \A t \in Calls : \A a, b \in AttemptsOf(t, durable) : a = b

(***************************************************************************)
(* A caller can trust what the promise says.  Fulfilled, or rejected with  *)
(* transactionCommitted: the writes are durable.  Rejected without it:     *)
(* nothing of any attempt is, unless the answer to COMMIT itself was lost. *)
(***************************************************************************)
OutcomeTellsTheTruth ==
    \A t \in Calls :
        /\ pc[t] = "fulfilled" => Me(t) \in durable
        /\ pc[t] = "rejected" =>
             IF outcome[t].transactionCommitted
             THEN Me(t) \in durable
             ELSE AttemptsOf(t, durable) = AttemptsOf(t, inDoubt)

(***************************************************************************)
(* A connection that goes back to the pool carries no open transaction, on *)
(* any error path, so the next lease cannot inherit and commit the work of *)
(* another call; and while a call works in a transaction it is its own.    *)
(***************************************************************************)
PoolHoldsNoOpenTransaction ==
    \A c \in Conns : session[c].mode = "open" =>
        \E t \in Calls : lease[t] = c /\ session[c].owner = Me(t)

(***************************************************************************)
(* Two calls never share a connection, and a settled call keeps none: a    *)
(* lease survives neither an error path nor a retry.                       *)
(***************************************************************************)
LeasesAreExclusive ==
    /\ \A t, u \in Calls : t # u /\ lease[t] # NoConn => lease[t] # lease[u]
    /\ \A t \in Calls : pc[t] \in Settled \cup {"idle", "acquire"} => lease[t] = NoConn

(***************************************************************************)
(* Every call settles, and the pool ends with every connection free, even  *)
(* when calls outnumber connections and attempts are retried.              *)
(***************************************************************************)
EveryCallSettles == \A t \in Calls : <>[](pc[t] \in Settled /\ lease[t] = NoConn)

(***************************************************************************)
(* What a caller is promised, free of leases, retries and error plumbing.  *)
(***************************************************************************)
Promise(t) ==
    CASE pc[t] = "fulfilled" -> "fulfilled"
      [] pc[t] = "rejected" /\ outcome[t].transactionCommitted -> "committedButFailed"
      [] pc[t] = "rejected" /\ ~outcome[t].transactionCommitted -> "rejected"
      [] OTHER -> "pending"

Atomic == INSTANCE AtomicCall
    WITH applied <- [t \in Calls |-> AttemptsOf(t, durable)],
         answerLost <- [t \in Calls |-> AttemptsOf(t, inDoubt) # {}],
         promise <- [t \in Calls |-> Promise(t)],
         Attempts <- 0 .. MaxRetries

(***************************************************************************)
(* Every behaviour of the retry and cleanup machinery is one of the        *)
(* abstract specification: an all-or-nothing, at-most-once call.           *)
(***************************************************************************)
ImplementsAtomicCall == Atomic!Spec

=============================================================================
