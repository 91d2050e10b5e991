------------------------- MODULE TransactionProofs -------------------------
(***************************************************************************)
(* Proofs about lib/transactions.js: first RootTransaction, then the       *)
(* nested transactions inside one root transaction (Savepoints).           *)
(*                                                                         *)
(* RootTransaction is proved about for any calls, pool size, number of     *)
(* retries and number of faults.  The inductive invariant has a part about *)
(* leases, a part about open server transactions, and a part that says for *)
(* each phase of a call which of its attempts are durable and what the     *)
(* local variables of runRootTransaction know about it.                    *)
(***************************************************************************)
EXTENDS RootTransaction, Savepoints, SequenceTheorems, TLAPS

Leased == {"begin", "callback", "commit", "rollback", "cleanup", "release"}

LeaseInv ==
    /\ \A t \in Calls : lease[t] # NoConn <=> pc[t] \in Leased
    /\ \A t, u \in Calls : t # u /\ lease[t] # NoConn => lease[t] # lease[u]

SessionInv ==
    /\ \A c \in Conns : session[c].mode = "open" =>
         \E t \in Calls : /\ lease[t] = c /\ session[c] = Open(Me(t))
                          /\ pc[t] \in {"callback", "commit", "rollback"}
    /\ \A t \in Calls : pc[t] \in {"callback", "commit"} =>
         began[t] /\ session[lease[t]] = Open(Me(t))

Durable(t) == AttemptsOf(t, durable)
InDoubt(t) == AttemptsOf(t, inDoubt)

\* Nothing of the call is durable and its attempt has met no error yet.
Untouched(t) ==
    /\ Durable(t) = {} /\ InDoubt(t) = {}
    /\ primaryError[t] = "none" /\ ~committed[t]

\* The attempt failed; if it took effect, COMMIT's answer was lost with the connection.
Failed(t) ==
    /\ Durable(t) \subseteq {attempt[t]} /\ InDoubt(t) = Durable(t)
    /\ primaryError[t] # "none" /\ ~committed[t]
    /\ Durable(t) # {} => primaryError[t] = "fatal"

\* COMMIT was answered.
Succeeded(t) ==
    /\ Durable(t) = {attempt[t]} /\ InDoubt(t) = {}
    /\ primaryError[t] = "none" /\ committed[t]

DurableInv(t) ==
    /\ pc[t] \in {"idle", "acquire", "begin", "callback", "commit"} =>
         Untouched(t) /\ cleanupError[t] = "none"
    /\ pc[t] = "rollback" => Failed(t)
    /\ pc[t] \in {"cleanup", "release"} => Failed(t) \/ Succeeded(t)
    /\ pc[t] = "fulfilled" => Durable(t) = {attempt[t]} /\ InDoubt(t) = {}
    /\ pc[t] = "rejected" =>
         IF outcome[t].transactionCommitted
         THEN Durable(t) = {attempt[t]} /\ InDoubt(t) = {}
         ELSE Durable(t) \subseteq {attempt[t]} /\ InDoubt(t) = Durable(t)

IInv ==
    /\ TypeOK
    /\ LeaseInv
    /\ SessionInv
    /\ \A t \in Calls : DurableInv(t)

LEMMA InitInv == Init => IInv
<1> SUFFICES ASSUME Init PROVE IInv
  OBVIOUS
<1>1. TypeOK
  BY RetriesAssumption, FaultsAssumption
     DEF Init, TypeOK, Phases, MaybeError, Errors, Sessions, NoOutcome
<1>2. LeaseInv
  BY DEF Init, LeaseInv, Leased
<1>3. SessionInv
  BY DEF Init, SessionInv, Idle
<1>4. \A t \in Calls : DurableInv(t)
  BY DEF Init, DurableInv, Untouched, Durable, InDoubt, AttemptsOf
<1> QED BY <1>1, <1>2, <1>3, <1>4 DEF IInv

(***************************************************************************)
(* A call that moves leaves what is known about every other call as it is. *)
(***************************************************************************)
LEMMA OthersUnmoved ==
    ASSUME IInv, NEW t \in Calls, NEW u \in Calls, u # t,
           pc'[u] = pc[u], attempt'[u] = attempt[u], committed'[u] = committed[u],
           primaryError'[u] = primaryError[u], cleanupError'[u] = cleanupError[u],
           outcome'[u] = outcome[u],
           Durable(u)' = Durable(u), InDoubt(u)' = InDoubt(u)
    PROVE  DurableInv(u)'
BY DEF IInv, DurableInv, Untouched, Failed, Succeeded

LEMMA StartInv == ASSUME IInv, NEW t \in Calls, Start(t) PROVE IInv'
<1> USE DEF IInv, Start, Goto, flags, errors, server
<1>1. TypeOK'
  BY DEF TypeOK, Phases
<1>2. LeaseInv'
  BY DEF TypeOK, LeaseInv, Leased
<1>3. SessionInv'
  BY ZenonT(60) DEF TypeOK, SessionInv, Me
<1>4. \A u \in Calls : DurableInv(u)'
  BY ZenonT(60) DEF TypeOK, DurableInv, Untouched, Failed, Succeeded, Durable, InDoubt, AttemptsOf
<1> QED BY <1>1, <1>2, <1>3, <1>4

LEMMA AcquireInv == ASSUME IInv, NEW t \in Calls, Acquire(t) PROVE IInv'
<1> USE DEF IInv, Acquire, Goto, flags, errors, server
<1>1. PICK c \in Conns : /\ \A u \in Calls : lease[u] # c
                         /\ lease' = [lease EXCEPT ![t] = c]
  OBVIOUS
<1>2. TypeOK'
  <2>1. waiting' \in Seq(Calls)
    BY DEF TypeOK
  <2> QED BY <1>1, <2>1 DEF TypeOK, Phases
<1>3. LeaseInv'
  BY <1>1, NoConnAssumption DEF TypeOK, LeaseInv, Leased
<1>4. SessionInv'
  <2>1. \A u \in Calls : u # t => pc'[u] = pc[u] /\ lease'[u] = lease[u] /\ Me(u)' = Me(u)
    BY <1>1 DEF TypeOK, Me
  <2>2. pc'[t] = "begin"
    BY DEF TypeOK
  <2> QED BY <2>1, <2>2 DEF SessionInv
<1>5. \A u \in Calls : DurableInv(u)'
  BY ZenonT(60) DEF TypeOK, DurableInv, Untouched, Failed, Succeeded, Durable, InDoubt, AttemptsOf
<1> QED BY <1>2, <1>3, <1>4, <1>5

LEMMA AcquireTimesOutInv == ASSUME IInv, NEW t \in Calls, AcquireTimesOut(t) PROVE IInv'
<1> USE DEF IInv, AcquireTimesOut, Goto, flags, errors, server
<1>1. TypeOK'
  <2>1. waiting' \in Seq(Calls)
    <3>1. PICK i \in 1 .. Len(waiting) : waiting' = RemoveAt(waiting, i)
      OBVIOUS
    <3>2. waiting \in Seq(Calls) /\ Len(waiting) \in Nat
      BY DEF TypeOK
    <3>3. /\ SubSeq(waiting, 1, i - 1) \in Seq(Calls)
          /\ SubSeq(waiting, i + 1, Len(waiting)) \in Seq(Calls)
      BY <3>2, SubSeqProperties
    <3> QED BY <3>1, <3>3, ConcatProperties DEF RemoveAt
  <2>2. faults' \in 0 .. MaxFaults
    BY FaultsAssumption DEF TypeOK, Fail, MayFail
  <2> QED BY <2>1, <2>2 DEF TypeOK, Phases, MaybeError, Errors
<1>2. LeaseInv'
  BY DEF TypeOK, LeaseInv, Leased
<1>3. SessionInv'
  BY DEF TypeOK, SessionInv, Me
<1>4. \A u \in Calls : DurableInv(u)'
  BY ZenonT(60) DEF TypeOK, DurableInv, Untouched, Failed, Succeeded, Durable, InDoubt, AttemptsOf
<1> QED BY <1>1, <1>2, <1>3, <1>4

LEMMA BeginInv == ASSUME IInv, NEW t \in Calls, Begin(t) PROVE IInv'
<1> USE DEF IInv, Begin, Goto, errors
<1>1. lease[t] \in Conns /\ Me(t) \in Attempt
  BY DEF TypeOK, LeaseInv, Leased, Me, Attempt
<1>2. TypeOK'
  <2>1. session' \in [Conns -> Sessions]
    BY <1>1 DEF TypeOK, Sessions
  <2> QED BY <2>1 DEF TypeOK, Phases
<1>3. LeaseInv'
  BY DEF TypeOK, LeaseInv, Leased
<1>4. SessionInv'
  <2>1. \A u \in Calls : Me(u)' = Me(u)
    BY DEF Me
  <2>2. \A c \in Conns : session'[c] = IF c = lease[t] THEN Open(Me(t)) ELSE session[c]
    BY DEF TypeOK
  <2>3. \A u \in Calls : u # t => pc'[u] = pc[u] /\ began'[u] = began[u]
    BY DEF TypeOK
  <2>4. pc'[t] = "callback" /\ began'[t] = TRUE
    BY DEF TypeOK
  <2>5. \A u \in Calls : u # t /\ pc[u] \in Leased => lease[u] # lease[t] /\ lease[u] \in Conns
    BY DEF LeaseInv, TypeOK
  <2> QED BY <1>1, <2>1, <2>2, <2>3, <2>4, <2>5 DEF SessionInv, Leased
<1>5. \A u \in Calls : DurableInv(u)'
  BY ZenonT(60) DEF TypeOK, DurableInv, Untouched, Failed, Succeeded, Durable, InDoubt, AttemptsOf
<1> QED BY <1>2, <1>3, <1>4, <1>5

(***************************************************************************)
(* What the remaining actions have in common: call t moves while it holds  *)
(* its lease, and only the session of its own connection changes.          *)
(***************************************************************************)
LEMMA SessionMoves ==
    ASSUME IInv, NEW t \in Calls, pc[t] \in Leased, NEW s \in Sessions,
           session' = [session EXCEPT ![lease[t]] = s],
           NEW phase, pc' = [pc EXCEPT ![t] = phase],
           UNCHANGED <<lease, attempt>>,
           \A u \in Calls : u # t => began'[u] = began[u],
           s.mode = "open" =>
             s = Open(Me(t)) /\ phase \in {"callback", "commit", "rollback"},
           phase \in {"callback", "commit"} => began'[t] /\ s = Open(Me(t))
    PROVE  SessionInv' /\ session' \in [Conns -> Sessions]
<1> USE DEF IInv
<1>1. lease[t] \in Conns
  BY DEF TypeOK, LeaseInv, Leased
<1>2. \A u \in Calls : Me(u)' = Me(u)
  BY DEF Me
<1>3. \A c \in Conns : session'[c] = IF c = lease[t] THEN s ELSE session[c]
  BY DEF TypeOK
<1>4. \A u \in Calls : pc'[u] = IF u = t THEN phase ELSE pc[u]
  BY DEF TypeOK
<1>5. \A u \in Calls : u # t /\ pc[u] \in Leased => lease[u] # lease[t] /\ lease[u] \in Conns
  BY DEF LeaseInv, TypeOK
<1>6. \A c \in Conns : session'[c].mode = "open" =>
        \E u \in Calls : /\ lease'[u] = c /\ session'[c] = Open(Me(u)')
                         /\ pc'[u] \in {"callback", "commit", "rollback"}
  <2>1. SUFFICES ASSUME NEW c \in Conns, session'[c].mode = "open"
                 PROVE  \E u \in Calls : /\ lease[u] = c /\ session'[c] = Open(Me(u))
                                         /\ pc'[u] \in {"callback", "commit", "rollback"}
    BY <1>2
  <2>2. CASE c = lease[t]
    BY <1>3, <1>4, <2>1, <2>2
  <2>3. CASE c # lease[t]
    BY <1>3, <1>4, <2>1, <2>3 DEF SessionInv
  <2> QED BY <2>2, <2>3
<1>7. \A u \in Calls : pc'[u] \in {"callback", "commit"} =>
        began'[u] /\ session'[lease'[u]] = Open(Me(u)')
  BY <1>1, <1>2, <1>3, <1>4, <1>5 DEF SessionInv, Leased
<1> QED BY <1>1, <1>6, <1>7 DEF SessionInv, TypeOK

\* A session after a failure: a type, and open only if it was.
LEMMA FailedSessionIs ==
    ASSUME IInv, NEW t \in Calls, pc[t] \in Leased, NEW err, NEW after,
           FailedSession(t, err, after)
    PROVE  /\ session' = [session EXCEPT ![lease[t]] = after]
           /\ after \in Sessions
           /\ pc[t] \in {"callback", "commit"} /\ after.mode = "open" => after = Open(Me(t))
<1>1. session[lease[t]] \in Sessions
  BY DEF IInv, TypeOK, LeaseInv, Leased
<1>2. after \in {session[lease[t]], Idle, Dead}
  BY DEF FailedSession
<1> QED BY <1>1, <1>2 DEF FailedSession, Sessions, IInv, SessionInv, Idle, Dead

LEMMA FaultCounted == ASSUME TypeOK, Fail PROVE faults' \in 0 .. MaxFaults
BY FaultsAssumption DEF TypeOK, Fail, MayFail

\* The lease stays where it is while a leased call moves to a leased phase.
LEMMA LeaseMoves ==
    ASSUME IInv, NEW t \in Calls, pc[t] \in Leased, NEW phase \in Leased,
           pc' = [pc EXCEPT ![t] = phase], lease' = lease
    PROVE  LeaseInv'
BY DEF IInv, TypeOK, LeaseInv

LEMMA BeginFailsInv == ASSUME IInv, NEW t \in Calls, BeginFails(t) PROVE IInv'
<1> USE DEF IInv, BeginFails, Goto, flags
<1>1. PICK err \in Errors, after \in {Idle, Dead} :
        /\ FailedSession(t, err, after)
        /\ primaryError' = [primaryError EXCEPT ![t] = err]
  OBVIOUS
<1>2. SessionInv' /\ session' \in [Conns -> Sessions]
  <2>1. after.mode # "open"
    BY <1>1 DEF Idle, Dead
  <2>2. pc[t] \in Leased
    BY DEF Leased
  <2>3. /\ session' = [session EXCEPT ![lease[t]] = after] /\ after \in Sessions
    BY <1>1, <2>2, FailedSessionIs
  <2> QED BY <2>1, <2>2, <2>3, SessionMoves
<1>3. TypeOK'
  BY <1>1, <1>2, FaultCounted DEF TypeOK, Phases, MaybeError
<1>4. LeaseInv'
  BY LeaseMoves DEF Leased
<1>5. \A u \in Calls : DurableInv(u)'
  <2>1. \A u \in Calls : Durable(u)' = Durable(u) /\ InDoubt(u)' = InDoubt(u)
    BY DEF Durable, InDoubt, AttemptsOf
  <2>2. DurableInv(t)'
    <3>1. Untouched(t)
      BY DEF DurableInv
    <3>2. pc'[t] = "cleanup" /\ primaryError'[t] # "none" /\ committed' = committed
      BY <1>1 DEF TypeOK, Errors
    <3>3. Failed(t)'
      BY <2>1, <3>1, <3>2 DEF Untouched, Failed
    <3> QED BY <3>2, <3>3 DEF DurableInv
  <2>3. ASSUME NEW u \in Calls, u # t PROVE DurableInv(u)'
    BY <1>1, <2>1, <2>3, OthersUnmoved DEF TypeOK
  <2> QED BY <2>2, <2>3
<1> QED BY <1>2, <1>3, <1>4, <1>5

LEMMA CallbackFulfilsInv == ASSUME IInv, NEW t \in Calls, CallbackFulfils(t) PROVE IInv'
<1> USE DEF IInv, CallbackFulfils, Goto, flags, errors, server
<1>1. TypeOK'
  BY DEF TypeOK, Phases
<1>2. LeaseInv'
  BY LeaseMoves DEF Leased
<1>3. SessionInv'
  <2>1. \A u \in Calls : Me(u)' = Me(u)
    BY DEF Me
  <2>2. \A u \in Calls :
          /\ pc'[u] \in {"callback", "commit"} <=> pc[u] \in {"callback", "commit"}
          /\ pc'[u] = "rollback" <=> pc[u] = "rollback"
    BY DEF TypeOK
  <2> QED BY <2>1, <2>2 DEF SessionInv
<1>4. \A u \in Calls : DurableInv(u)'
  <2>1. \A u \in Calls : Durable(u)' = Durable(u) /\ InDoubt(u)' = InDoubt(u)
    BY DEF Durable, InDoubt, AttemptsOf
  <2>2. DurableInv(t)'
    BY <2>1 DEF TypeOK, DurableInv, Untouched
  <2>3. ASSUME NEW u \in Calls, u # t PROVE DurableInv(u)'
    BY <2>1, <2>3, OthersUnmoved DEF TypeOK
  <2> QED BY <2>2, <2>3
<1> QED BY <1>1, <1>2, <1>3, <1>4

LEMMA CallbackRejectsInv == ASSUME IInv, NEW t \in Calls, CallbackRejects(t) PROVE IInv'
<1> USE DEF IInv, CallbackRejects, Goto, flags
<1>1. PICK err \in Errors, after \in {session[lease[t]], Idle, Dead} :
        /\ FailedSession(t, err, after)
        /\ primaryError' = [primaryError EXCEPT ![t] = err]
  OBVIOUS
<1>2. SessionInv' /\ session' \in [Conns -> Sessions]
  <2>1. pc[t] \in Leased
    BY DEF Leased
  <2>2. /\ session' = [session EXCEPT ![lease[t]] = after] /\ after \in Sessions
        /\ after.mode = "open" => after = Open(Me(t))
    BY <1>1, <2>1, FailedSessionIs
  <2> QED BY <2>1, <2>2, SessionMoves
<1>3. TypeOK'
  BY <1>1, <1>2, FaultCounted DEF TypeOK, Phases, MaybeError
<1>4. LeaseInv'
  BY LeaseMoves DEF Leased
<1>5. \A u \in Calls : DurableInv(u)'
  <2>1. \A u \in Calls : Durable(u)' = Durable(u) /\ InDoubt(u)' = InDoubt(u)
    BY DEF Durable, InDoubt, AttemptsOf
  <2>2. DurableInv(t)'
    <3>1. Untouched(t)
      BY DEF DurableInv
    <3>2. pc'[t] = "rollback" /\ primaryError'[t] # "none" /\ committed' = committed
      BY <1>1 DEF TypeOK, Errors
    <3>3. Failed(t)'
      BY <2>1, <3>1, <3>2 DEF Untouched, Failed
    <3> QED BY <3>2, <3>3 DEF DurableInv
  <2>3. ASSUME NEW u \in Calls, u # t PROVE DurableInv(u)'
    BY <1>1, <2>1, <2>3, OthersUnmoved DEF TypeOK
  <2> QED BY <2>2, <2>3
<1> QED BY <1>2, <1>3, <1>4, <1>5

\* What COMMIT makes durable belongs to the call that committed.
LEMMA AttemptsAdded ==
    ASSUME NEW t \in Calls, NEW a \in 0 .. MaxRetries, NEW S
    PROVE  /\ AttemptsOf(t, S \cup {<<t, a>>}) = AttemptsOf(t, S) \cup {a}
           /\ \A u \in Calls : u # t => AttemptsOf(u, S \cup {<<t, a>>}) = AttemptsOf(u, S)
BY DEF AttemptsOf

\* While its callback or its COMMIT is under way, a call's session is its own.
LEMMA OwnSession ==
    ASSUME IInv, NEW t \in Calls, pc[t] \in {"callback", "commit"}
    PROVE  /\ session[lease[t]].owner = Me(t) /\ began[t]
           /\ Me(t) \in Attempt /\ attempt[t] \in 0 .. MaxRetries
<1>1. session[lease[t]] = Open(Me(t)) /\ began[t]
  BY DEF IInv, SessionInv
<1>2. attempt[t] \in 0 .. MaxRetries
  BY DEF IInv, TypeOK
<1>3. Me(t) \in Attempt
  BY <1>2 DEF Me, Attempt
<1>4. Open(Me(t)).owner = Me(t)
  BY DEF Open
<1> QED BY <1>1, <1>2, <1>3, <1>4

LEMMA CommitInv == ASSUME IInv, NEW t \in Calls, Commit(t) PROVE IInv'
<1> USE DEF IInv, Commit, Goto, errors
<1>1. session[lease[t]].owner = Me(t) /\ Me(t) \in Attempt /\ attempt[t] \in 0 .. MaxRetries
  BY OwnSession
<1>2. SessionInv' /\ session' \in [Conns -> Sessions]
  <2>1. Idle \in Sessions /\ Idle.mode # "open" /\ pc[t] \in Leased
    BY DEF Sessions, Idle, Leased
  <2>2. \A u \in Calls : u # t => began'[u] = began[u]
    BY DEF TypeOK
  <2> QED BY <2>1, <2>2, SessionMoves
<1>3. TypeOK'
  BY <1>1, <1>2 DEF TypeOK, Phases
<1>4. LeaseInv'
  BY LeaseMoves DEF Leased
<1>5. \A u \in Calls : DurableInv(u)'
  <2>1. /\ Durable(t)' = Durable(t) \cup {attempt[t]} /\ InDoubt(t)' = InDoubt(t)
        /\ \A u \in Calls : u # t => Durable(u)' = Durable(u) /\ InDoubt(u)' = InDoubt(u)
    <3>1. durable' = durable \cup {<<t, attempt[t]>>} /\ inDoubt' = inDoubt
      BY <1>1 DEF Me
    <3> HIDE DEF IInv, Commit, Goto, errors
    <3>2. /\ AttemptsOf(t, durable \cup {<<t, attempt[t]>>}) = AttemptsOf(t, durable) \cup {attempt[t]}
          /\ \A u \in Calls :
               u # t => AttemptsOf(u, durable \cup {<<t, attempt[t]>>}) = AttemptsOf(u, durable)
      BY <1>1, AttemptsAdded
    <3>3. \A u : Durable(u)' = AttemptsOf(u, durable') /\ InDoubt(u)' = AttemptsOf(u, inDoubt')
      BY DEF Durable, InDoubt, AttemptsOf
    <3> QED BY <3>1, <3>2, <3>3 DEF Durable, InDoubt
  <2>2. DurableInv(t)'
    <3>1. Untouched(t)
      BY DEF DurableInv
    <3>2. pc'[t] = "cleanup" /\ committed'[t] = TRUE
      BY DEF TypeOK
    <3>3. Succeeded(t)'
      BY <2>1, <3>1, <3>2 DEF Untouched, Succeeded
    <3> QED BY <3>2, <3>3 DEF DurableInv
  <2>3. ASSUME NEW u \in Calls, u # t PROVE DurableInv(u)'
    BY <2>1, <2>3, OthersUnmoved DEF TypeOK
  <2> QED BY <2>2, <2>3
<1> QED BY <1>2, <1>3, <1>4, <1>5

LEMMA CommitFailsInv == ASSUME IInv, NEW t \in Calls, CommitFails(t) PROVE IInv'
<1> USE DEF IInv, CommitFails, Goto, flags
<1>1. PICK err \in Errors, after \in {session[lease[t]], Idle, Dead},
           tookEffect \in BOOLEAN :
        /\ FailedSession(t, err, after)
        /\ tookEffect => after = Dead /\ session[lease[t]].mode = "open"
        /\ durable' = IF tookEffect THEN durable \cup {session[lease[t]].owner}
                                    ELSE durable
        /\ inDoubt' = IF tookEffect THEN inDoubt \cup {session[lease[t]].owner}
                                    ELSE inDoubt
        /\ primaryError' = [primaryError EXCEPT ![t] = err]
  OBVIOUS
<1>2. /\ session[lease[t]].owner = Me(t) /\ Me(t) \in Attempt
      /\ attempt[t] \in 0 .. MaxRetries /\ began[t]
  BY OwnSession
<1>3. SessionInv' /\ session' \in [Conns -> Sessions]
  <2>1. pc[t] \in Leased
    BY DEF Leased
  <2>2. /\ session' = [session EXCEPT ![lease[t]] = after] /\ after \in Sessions
        /\ after.mode = "open" => after = Open(Me(t))
    BY <1>1, <2>1, FailedSessionIs
  <2> QED BY <1>2, <2>1, <2>2, SessionMoves
<1>4. TypeOK'
  <2>1. durable' \subseteq Attempt /\ inDoubt' \subseteq durable'
    BY <1>1, <1>2 DEF TypeOK
  <2> QED BY <1>1, <1>2, <1>3, <2>1, FaultCounted DEF TypeOK, Phases, MaybeError
<1>5. LeaseInv'
  BY <1>2, LeaseMoves DEF Leased
<1>6. \A u \in Calls : DurableInv(u)'
  <2>1. \A u \in Calls : u # t => Durable(u)' = Durable(u) /\ InDoubt(u)' = InDoubt(u)
    <3>1. CASE tookEffect
      BY <1>1, <1>2, <3>1, AttemptsAdded DEF Durable, InDoubt, Me
    <3>2. CASE ~tookEffect
      BY <1>1, <3>2 DEF Durable, InDoubt, AttemptsOf
    <3> QED BY <3>1, <3>2
  <2>2. DurableInv(t)'
    <3>1. Untouched(t)
      BY DEF DurableInv
    <3>2. /\ pc'[t] = "rollback" /\ primaryError'[t] = err /\ err # "none"
          /\ committed' = committed /\ attempt' = attempt
      BY <1>1, <1>2 DEF TypeOK, Errors
    <3>3. CASE tookEffect
      <4>1. err = "fatal"
        BY <1>1, <3>3 DEF FailedSession
      <4>2. Durable(t)' = Durable(t) \cup {attempt[t]}
            /\ InDoubt(t)' = InDoubt(t) \cup {attempt[t]}
        BY <1>1, <1>2, <3>3, AttemptsAdded DEF Durable, InDoubt, Me
      <4> QED BY <3>1, <3>2, <4>1, <4>2 DEF DurableInv, Untouched, Failed
    <3>4. CASE ~tookEffect
      <4>1. Durable(t)' = Durable(t) /\ InDoubt(t)' = InDoubt(t)
        BY <1>1, <3>4 DEF Durable, InDoubt, AttemptsOf
      <4> QED BY <3>1, <3>2, <4>1 DEF DurableInv, Untouched, Failed
    <3> QED BY <3>3, <3>4
  <2>3. ASSUME NEW u \in Calls, u # t PROVE DurableInv(u)'
    BY <1>1, <2>1, <2>3, OthersUnmoved DEF TypeOK
  <2> QED BY <2>2, <2>3
<1> QED BY <1>3, <1>4, <1>5, <1>6

LEMMA RollbackInv == ASSUME IInv, NEW t \in Calls, Rollback(t) PROVE IInv'
<1> USE DEF IInv, Rollback, Goto, flags, errors
<1>1. SessionInv' /\ session' \in [Conns -> Sessions]
  <2>1. PICK s \in {Idle, Dead} : session' = [session EXCEPT ![lease[t]] = s]
    OBVIOUS
  <2>2. s \in Sessions /\ s.mode # "open" /\ pc[t] \in Leased
    BY <2>1 DEF Sessions, Idle, Dead, Leased
  <2> QED BY <2>1, <2>2, SessionMoves
<1>2. TypeOK'
  BY <1>1 DEF TypeOK, Phases
<1>3. LeaseInv'
  BY LeaseMoves DEF Leased
<1>4. \A u \in Calls : DurableInv(u)'
  <2>1. \A u \in Calls : Durable(u)' = Durable(u) /\ InDoubt(u)' = InDoubt(u)
    BY DEF Durable, InDoubt, AttemptsOf
  <2>2. DurableInv(t)'
    <3>1. Failed(t)
      BY DEF DurableInv
    <3>2. pc'[t] = "cleanup"
      BY DEF TypeOK
    <3> QED BY <2>1, <3>1, <3>2 DEF DurableInv, Failed
  <2>3. ASSUME NEW u \in Calls, u # t PROVE DurableInv(u)'
    BY <2>1, <2>3, OthersUnmoved DEF TypeOK
  <2> QED BY <2>2, <2>3
<1> QED BY <1>1, <1>2, <1>3, <1>4

LEMMA CleanupInv == ASSUME IInv, NEW t \in Calls, Cleanup(t) PROVE IInv'
<1> USE DEF IInv, Cleanup, Goto, flags, server
<1>1. faults' \in 0 .. MaxFaults
  BY FaultCounted DEF TypeOK
<1>2. cleanupError' \in [Calls -> MaybeError]
  BY DEF TypeOK, MaybeError
<1>3. TypeOK'
  BY <1>1, <1>2 DEF TypeOK, Phases
<1>4. LeaseInv'
  BY LeaseMoves DEF Leased
<1>5. SessionInv'
  <2>1. \A u \in Calls : Me(u)' = Me(u)
    BY DEF Me
  <2>2. \A u \in Calls : u # t => pc'[u] = pc[u]
    BY DEF TypeOK
  <2>3. pc'[t] = "release"
    BY DEF TypeOK
  <2> QED BY <2>1, <2>2, <2>3 DEF SessionInv
<1>6. \A u \in Calls : DurableInv(u)'
  <2>1. \A u \in Calls : Durable(u)' = Durable(u) /\ InDoubt(u)' = InDoubt(u)
    BY DEF Durable, InDoubt, AttemptsOf
  <2>2. DurableInv(t)'
    <3>1. pc'[t] = "release"
      BY DEF TypeOK
    <3> QED BY <2>1, <3>1 DEF DurableInv, Failed, Succeeded
  <2>3. ASSUME NEW u \in Calls, u # t PROVE DurableInv(u)'
    <3>1. cleanupError'[u] = cleanupError[u]
      BY <2>3 DEF TypeOK
    <3> QED BY <2>1, <2>3, <3>1, OthersUnmoved DEF TypeOK
  <2> QED BY <2>2, <2>3
<1> QED BY <1>3, <1>4, <1>5, <1>6

(***************************************************************************)
(* The one place where a call is retried or settles.  Only a primary error *)
(* with a conflict code leads to a retry, and after such an error nothing  *)
(* of the attempt is durable.                                              *)
(***************************************************************************)
LEMMA ReleaseInv == ASSUME IInv, NEW t \in Calls, Release(t) PROVE IInv'
<1> USE DEF IInv
<1>1. PICK relErr \in MaybeError : Finish(t, ThrownError(t, relErr))
  BY DEF Release, MaybeError
<1> DEFINE thrown == ThrownError(t, relErr)
<1>2. thrown \in [error : MaybeError, transactionCommitted : BOOLEAN]
  BY <1>1 DEF ThrownError, TypeOK
<1>3. /\ \A u \in Calls : u # t => pc'[u] = pc[u] /\ attempt'[u] = attempt[u]
                                 /\ outcome'[u] = outcome[u] /\ began'[u] = began[u]
                                 /\ committed'[u] = committed[u]
                                 /\ primaryError'[u] = primaryError[u]
                                 /\ cleanupError'[u] = cleanupError[u]
      /\ pc'[t] \in {"fulfilled", "acquire", "rejected"}
  BY <1>1 DEF Finish, Goto, flags, errors, TypeOK
<1>4. lease[t] \in Conns /\ lease' = [lease EXCEPT ![t] = NoConn]
      /\ session' = [session EXCEPT ![lease[t]] = ReplaceIfDead(@)] /\ pc[t] = "release"
      /\ durable' = durable /\ inDoubt' = inDoubt
  BY DEF Release, TypeOK, LeaseInv, Leased
<1>5. TypeOK'
  <2>1. session' \in [Conns -> Sessions]
    BY <1>4 DEF TypeOK, ReplaceIfDead, Sessions
  <2>2. faults' \in 0 .. MaxFaults
    BY FaultCounted DEF Release, TypeOK
  <2>3. CASE pc' = [pc EXCEPT ![t] = "fulfilled"] /\ UNCHANGED <<attempt, flags, errors, outcome, waiting>>
    BY <1>4, <2>1, <2>2, <2>3 DEF TypeOK, Phases, flags, errors
  <2>4. CASE /\ pc' = [pc EXCEPT ![t] = "rejected"] /\ outcome' = [outcome EXCEPT ![t] = thrown]
             /\ UNCHANGED <<attempt, flags, errors, waiting>>
    BY <1>2, <1>4, <2>1, <2>2, <2>4 DEF TypeOK, Phases, flags, errors
  <2>5. CASE /\ pc' = [pc EXCEPT ![t] = "acquire"] /\ CanRetry(t)
             /\ attempt' = [attempt EXCEPT ![t] = @ + 1]
             /\ waiting' = Append(waiting, t)
             /\ began' = [began EXCEPT ![t] = FALSE]
             /\ committed' = [committed EXCEPT ![t] = FALSE]
             /\ primaryError' = [primaryError EXCEPT ![t] = "none"]
             /\ cleanupError' = [cleanupError EXCEPT ![t] = "none"]
             /\ UNCHANGED outcome
    <3>1. attempt' \in [Calls -> 0 .. MaxRetries]
      BY <2>5, RetriesAssumption DEF TypeOK, CanRetry
    <3>2. waiting' \in Seq(Calls)
      BY <2>5 DEF TypeOK
    <3>3. /\ began' \in [Calls -> BOOLEAN] /\ committed' \in [Calls -> BOOLEAN]
          /\ primaryError' \in [Calls -> MaybeError]
          /\ cleanupError' \in [Calls -> MaybeError]
      BY <2>5 DEF TypeOK, MaybeError
    <3> QED BY <1>4, <2>1, <2>2, <2>5, <3>1, <3>2, <3>3 DEF TypeOK, Phases
  <2> QED BY <1>1, <2>3, <2>4, <2>5 DEF Finish, Goto
<1>6. LeaseInv'
  BY <1>3, <1>4 DEF TypeOK, LeaseInv, Leased
<1>7. SessionInv'
  <2>1. session[lease[t]].mode # "open"
    <3>1. SUFFICES ASSUME session[lease[t]].mode = "open" PROVE FALSE
      OBVIOUS
    <3>2. PICK u \in Calls : lease[u] = lease[t] /\ pc[u] \in {"callback", "commit", "rollback"}
      BY <1>4, <3>1 DEF SessionInv
    <3>3. u # t
      BY <1>4, <3>2
    <3>4. lease[u] # NoConn
      BY <1>4, <3>2, NoConnAssumption
    <3> QED BY <3>2, <3>3, <3>4 DEF LeaseInv
  <2>2. ReplaceIfDead(session[lease[t]]).mode # "open"
    BY <2>1 DEF ReplaceIfDead, Idle
  <2>3. \A c \in Conns : session'[c].mode = "open" => c # lease[t] /\ session'[c] = session[c]
    BY <1>4, <2>2 DEF TypeOK
  <2>4. \A u \in Calls : u # t => Me(u)' = Me(u) /\ lease'[u] = lease[u]
    BY <1>3, <1>4 DEF Me, TypeOK
  <2>5. \A u \in Calls : u # t /\ pc[u] \in Leased =>
          lease[u] # lease[t] /\ lease[u] \in Conns /\ session'[lease[u]] = session[lease[u]]
    BY <1>4 DEF LeaseInv, TypeOK
  <2>6. \A c \in Conns : session'[c].mode = "open" =>
          \E u \in Calls : /\ lease'[u] = c /\ session'[c] = Open(Me(u)')
                           /\ pc'[u] \in {"callback", "commit", "rollback"}
    BY <1>3, <1>4, <2>3, <2>4 DEF SessionInv
  <2>7. \A u \in Calls : pc'[u] \in {"callback", "commit"} =>
          began'[u] /\ session'[lease'[u]] = Open(Me(u)')
    BY <1>3, <2>4, <2>5 DEF SessionInv, Leased
  <2> QED BY <2>6, <2>7 DEF SessionInv
<1>8. \A u \in Calls : DurableInv(u)'
  <2>1. \A u \in Calls : Durable(u)' = Durable(u) /\ InDoubt(u)' = InDoubt(u)
    BY <1>4 DEF Durable, InDoubt, AttemptsOf
  <2>2. DurableInv(t)'
    <3>1. Failed(t) \/ Succeeded(t)
      BY <1>4 DEF DurableInv
    <3>2. CASE thrown.error = "none"
      <4>1. pc'[t] = "fulfilled" /\ attempt' = attempt
        BY <1>1, <3>2 DEF Finish, Goto, TypeOK
      <4>2. primaryError[t] = "none"
        BY <3>2 DEF ThrownError
      <4> QED BY <2>1, <3>1, <4>1, <4>2 DEF DurableInv, Failed, Succeeded
    <3>3. CASE thrown.error # "none" /\ CanRetry(t) /\ IsRetryable(thrown)
      <4>1. /\ pc'[t] = "acquire" /\ committed'[t] = FALSE
            /\ primaryError'[t] = "none" /\ cleanupError'[t] = "none"
        BY <1>1, <3>3 DEF Finish, Goto, TypeOK
      <4>2. thrown.error = "conflict" /\ ~thrown.transactionCommitted
        BY <3>3 DEF IsRetryable
      <4>3. Failed(t) /\ primaryError[t] = "conflict"
        BY <3>1, <4>2 DEF ThrownError, Failed, Succeeded
      <4>4. Untouched(t)'
        BY <2>1, <4>1, <4>3 DEF Failed, Untouched
      <4> QED BY <4>1, <4>4 DEF DurableInv
    <3>4. CASE thrown.error # "none" /\ ~(CanRetry(t) /\ IsRetryable(thrown))
      <4>1. pc'[t] = "rejected" /\ outcome'[t] = thrown /\ attempt' = attempt
        BY <1>1, <3>4 DEF Finish, Goto, TypeOK
      <4>2. CASE Failed(t)
        <5>1. ~thrown.transactionCommitted
          BY <4>2 DEF ThrownError, Failed
        <5> QED BY <2>1, <4>1, <4>2, <5>1 DEF DurableInv, Failed
      <4>3. CASE Succeeded(t)
        <5>1. thrown.transactionCommitted
          BY <4>3 DEF ThrownError, Succeeded
        <5> QED BY <2>1, <4>1, <4>3, <5>1 DEF DurableInv, Succeeded
      <4> QED BY <3>1, <4>2, <4>3
    <3> QED BY <3>2, <3>3, <3>4
  <2>3. ASSUME NEW u \in Calls, u # t PROVE DurableInv(u)'
    BY <1>3, <2>1, <2>3, OthersUnmoved
  <2> QED BY <2>2, <2>3
<1> QED BY <1>5, <1>6, <1>7, <1>8

LEMMA StutterInv == ASSUME IInv, UNCHANGED vars PROVE IInv'
<1>1. TypeOK' /\ LeaseInv'
  BY DEF vars, flags, errors, server, IInv, TypeOK, LeaseInv
<1>2. SessionInv'
  BY DEF vars, flags, server, IInv, SessionInv, Me
<1>3. \A t \in Calls : DurableInv(t)'
  BY DEF vars, flags, errors, server, IInv, DurableInv, Untouched, Failed, Succeeded,
         Durable, InDoubt, AttemptsOf
<1> QED BY <1>1, <1>2, <1>3 DEF IInv

(***************************************************************************)
(* Every reachable state satisfies the inductive invariant.                *)
(***************************************************************************)
THEOREM Invariance == Spec => []IInv
<1>1. IInv /\ [Next]_vars => IInv'
  <2> SUFFICES ASSUME IInv, [Next]_vars PROVE IInv'
    OBVIOUS
  <2>1. ASSUME NEW t \in Calls, Step(t) PROVE IInv'
    BY <2>1, StartInv, AcquireInv, AcquireTimesOutInv, BeginInv, BeginFailsInv,
       CallbackFulfilsInv, CallbackRejectsInv, CommitInv, CommitFailsInv,
       RollbackInv, CleanupInv, ReleaseInv DEF Step
  <2>2. CASE AllSettled
    BY <2>2, StutterInv DEF AllSettled
  <2>3. CASE UNCHANGED vars
    BY <2>3, StutterInv
  <2> QED BY <2>1, <2>2, <2>3 DEF Next
<1> QED BY InitInv, <1>1, PTL DEF Spec

(***************************************************************************)
(* The variables of runTransaction hold what the code can store in them.   *)
(***************************************************************************)
THEOREM TypeCorrect == Spec => []TypeOK
BY Invariance, PTL DEF IInv

(***************************************************************************)
(* However many calls, connections, retries and faults there are, no call  *)
(* takes effect through two of its attempts.                               *)
(***************************************************************************)
THEOREM AtMostOnce == Spec => []AtMostOneDurableAttempt
<1>1. IInv => AtMostOneDurableAttempt
  <2>1. SUFFICES ASSUME IInv, NEW t \in Calls,
                        NEW a \in AttemptsOf(t, durable), NEW b \in AttemptsOf(t, durable)
                 PROVE  a = b
    BY DEF AtMostOneDurableAttempt
  <2>2. pc[t] \in Phases /\ DurableInv(t)
    BY <2>1 DEF IInv, TypeOK
  <2>3. Durable(t) \subseteq {attempt[t]}
    BY <2>2 DEF DurableInv, Phases, Untouched, Failed, Succeeded
  <2> QED BY <2>1, <2>3 DEF Durable
<1> QED BY <1>1, Invariance, PTL

(***************************************************************************)
(* What a settled promise says about durability is what the server did.    *)
(***************************************************************************)
THEOREM Truthful == Spec => []OutcomeTellsTheTruth
<1>1. IInv => OutcomeTellsTheTruth
  <2>1. SUFFICES ASSUME IInv, NEW t \in Calls
                 PROVE  /\ pc[t] = "fulfilled" => Me(t) \in durable
                        /\ pc[t] = "rejected" =>
                             IF outcome[t].transactionCommitted
                             THEN Me(t) \in durable
                             ELSE AttemptsOf(t, durable) = AttemptsOf(t, inDoubt)
    BY DEF OutcomeTellsTheTruth
  <2>2. Durable(t) = {attempt[t]} => Me(t) \in durable
    BY DEF Durable, AttemptsOf, Me
  <2> QED BY <2>1, <2>2 DEF IInv, DurableInv, Durable, InDoubt
<1> QED BY <1>1, Invariance, PTL

(***************************************************************************)
(* No error path returns a connection with an open transaction to the      *)
(* pool.                                                                   *)
(***************************************************************************)
THEOREM PoolIsClean == Spec => []PoolHoldsNoOpenTransaction
<1>1. IInv => PoolHoldsNoOpenTransaction
  <2>1. \A a : Open(a).owner = a
    BY DEF Open
  <2> QED BY <2>1 DEF IInv, SessionInv, PoolHoldsNoOpenTransaction
<1> QED BY <1>1, Invariance, PTL

(***************************************************************************)
(* No two calls ever work on one connection, and none keeps its connection *)
(* once it has settled.                                                    *)
(***************************************************************************)
THEOREM Exclusive == Spec => []LeasesAreExclusive
<1>1. IInv => LeasesAreExclusive
  BY DEF IInv, LeaseInv, LeasesAreExclusive, Leased, Settled
<1> QED BY <1>1, Invariance, PTL

(***************************************************************************)
(* The refinement.  COMMIT, answered or not, is where the call takes       *)
(* effect; a lease that times out and the release that is not followed by  *)
(* a retry settle the promise; everything else the caller cannot see.      *)
(***************************************************************************)
Applied == [t \in Calls |-> AttemptsOf(t, durable)]
AnswerLost == [t \in Calls |-> AttemptsOf(t, inDoubt) # {}]
Told == [t \in Calls |-> Promise(t)]

\* A step of call t that leaves the server alone and settles nothing is invisible.
LEMMA Invisible ==
    ASSUME IInv, NEW t \in Calls, pc[t] \notin Settled, pc'[t] \notin Settled,
           \A u \in Calls : u # t => pc'[u] = pc[u] /\ outcome'[u] = outcome[u],
           durable' = durable, inDoubt' = inDoubt
    PROVE  UNCHANGED <<Applied, AnswerLost, Told>>
<1>1. \A u \in Calls : Promise(u)' = Promise(u)
  <2>1. Promise(t) = "pending" /\ Promise(t)' = "pending"
    BY DEF Promise, Settled
  <2>2. \A u \in Calls : u # t => Promise(u)' = Promise(u)
    BY DEF Promise
  <2> QED BY <2>1, <2>2
<1> QED BY <1>1 DEF Applied, AnswerLost, Told, AttemptsOf

\* A step of call t after which its caller has been told something.
LEMMA Settles ==
    ASSUME IInv, NEW t \in Calls, pc[t] \notin Settled,
           \A u \in Calls : u # t => pc'[u] = pc[u] /\ outcome'[u] = outcome[u],
           durable' = durable, inDoubt' = inDoubt
    PROVE  /\ Told[t] = "pending" /\ Told' = [Told EXCEPT ![t] = Promise(t)']
           /\ UNCHANGED <<Applied, AnswerLost>>
<1>1. Told[t] = "pending"
  BY DEF Told, Promise, Settled
<1>2. \A u \in Calls : u # t => Promise(u)' = Promise(u)
  BY DEF Promise
<1>3. UNCHANGED <<Applied, AnswerLost>>
  BY DEF Applied, AnswerLost, AttemptsOf
<1> QED BY <1>1, <1>2, <1>3 DEF Told

\* COMMIT took effect in call t.
LEMMA TakesEffect ==
    ASSUME IInv, NEW t \in Calls, pc[t] = "commit", pc'[t] \notin Settled,
           \A u \in Calls : u # t => pc'[u] = pc[u],
           outcome' = outcome, NEW lost \in BOOLEAN,
           durable' = durable \cup {Me(t)},
           inDoubt' = IF lost THEN inDoubt \cup {Me(t)} ELSE inDoubt
    PROVE  Atomic!TakeEffect(t)
<1>1. attempt[t] \in 0 .. MaxRetries
  BY DEF IInv, TypeOK
<1>2. Durable(t) = {} /\ InDoubt(t) = {}
  BY DEF IInv, DurableInv, Untouched
<1>3. \A u \in Calls : AttemptsOf(u, durable)' =
        IF u = t THEN {attempt[t]} ELSE AttemptsOf(u, durable)
  <2>1. AttemptsOf(t, durable \cup {<<t, attempt[t]>>}) = {attempt[t]}
    BY <1>1, <1>2, AttemptsAdded DEF Durable
  <2>2. \A u \in Calls : u # t =>
          AttemptsOf(u, durable \cup {<<t, attempt[t]>>}) = AttemptsOf(u, durable)
    BY <1>1, AttemptsAdded
  <2>3. \A u \in Calls : AttemptsOf(u, durable)' = AttemptsOf(u, durable \cup {<<t, attempt[t]>>})
    BY DEF AttemptsOf, Me
  <2> QED BY <2>1, <2>2, <2>3
<1>4. \A u \in Calls : (AttemptsOf(u, inDoubt) # {})' =
        IF u = t THEN lost ELSE AttemptsOf(u, inDoubt) # {}
  <2>1. CASE lost
    <3>1. AttemptsOf(t, inDoubt \cup {<<t, attempt[t]>>}) # {}
      BY <1>1, AttemptsAdded
    <3>2. \A u \in Calls : u # t =>
            AttemptsOf(u, inDoubt \cup {<<t, attempt[t]>>}) = AttemptsOf(u, inDoubt)
      BY <1>1, AttemptsAdded
    <3>3. \A u \in Calls : AttemptsOf(u, inDoubt)' = AttemptsOf(u, inDoubt \cup {<<t, attempt[t]>>})
      BY <2>1 DEF AttemptsOf, Me
    <3> QED BY <2>1, <3>1, <3>2, <3>3
  <2>2. CASE ~lost
    BY <1>2, <2>2 DEF AttemptsOf, InDoubt
  <2> QED BY <2>1, <2>2
<1>5. Told[t] = "pending" /\ Told' = Told
  <2>1. \A u \in Calls : Promise(u)' = Promise(u)
    BY DEF Promise, Settled
  <2> QED BY <2>1 DEF Told, Promise
<1>6. Applied[t] = {} /\ Applied' = [Applied EXCEPT ![t] = {attempt[t]}]
  BY <1>2, <1>3 DEF Applied, Durable
<1>7. AnswerLost' = [AnswerLost EXCEPT ![t] = lost]
  BY <1>4 DEF AnswerLost
<1> QED BY <1>1, <1>5, <1>6, <1>7 DEF Atomic!TakeEffect, Applied, AnswerLost, Told

LEMMA ReleaseRefines ==
    ASSUME IInv, NEW t \in Calls, Release(t)
    PROVE  \/ Atomic!Fulfil(t) \/ Atomic!FailAfterCommit(t) \/ Atomic!Reject(t)
           \/ UNCHANGED <<Applied, AnswerLost, Told>>
<1> USE DEF IInv
<1>1. PICK relErr \in MaybeError : Finish(t, ThrownError(t, relErr))
  BY DEF Release, MaybeError
<1>2. \A u \in Calls : u # t => pc'[u] = pc[u] /\ outcome'[u] = outcome[u]
  BY <1>1 DEF Finish, Goto, TypeOK
<1>3. pc[t] = "release" /\ durable' = durable /\ inDoubt' = inDoubt
  BY DEF Release
<1>4. CASE pc'[t] = "acquire"
  BY <1>2, <1>3, <1>4, Invisible DEF Settled
<1>5. CASE pc'[t] # "acquire"
  <2>1. Told[t] = "pending" /\ Told' = [Told EXCEPT ![t] = Promise(t)']
        /\ UNCHANGED <<Applied, AnswerLost>>
    BY <1>2, <1>3, Settles DEF Settled
  <2>2. DurableInv(t)'
    BY ReleaseInv
  <2>3. pc'[t] \in {"fulfilled", "rejected"}
    BY <1>1, <1>5 DEF Finish, Goto, TypeOK
  <2>4. Durable(t)' = Applied[t] /\ (AnswerLost[t] <=> InDoubt(t)' # {})
    BY <1>3 DEF Durable, InDoubt, Applied, AnswerLost, AttemptsOf
  <2>5. CASE pc'[t] = "fulfilled"
    <3>1. Promise(t)' = "fulfilled"
      BY <2>5 DEF Promise
    <3>2. Applied[t] # {} /\ ~AnswerLost[t]
      BY <2>2, <2>4, <2>5 DEF DurableInv
    <3> QED BY <2>1, <3>1, <3>2 DEF Atomic!Fulfil, Applied, AnswerLost, Told
  <2>6. CASE pc'[t] = "rejected" /\ outcome'[t].transactionCommitted
    <3>1. Promise(t)' = "committedButFailed"
      BY <2>6 DEF Promise
    <3>2. Applied[t] # {} /\ ~AnswerLost[t]
      BY <2>2, <2>4, <2>6 DEF DurableInv
    <3> QED BY <2>1, <3>1, <3>2 DEF Atomic!FailAfterCommit, Applied, AnswerLost, Told
  <2>7. CASE pc'[t] = "rejected" /\ ~outcome'[t].transactionCommitted
    <3>1. Promise(t)' = "rejected"
      BY <2>7 DEF Promise
    <3>2. Applied[t] = {} \/ AnswerLost[t]
      BY <2>2, <2>4, <2>7 DEF DurableInv
    <3> QED BY <2>1, <3>1, <3>2 DEF Atomic!Reject, Applied, AnswerLost, Told
  <2> QED BY <2>3, <2>5, <2>6, <2>7
<1> QED BY <1>4, <1>5

(***************************************************************************)
(* runTransaction implements the all-or-nothing, at-most-once call that    *)
(* its documentation promises.                                             *)
(***************************************************************************)
THEOREM Refinement == Spec => ImplementsAtomicCall
<1>1. Init => Atomic!Init
  BY DEF Init, Atomic!Init, AttemptsOf, Promise
<1>2. IInv /\ [Next]_vars => [Atomic!Next]_(Atomic!avars)
  <2> SUFFICES ASSUME IInv, [Next]_vars
               PROVE  Atomic!Next \/ UNCHANGED <<Applied, AnswerLost, Told>>
    BY DEF Atomic!avars, Applied, AnswerLost, Told
  <2>1. CASE UNCHANGED vars
    BY <2>1 DEF vars, server, Applied, AnswerLost, Told, AttemptsOf, Promise
  <2>2. ASSUME NEW t \in Calls,
               \/ Start(t) \/ Acquire(t) \/ Begin(t) \/ BeginFails(t) \/ CallbackFulfils(t)
               \/ CallbackRejects(t) \/ Rollback(t) \/ Cleanup(t)
        PROVE  UNCHANGED <<Applied, AnswerLost, Told>>
    <3>1. /\ pc[t] \notin Settled /\ pc'[t] \notin Settled
          /\ \A u \in Calls : u # t => pc'[u] = pc[u]
          /\ outcome' = outcome /\ durable' = durable /\ inDoubt' = inDoubt
      BY <2>2 DEF IInv, TypeOK, Settled, Goto, server, Start, Acquire, Begin, BeginFails,
                  CallbackFulfils, CallbackRejects, Rollback, Cleanup
    <3> QED BY <3>1, Invisible
  <2>3. ASSUME NEW t \in Calls, AcquireTimesOut(t) PROVE Atomic!Reject(t)
    <3>1. /\ pc[t] = "acquire" /\ pc'[t] = "rejected" /\ ~outcome'[t].transactionCommitted
          /\ \A u \in Calls : u # t => pc'[u] = pc[u] /\ outcome'[u] = outcome[u]
          /\ durable' = durable /\ inDoubt' = inDoubt
      BY <2>3 DEF AcquireTimesOut, Goto, server, IInv, TypeOK
    <3>2. Told[t] = "pending" /\ Told' = [Told EXCEPT ![t] = Promise(t)']
          /\ UNCHANGED <<Applied, AnswerLost>>
      BY <3>1, Settles DEF Settled
    <3>3. Promise(t)' = "rejected"
      BY <3>1 DEF Promise
    <3>4. Applied[t] = {}
      BY <3>1 DEF IInv, DurableInv, Untouched, Durable, Applied
    <3> QED BY <3>2, <3>3, <3>4 DEF Atomic!Reject, Applied, AnswerLost, Told
  <2>4. ASSUME NEW t \in Calls, Commit(t) PROVE Atomic!TakeEffect(t)
    <3>1. session[lease[t]].owner = Me(t)
      BY <2>4, OwnSession DEF Commit
    <3>2. /\ pc[t] = "commit" /\ pc'[t] \notin Settled /\ outcome' = outcome
          /\ \A u \in Calls : u # t => pc'[u] = pc[u]
          /\ durable' = durable \cup {Me(t)} /\ inDoubt' = inDoubt
      BY <2>4, <3>1 DEF Commit, Goto, Settled, IInv, TypeOK
    <3> QED BY <3>2, TakesEffect
  <2>5. ASSUME NEW t \in Calls, CommitFails(t)
        PROVE  Atomic!TakeEffect(t) \/ UNCHANGED <<Applied, AnswerLost, Told>>
    <3>1. session[lease[t]].owner = Me(t)
      BY <2>5, OwnSession DEF CommitFails
    <3>2. /\ pc[t] = "commit" /\ pc[t] \notin Settled /\ pc'[t] \notin Settled
          /\ outcome' = outcome /\ \A u \in Calls : u # t => pc'[u] = pc[u]
      BY <2>5 DEF CommitFails, Goto, Settled, IInv, TypeOK
    <3>3. \/ durable' = durable \cup {Me(t)} /\ inDoubt' = inDoubt \cup {Me(t)}
          \/ durable' = durable /\ inDoubt' = inDoubt
      BY <2>5, <3>1 DEF CommitFails
    <3> QED BY <3>2, <3>3, TakesEffect, Invisible
  <2>6. ASSUME NEW t \in Calls, Release(t)
        PROVE  \/ Atomic!Fulfil(t) \/ Atomic!FailAfterCommit(t) \/ Atomic!Reject(t)
               \/ UNCHANGED <<Applied, AnswerLost, Told>>
    BY <2>6, ReleaseRefines
  <2>7. CASE AllSettled
    BY <2>1, <2>7 DEF AllSettled
  <2> QED BY <2>1, <2>2, <2>3, <2>4, <2>5, <2>6, <2>7 DEF Next, Step, Atomic!Next
<1> QED BY <1>1, <1>2, Invariance, PTL DEF Spec, ImplementsAtomicCall, Atomic!Spec

-----------------------------------------------------------------------------
(* Nested transactions: Savepoints, the inside of one root transaction.    *)

\* Names come from one counter, so a savepoint is named once, and the later ones higher.
Rising(q) == \A i, j \in 1 .. Len(q) : i < j => q[i].name < q[j].name

LogInv ==
    /\ txSession.mode \in {"open", "aborted"} => Len(txSession.log) >= 1
    /\ Rising(txSession.log)
    /\ \A i \in 1 .. Len(txSession.log) : txSession.log[i].name <= savepointCounter

(***************************************************************************)
(* In a sequential callback the savepoints of the server are the nested    *)
(* calls of the code, each with the writes it counts on; a transaction     *)
(* that the server has aborted or ended is being unwound.                  *)
(***************************************************************************)
Agrees(log, fs) ==
    /\ Len(log) = Len(fs)
    /\ \A i \in 1 .. Len(fs) : log[i].name = fs[i].name /\ log[i].writes = fs[i].kept

Fallen(s, err) ==
    \/ strand[s] = "rejected"
    \/ Top(frames[s]).phase = "undo" /\ Top(frames[s]).error \in err

ErrorKinds == {"none", "error", "conflict", "lost"}

StackInv(s) ==
    /\ \A i \in 1 .. Len(frames[s]) - 1 : frames[s][i].phase = "body"
    /\ strand[s] # "running" => Len(frames[s]) = 1
    /\ Top(frames[s]).phase = "drop" => Top(frames[s]).kept = {}
    /\ tx # "running" => strand[s] # "running"

OpenInv(s) ==
    tx = "running" =>
        /\ txDurable = {}
        /\ txSession.mode \in {"open", "aborted"} => Agrees(txSession.log, frames[s])
        /\ txSession.mode = "aborted" => Fallen(s, ErrorKinds)
        /\ txSession.mode = "none" => Fallen(s, {"conflict"})
        /\ Top(frames[s]).phase = "drop" => txSession.mode = "open"

-----------------------------------------------------------------------------
\* Sequences whose last element is replaced, that grow by one, or that are cut.
LEMMA Replaced ==
    ASSUME NEW S, NEW q \in Seq(S), NEW n \in 1 .. Len(q), NEW x \in S
    PROVE  LET p == [q EXCEPT ![n] = x]
           IN  /\ p \in Seq(S) /\ Len(p) = Len(q) /\ p[n] = x
               /\ \A i \in 1 .. Len(q) : i # n => p[i] = q[i]
  OBVIOUS

LEMMA Appended ==
    ASSUME NEW S, NEW q \in Seq(S), NEW x \in S
    PROVE  LET p == Append(q, x)
           IN  /\ p \in Seq(S) /\ Len(p) = Len(q) + 1 /\ p[Len(q) + 1] = x
               /\ \A i \in 1 .. Len(q) : p[i] = q[i]
  OBVIOUS

LEMMA Cut ==
    ASSUME NEW S, NEW q \in Seq(S), NEW n \in 0 .. Len(q)
    PROVE  LET p == SubSeq(q, 1, n)
           IN  /\ p \in Seq(S) /\ Len(p) = n
               /\ \A i \in 1 .. n : p[i] = q[i]
<1>1. 1 \in Int /\ n \in Int /\ \A i \in 1 .. n : q[i] \in S
  OBVIOUS
<1>. QED
  BY <1>1, SubSeqProperties

-----------------------------------------------------------------------------
\* What the module assumes of its constants.
SavepointsAssumptions ==
    /\ {MaxDepth, MaxSavepoints, MaxWrites, MaxTxFaults} \subseteq Nat
    /\ {CatchesConflicts, SwallowsErrors, AwaitsAll} \subseteq BOOLEAN

LEMMA Assumed == SavepointsAssumptions
  BY FlagsAssumption, BoundsAssumption DEF SavepointsAssumptions

NamesInv == SavepointsAssumptions /\ TxTypeOK /\ LogInv

\* The savepoint of a name, if there is one.
LEMMA MarkIs ==
    ASSUME NamesInv, NEW k \in SavepointLevels
    PROVE  MarkOf(txSession.log[k].name) = k
<1>. DEFINE IsMark(i) == /\ txSession.log[i].name = txSession.log[k].name
                         /\ \A j \in SavepointLevels :
                              txSession.log[j].name = txSession.log[k].name => j <= i
<1>1. txSession.log \in Seq(LevelType) /\ k \in 2 .. Len(txSession.log)
  BY DEF NamesInv, TxTypeOK, SavepointLevels
<1>2. \A i \in SavepointLevels : txSession.log[i].name = txSession.log[k].name => i = k
  <2>1. \A i \in 2 .. Len(txSession.log) : txSession.log[i].name \in Int
    <3>1. \A i \in 2 .. Len(txSession.log) : txSession.log[i] \in LevelType
      BY <1>1
    <3>. QED
      BY <3>1 DEF LevelType, NamesInv, SavepointsAssumptions
  <2>. QED
    BY <1>1, <2>1 DEF NamesInv, LogInv, Rising, SavepointLevels
<1>3. IsMark(k)
  BY <1>2, <1>1 DEF SavepointLevels
<1>4. MarkOf(txSession.log[k].name) = CHOOSE i \in SavepointLevels : IsMark(i)
  BY DEF MarkOf
<1>5. \A i \in SavepointLevels : IsMark(i) => i = k
  BY <1>2
<1>. HIDE DEF IsMark
<1>. QED
  BY <1>3, <1>4, <1>5

\* What RELEASE makes of the log.
LEMMA ReleasedIs ==
    ASSUME NamesInv, NEW k \in SavepointLevels
    PROVE  LET log == txSession.log
               new == Released(log[k].name)
           IN  /\ new \in Seq(LevelType) /\ Len(new) = k - 1
               /\ \A i \in 1 .. k - 1 : new[i].name = log[i].name
               /\ \A i \in 1 .. k - 2 : new[i] = log[i]
               /\ new[k - 1].writes = log[k - 1].writes \cup WritesFrom(log, k)
<1>. DEFINE log == txSession.log
            cut == SubSeq(log, 1, k - 1)
            x == [log[k - 1] EXCEPT !.writes = log[k - 1].writes \cup WritesFrom(log, k)]
<1>1. log \in Seq(LevelType) /\ k \in 2 .. Len(log)
  BY DEF NamesInv, TxTypeOK, SavepointLevels
<1>2. k - 1 \in 0 .. Len(log) /\ k - 1 \in 1 .. k - 1
  BY <1>1
<1>3. cut \in Seq(LevelType) /\ Len(cut) = k - 1 /\ \A i \in 1 .. k - 1 : cut[i] = log[i]
  BY <1>1, <1>2, Cut
<1>4. WritesFrom(log, k) \subseteq Writes
  <2>1. \A j \in k .. Len(log) : log[j].writes \subseteq Writes
    <3>1. \A j \in k .. Len(log) : log[j] \in LevelType
      BY <1>1
    <3>. QED
      BY <3>1 DEF LevelType
  <2>. QED
    BY <2>1 DEF WritesFrom
<1>5. x \in LevelType /\ x.name = log[k - 1].name
      /\ x.writes = log[k - 1].writes \cup WritesFrom(log, k)
  <2>1. log[k - 1] \in LevelType
    BY <1>1
  <2>. QED
    BY <1>4, <2>1 DEF LevelType
<1>6. Released(log[k].name) = [cut EXCEPT ![k - 1] = x]
  <2>1. MarkOf(log[k].name) = k
    BY MarkIs
  <2>2. cut[k - 1] = log[k - 1]
    BY <1>2, <1>3
  <2>. QED
    BY <2>1, <2>2 DEF Released
<1>. HIDE DEF log, cut, x
<1>7. LET p == [cut EXCEPT ![k - 1] = x]
      IN  /\ p \in Seq(LevelType) /\ Len(p) = Len(cut) /\ p[k - 1] = x
          /\ \A i \in 1 .. Len(cut) : i # k - 1 => p[i] = cut[i]
  BY <1>2, <1>3, <1>5, Replaced
<1>8. \A i \in 1 .. k - 2 : i \in 1 .. k - 1 /\ i # k - 1
  BY <1>1
<1>9. /\ Released(log[k].name) \in Seq(LevelType)
         /\ Len(Released(log[k].name)) = k - 1
      /\ \A i \in 1 .. k - 1 : Released(log[k].name)[i].name = log[i].name
      /\ \A i \in 1 .. k - 2 : Released(log[k].name)[i] = log[i]
      /\ Released(log[k].name)[k - 1].writes = log[k - 1].writes \cup WritesFrom(log, k)
  BY <1>3, <1>5, <1>6, <1>7, <1>8
<1>. QED
  BY <1>9 DEF log

\* What ROLLBACK TO makes of it.
LEMMA RolledBackIs ==
    ASSUME NamesInv, NEW k \in SavepointLevels
    PROVE  LET log == txSession.log
               new == RolledBackTo(log[k].name)
           IN  /\ new \in Seq(LevelType) /\ Len(new) = k
               /\ \A i \in 1 .. k : new[i].name = log[i].name
               /\ \A i \in 1 .. k - 1 : new[i] = log[i]
               /\ new[k].writes = {}
<1>. DEFINE log == txSession.log
            cut == SubSeq(log, 1, k)
            x == [log[k] EXCEPT !.writes = {}]
<1>1. log \in Seq(LevelType) /\ k \in 2 .. Len(log)
  BY DEF NamesInv, TxTypeOK, SavepointLevels
<1>2. k \in 0 .. Len(log) /\ k \in 1 .. k
  BY <1>1
<1>3. cut \in Seq(LevelType) /\ Len(cut) = k /\ \A i \in 1 .. k : cut[i] = log[i]
  BY <1>1, <1>2, Cut
<1>5. x \in LevelType /\ x.name = log[k].name /\ x.writes = {}
  <2>1. log[k] \in LevelType
    BY <1>1
  <2>. QED
    BY <2>1 DEF LevelType
<1>6. RolledBackTo(log[k].name) = [cut EXCEPT ![k] = x]
  <2>1. MarkOf(log[k].name) = k
    BY MarkIs
  <2>2. cut[k] = log[k]
    BY <1>2, <1>3
  <2>. QED
    BY <2>1, <2>2 DEF RolledBackTo
<1>. HIDE DEF log, cut, x
<1>7. LET p == [cut EXCEPT ![k] = x]
      IN  /\ p \in Seq(LevelType) /\ Len(p) = Len(cut) /\ p[k] = x
          /\ \A i \in 1 .. Len(cut) : i # k => p[i] = cut[i]
  BY <1>2, <1>3, <1>5, Replaced
<1>8. \A i \in 1 .. k - 1 : i \in 1 .. k /\ i # k
  BY <1>1
<1>9. /\ RolledBackTo(log[k].name) \in Seq(LevelType)
         /\ Len(RolledBackTo(log[k].name)) = k
      /\ \A i \in 1 .. k : RolledBackTo(log[k].name)[i].name = log[i].name
      /\ \A i \in 1 .. k - 1 : RolledBackTo(log[k].name)[i] = log[i]
      /\ RolledBackTo(log[k].name)[k].writes = {}
  BY <1>3, <1>5, <1>6, <1>7, <1>8
<1>. QED
  BY <1>9 DEF log

-----------------------------------------------------------------------------
StackType(fs) ==
    /\ fs \in Seq(FrameType) /\ Len(fs) \in 1 .. MaxDepth + 1
    /\ \A i \in 1 .. Len(fs) : fs[i].phase # "body" => i > 1

\* The stack with another frame on top.
LEMMA OnTop ==
    ASSUME SavepointsAssumptions, NEW fs, StackType(fs), NEW f \in FrameType,
           f.phase = "body" \/ Len(fs) > 1
    PROVE  LET p == SetTop(fs, f)
           IN  /\ StackType(p) /\ Len(p) = Len(fs) /\ Top(p) = f
               /\ \A i \in 1 .. Len(fs) - 1 : p[i] = fs[i]
<1>1. fs \in Seq(FrameType) /\ Len(fs) \in 1 .. Len(fs) /\ Len(fs) \in Nat
  BY DEF StackType, SavepointsAssumptions
<1>2. LET p == SetTop(fs, f)
      IN  /\ p \in Seq(FrameType) /\ Len(p) = Len(fs) /\ p[Len(fs)] = f
          /\ \A i \in 1 .. Len(fs) : i # Len(fs) => p[i] = fs[i]
  BY <1>1, Replaced DEF SetTop
<1>. QED
  BY <1>1, <1>2 DEF StackType, Top

LEMMA Popped ==
    ASSUME SavepointsAssumptions, NEW fs, StackType(fs), Len(fs) > 1
    PROVE  LET p == Pop(fs)
           IN  /\ StackType(p) /\ Len(p) = Len(fs) - 1 /\ Top(p) = fs[Len(fs) - 1]
               /\ \A i \in 1 .. Len(fs) - 1 : p[i] = fs[i]
<1>1. fs \in Seq(FrameType) /\ Len(fs) - 1 \in 0 .. Len(fs) /\ Len(fs) \in Nat
  BY DEF StackType, SavepointsAssumptions
<1>2. LET p == Pop(fs)
      IN  /\ p \in Seq(FrameType) /\ Len(p) = Len(fs) - 1
          /\ \A i \in 1 .. Len(fs) - 1 : p[i] = fs[i]
  BY <1>1, Cut DEF Pop
<1>. QED
  BY <1>1, <1>2 DEF StackType, Top, SavepointsAssumptions

LEMMA Entered ==
    ASSUME SavepointsAssumptions, NEW fs, StackType(fs), Len(fs) <= MaxDepth,
           NEW n \in 0 .. MaxSavepoints
    PROVE  LET p == Append(fs, Frame(n))
           IN  /\ StackType(p) /\ Len(p) = Len(fs) + 1 /\ Top(p) = Frame(n)
               /\ \A i \in 1 .. Len(fs) : p[i] = fs[i]
<1>1. fs \in Seq(FrameType) /\ Frame(n) \in FrameType
      /\ Len(fs) \in Nat /\ Frame(n).phase = "body"
  BY DEF StackType, Frame, FrameType, SavepointsAssumptions
<1>2. LET p == Append(fs, Frame(n))
      IN  /\ p \in Seq(FrameType) /\ Len(p) = Len(fs) + 1 /\ p[Len(fs) + 1] = Frame(n)
          /\ \A i \in 1 .. Len(fs) : p[i] = fs[i]
  BY <1>1, Appended
<1>. QED
  BY <1>1, <1>2 DEF StackType, Top, SavepointsAssumptions

LEMMA Stacks ==
    ASSUME NamesInv, NEW s \in Strands
    PROVE  StackType(frames[s]) /\ Top(frames[s]) \in FrameType
<1>1. StackType(frames[s])
  BY DEF NamesInv, TxTypeOK, StackType
<1>2. Len(frames[s]) \in 1 .. Len(frames[s])
  BY <1>1 DEF StackType
<1>. QED
  BY <1>1, <1>2 DEF StackType, Top

\* Where an error may go.
Thrown(s, fs, err) ==
    /\ \A u \in Strands \ {s} : frames'[u] = frames[u] /\ strand'[u] = strand[u]
    /\ StackType(frames'[s]) /\ Len(frames'[s]) = Len(fs)
    /\ \A i \in 1 .. Len(fs) - 1 : frames'[s][i] = fs[i]
    /\ Top(frames'[s]).name = Top(fs).name
       /\ Top(frames'[s]).kept = Top(fs).kept

LEMMA ThrowIs ==
    ASSUME NamesInv, NEW s \in Strands, NEW fs, StackType(fs), NEW err \in ErrorKinds,
           NEW mayCatch \in BOOLEAN, Throw(s, fs, err, mayCatch)
    PROVE  /\ frames' \in [Strands -> Seq(FrameType)]
           /\ strand' \in [Strands -> {"running", "fulfilled", "rejected"}]
           /\ Thrown(s, fs, err)
           /\ \/ mayCatch /\ frames'[s] = fs /\ strand'[s] = strand[s]
              \/ /\ Len(fs) > 1 /\ strand'[s] = strand[s]
                 /\ Top(frames'[s]).phase = "undo" /\ Top(frames'[s]).error = err
              \/ Len(fs) = 1 /\ frames'[s] = fs /\ strand'[s] = "rejected"
<1>. DEFINE f == [Top(fs) EXCEPT !.phase = "undo", !.error = err]
<1>1. Len(fs) \in 1 .. Len(fs) /\ fs \in Seq(FrameType)
  BY DEF StackType
<1>2. Top(fs) \in FrameType
  BY <1>1 DEF Top
<1>3. f \in FrameType /\ f.phase = "undo" /\ f.error = err /\ f.name = Top(fs).name
      /\ f.kept = Top(fs).kept
  BY <1>2 DEF FrameType, ErrorKinds
<1>4. /\ frames \in [Strands -> Seq(FrameType)]
      /\ strand \in [Strands -> {"running", "fulfilled", "rejected"}]
  BY DEF NamesInv, TxTypeOK
<1>. HIDE DEF f
<1>5. CASE \/ mayCatch /\ frames' = [frames EXCEPT ![s] = fs] /\ UNCHANGED strand
           \/ /\ Len(fs) = 1 /\ frames' = [frames EXCEPT ![s] = fs]
              /\ strand' = [strand EXCEPT ![s] = "rejected"]
  BY <1>1, <1>4, <1>5 DEF Thrown
<1>6. CASE Len(fs) > 1 /\ frames' = [frames EXCEPT ![s] = SetTop(fs, f)] /\ UNCHANGED strand
  <2>1. LET p == SetTop(fs, f)
        IN  /\ StackType(p) /\ Len(p) = Len(fs) /\ Top(p) = f
            /\ \A i \in 1 .. Len(fs) - 1 : p[i] = fs[i]
    BY <1>3, <1>6, OnTop DEF NamesInv
  <2>2. SetTop(fs, f) \in Seq(FrameType)
    BY <2>1 DEF StackType
  <2>. QED
    BY <1>3, <1>4, <1>6, <2>1, <2>2 DEF Thrown
<1>. QED
  BY <1>5, <1>6 DEF Throw, f

-----------------------------------------------------------------------------
Modes == {"open", "none", "aborted", "dead"}
SessionType == [mode : Modes, log : Seq(LevelType)]

\* What a statement leaves in the log when it is refused or ends the transaction.
LEMMA LogAfterError ==
    ASSUME NamesInv
    PROVE  \A new \in {Refused} \cup {AfterError(err) : err \in ErrorKinds} :
             /\ new \in SessionType
             /\ \/ /\ new.log = txSession.log
                   /\ new.mode = txSession.mode \/ (txSession.mode = "open" /\ new.mode = "aborted")
                \/ new.log = <<>> /\ new.mode \in {"none", "dead"}
<1>1. txSession \in SessionType
  BY DEF NamesInv, TxTypeOK, SessionType, Modes
<1>2. << >> \in Seq(LevelType)
  OBVIOUS
<1>3. /\ Refused \in SessionType /\ Refused.log = txSession.log
      /\ \/ Refused.mode = txSession.mode
         \/ txSession.mode = "open" /\ Refused.mode = "aborted"
  BY <1>1 DEF Refused, SessionType, Modes
<1>4. \A err \in ErrorKinds :
        \/ AfterError(err) = Refused
        \/ AfterError(err) = [mode |-> "dead", log |-> << >>]
        \/ AfterError(err) = [mode |-> "none", log |-> << >>]
  BY DEF AfterError
<1>5. ASSUME NEW err \in ErrorKinds
      PROVE  /\ AfterError(err) \in SessionType
             /\ \/ AfterError(err) = Refused
                \/ /\ AfterError(err).log = << >>
                   /\ AfterError(err).mode \in {"none", "dead"}
  <2>1. CASE AfterError(err) = Refused
    BY <1>3, <2>1 DEF SessionType, Modes
  <2>2. CASE AfterError(err) = [mode |-> "dead", log |-> << >>]
    BY <1>2, <2>2 DEF SessionType, Modes
  <2>3. CASE AfterError(err) = [mode |-> "none", log |-> << >>]
    BY <1>2, <2>3 DEF SessionType, Modes
  <2>. QED
    BY <1>4, <2>1, <2>2, <2>3
<1>. QED
  BY <1>3, <1>5 DEF SessionType, Modes

\* The log after a step keeps names that rise and were given out.
NextLog(log, counter) ==
    /\ log \in Seq(LevelType) /\ Rising(log)
    /\ \A i \in 1 .. Len(log) : log[i].name <= counter

LEMMA LogIs ==
    ASSUME NamesInv
    PROVE  /\ NextLog(txSession.log, savepointCounter) /\ NextLog(<<>>, savepointCounter)
           /\ savepointCounter \in Nat /\ Len(txSession.log) \in Nat
           /\ \A i \in 1 .. Len(txSession.log) :
                txSession.log[i] \in LevelType /\ txSession.log[i].name \in Nat
<1>1. txSession.log \in Seq(LevelType) /\ savepointCounter \in Nat
  BY DEF NamesInv, TxTypeOK, SavepointsAssumptions
<1>2. \A i \in 1 .. Len(txSession.log) : txSession.log[i] \in LevelType
  BY <1>1
<1>3. \A i \in 1 .. Len(txSession.log) : txSession.log[i].name \in Nat
  BY <1>2 DEF LevelType, NamesInv, SavepointsAssumptions
<1>4. NextLog(<< >>, savepointCounter)
  BY DEF NextLog, Rising
<1>. QED
  BY <1>1, <1>2, <1>3, <1>4 DEF NamesInv, LogInv, NextLog

LEMMA Shorter ==
    ASSUME NamesInv, NEW new \in Seq(LevelType), Len(new) <= Len(txSession.log),
           \A i \in 1 .. Len(new) : new[i].name = txSession.log[i].name
    PROVE  NextLog(new, savepointCounter)
<1>1. Len(new) \in Nat
  OBVIOUS
<1>2. \A i \in 1 .. Len(new) : i \in 1 .. Len(txSession.log) /\ new[i].name = txSession.log[i].name
  BY <1>1, LogIs
<1>. QED
  BY <1>2, LogIs DEF NextLog, Rising

LEMMA LogReleased ==
    ASSUME NamesInv, NEW name, Known(name)
    PROVE  NextLog(Released(name), savepointCounter) /\ Len(Released(name)) >= 1
<1>1. PICK k \in SavepointLevels : txSession.log[k].name = name
  BY DEF Known
<1>2. /\ Released(name) \in Seq(LevelType) /\ Len(Released(name)) = k - 1
      /\ \A i \in 1 .. k - 1 : Released(name)[i].name = txSession.log[i].name
  BY <1>1, ReleasedIs
<1>3. k \in 2 .. Len(txSession.log)
  BY <1>1 DEF SavepointLevels
<1>. QED
  BY <1>2, <1>3, LogIs, Shorter

LEMMA LogRolledBack ==
    ASSUME NamesInv, NEW name, Known(name)
    PROVE  NextLog(RolledBackTo(name), savepointCounter)
           /\ Len(RolledBackTo(name)) >= 1
<1>1. PICK k \in SavepointLevels : txSession.log[k].name = name
  BY DEF Known
<1>2. /\ RolledBackTo(name) \in Seq(LevelType) /\ Len(RolledBackTo(name)) = k
      /\ \A i \in 1 .. k : RolledBackTo(name)[i].name = txSession.log[i].name
  BY <1>1, RolledBackIs
<1>3. k \in 2 .. Len(txSession.log)
  BY <1>1 DEF SavepointLevels
<1>. QED
  BY <1>2, <1>3, LogIs, Shorter

LEMMA LogWritten ==
    ASSUME NamesInv, NEW w \in Writes, txSession.mode = "open"
    PROVE  LET log == txSession.log
               n == Len(log)
           IN  /\ NextLog(Written(w), savepointCounter) /\ Len(Written(w)) = n
                  /\ n >= 1
               /\ \A i \in 1 .. n : Written(w)[i].name = log[i].name
               /\ \A i \in 1 .. n - 1 : Written(w)[i] = log[i]
               /\ Written(w)[n].writes = log[n].writes \cup {w}
<1>. DEFINE log == txSession.log
            n == Len(log)
            x == [log[n] EXCEPT !.writes = log[n].writes \cup {w}]
<1>1. log \in Seq(LevelType) /\ n \in 1 .. n /\ n \in Nat
  BY LogIs DEF NamesInv, LogInv, TxTypeOK
<1>2. log[n] \in LevelType
  BY <1>1
<1>3. x \in LevelType /\ x.name = log[n].name /\ x.writes = log[n].writes \cup {w}
  BY <1>2 DEF LevelType
<1>4. Written(w) = [log EXCEPT ![n] = x]
  BY DEF Written
<1>. HIDE DEF x
<1>5. LET p == [log EXCEPT ![n] = x]
      IN  /\ p \in Seq(LevelType) /\ Len(p) = n /\ p[n] = x
          /\ \A i \in 1 .. n : i # n => p[i] = log[i]
  BY <1>1, <1>3, Replaced
<1>6. /\ Written(w) \in Seq(LevelType) /\ Len(Written(w)) = n
      /\ \A i \in 1 .. n : Written(w)[i].name = log[i].name
      /\ \A i \in 1 .. n - 1 : Written(w)[i] = log[i]
      /\ Written(w)[n].writes = log[n].writes \cup {w}
  BY <1>1, <1>3, <1>4, <1>5
<1>7. NextLog(Written(w), savepointCounter)
  BY <1>1, <1>6, Shorter
<1>. QED
  BY <1>1, <1>6, <1>7

LEMMA LogMarked ==
    ASSUME NamesInv, savepointCounter < MaxSavepoints
    PROVE  LET log == txSession.log
               name == savepointCounter + 1
               new == Append(log, Level(name))
           IN  /\ NextLog(new, name) /\ Len(new) = Len(log) + 1
               /\ \A i \in 1 .. Len(log) : new[i] = log[i]
               /\ new[Len(log) + 1].name = name /\ new[Len(log) + 1].writes = {}
<1>. DEFINE log == txSession.log
            name == savepointCounter + 1
            new == Append(log, Level(name))
<1>1. log \in Seq(LevelType) /\ Len(log) \in Nat
  BY LogIs DEF NamesInv, TxTypeOK
<1>2. Level(name) \in LevelType /\ Level(name).name = name
      /\ Level(name).writes = {}
  BY LogIs DEF Level, LevelType, NamesInv, SavepointsAssumptions
<1>3. /\ new \in Seq(LevelType) /\ Len(new) = Len(log) + 1
         /\ new[Len(log) + 1] = Level(name)
      /\ \A i \in 1 .. Len(log) : new[i] = log[i]
  BY <1>1, <1>2, Appended
<1>. HIDE DEF new
<1>4. \A i \in 1 .. Len(new) :
        /\ i = Len(log) + 1 => new[i].name = name
        /\ i # Len(log) + 1 => i \in 1 .. Len(log) /\ new[i].name = log[i].name
                               /\ log[i].name \in Nat /\ log[i].name <= savepointCounter
  BY <1>1, <1>2, <1>3, LogIs DEF NextLog
<1>5. \A i, j \in 1 .. Len(new) : i < j => new[i].name < new[j].name
  <2>1. SUFFICES ASSUME NEW i \in 1 .. Len(new), NEW j \in 1 .. Len(new), i < j
                 PROVE  new[i].name < new[j].name
    OBVIOUS
  <2>2. i # Len(log) + 1
    BY <1>1, <1>3, <2>1
  <2>3. CASE j = Len(log) + 1
    BY <1>4, <2>2, <2>3, LogIs
  <2>4. CASE j # Len(log) + 1
    <3>1. i \in 1 .. Len(log) /\ j \in 1 .. Len(log)
      BY <1>4, <2>2, <2>4
    <3>2. log[i].name < log[j].name
      BY <2>1, <3>1, LogIs DEF NextLog, Rising
    <3>. QED
      BY <1>4, <2>2, <2>4, <3>2
  <2>. QED
    BY <2>3, <2>4
<1>6. \A i \in 1 .. Len(new) : new[i].name <= name
  BY <1>4, LogIs
<1>7. NextLog(new, name)
  BY <1>3, <1>5, <1>6 DEF NextLog, Rising
<1>. QED
  BY <1>2, <1>3, <1>7 DEF new

-----------------------------------------------------------------------------
\* The session after a step, and the stacks and strands.
SessionOK ==
    /\ txSession' \in SessionType
    /\ txSession'.mode \in {"open", "aborted"} => Len(txSession'.log) >= 1
    /\ NextLog(txSession'.log, savepointCounter')

FramesOK ==
    /\ frames' \in [Strands -> Seq(FrameType)]
    /\ \A s \in Strands : StackType(frames'[s])
    /\ strand' \in [Strands -> {"running", "fulfilled", "rejected"}]

LEMMA SessionSet ==
    ASSUME NEW mode \in Modes, NEW log, NextLog(log, savepointCounter'),
           mode \in {"open", "aborted"} => Len(log) >= 1, SetSession(mode, log)
    PROVE  SessionOK
  BY DEF SetSession, SessionOK, SessionType, Modes, NextLog, Modes

LEMMA SessionLeft ==
    ASSUME NamesInv, UNCHANGED savepointCounter,
           txSession' \in {txSession,
           Refused} \cup {AfterError(err) : err \in ErrorKinds}
    PROVE  SessionOK
<1>1. txSession \in SessionType
  BY DEF NamesInv, TxTypeOK, SessionType, Modes
<1>2. /\ txSession' \in SessionType
      /\ \/ /\ txSession'.log = txSession.log
            /\ \/ txSession'.mode = txSession.mode
               \/ txSession.mode = "open" /\ txSession'.mode = "aborted"
         \/ txSession'.log = <<>> /\ txSession'.mode \in {"none", "dead"}
  BY <1>1, LogAfterError DEF SessionType, Modes
<1>. QED
  BY <1>2, LogIs DEF SessionOK, NamesInv, LogInv

LEMMA FramesSet ==
    ASSUME NamesInv, NEW s \in Strands, NEW fs, StackType(fs),
           frames' = [frames EXCEPT ![s] = fs],
           strand' \in [Strands -> {"running", "fulfilled", "rejected"}]
    PROVE  FramesOK /\ frames'[s] = fs
<1>1. frames \in [Strands -> Seq(FrameType)] /\ fs \in Seq(FrameType)
  BY DEF NamesInv, TxTypeOK, StackType
<1>2. \A u \in Strands : StackType(frames[u])
  BY Stacks
<1>. QED
  BY <1>1, <1>2 DEF FramesOK

LEMMA FramesThrown ==
    ASSUME NamesInv, NEW s \in Strands, NEW fs, StackType(fs), NEW err \in ErrorKinds,
           NEW mayCatch \in BOOLEAN, Throw(s, fs, err, mayCatch)
    PROVE  FramesOK
<1>1. \A u \in Strands : StackType(frames[u])
  BY Stacks
<1>. QED
  BY <1>1, ThrowIs DEF FramesOK, Thrown

LEMMA FramesLeft ==
    ASSUME NamesInv, UNCHANGED frames, strand' \in [Strands -> {"running", "fulfilled", "rejected"}]
    PROVE  FramesOK
<1>1. \A u \in Strands : StackType(frames[u])
  BY Stacks
<1>. QED
  BY <1>1 DEF FramesOK, NamesInv, TxTypeOK

LEMMA NamesKept ==
    ASSUME NamesInv, SessionOK, FramesOK, txDurable' \subseteq Writes,
           savepointCounter' \in 0 .. MaxSavepoints,
           UNCHANGED txServer, tx' \in {"running", "fulfilled", "rejected"},
           written' \in [Strands -> 0 .. MaxWrites], txFaults' \in 0 .. MaxTxFaults
    PROVE  NamesInv'
<1>1. TxTypeOK'
  BY DEF NamesInv, TxTypeOK, SessionOK, FramesOK, StackType, SessionType, Modes
<1>. QED
  BY <1>1 DEF NamesInv, LogInv, SessionOK, NextLog, SavepointsAssumptions, SessionType, Modes

-----------------------------------------------------------------------------
(***************************************************************************)
(* Every step, of any number of strands, keeps the types and the names.    *)
(***************************************************************************)
LEMMA NamesWrite ==
    ASSUME NamesInv, NEW s \in Strands, Write(s)
    PROVE  NamesInv'
<1>. DEFINE w == <<s, written[s]>>
            fs == frames[s]
            f == CountOn(Top(fs), {w})
<1>1. written \in [Strands -> 0 .. MaxWrites] /\ written[s] < MaxWrites /\ MaxWrites \in Nat
      /\ written' = [written EXCEPT ![s] = @ + 1]
  BY DEF NamesInv, TxTypeOK, SavepointsAssumptions, Write
<1>2. w \in Writes
  BY <1>1 DEF Writes
<1>3. written' \in [Strands -> 0 .. MaxWrites]
  BY <1>1
<1>4. CASE txSession.mode \in {"open", "none"}
  <2>1. Top(fs) \in FrameType /\ StackType(fs)
    BY Stacks
  <2>2. f \in FrameType /\ f.phase = "body"
    BY <1>2, <2>1 DEF FrameType, CountOn, Write, InBody
  <2>3. StackType(SetTop(fs, f))
    BY <2>1, <2>2, OnTop DEF NamesInv
  <2>4. /\ frames' = [frames EXCEPT ![s] = SetTop(fs, f)] /\ UNCHANGED strand
        /\ UNCHANGED <<txServer, savepointCounter, tx, txFaults>>
    <3>1. UNCHANGED strand /\ UNCHANGED <<txServer, savepointCounter, tx, txFaults>>
      BY <1>4 DEF Write
    <3>2. frames' = [frames EXCEPT ![s] = SetTop(fs, f)]
      BY <1>4 DEF Write
    <3>. QED
      BY <3>1, <3>2
  <2>. HIDE DEF f, fs
  <2>5. FramesOK
    BY <2>3, <2>4, FramesSet DEF NamesInv, TxTypeOK
  <2>. HIDE DEF w
  <2>6. CASE txSession.mode = "open"
    <3>1. SetSession("open", Written(w)) /\ UNCHANGED txDurable
      BY <2>6 DEF Write, w
    <3>2. SessionOK
      BY <1>2, <2>4, <2>6, <3>1, LogWritten, SessionSet DEF Modes
    <3>. QED
      BY <1>3, <2>4, <2>5, <3>1, <3>2, NamesKept DEF NamesInv, TxTypeOK
  <2>7. CASE txSession.mode = "none"
    <3>1. UNCHANGED txSession /\ txDurable' = txDurable \cup {w}
      BY <2>7 DEF Write, w
    <3>2. SessionOK
      BY <2>4, <3>1, SessionLeft
    <3>. QED
      BY <1>2, <1>3, <2>4, <2>5, <3>1, <3>2, NamesKept DEF NamesInv, TxTypeOK
  <2>. QED
    BY <1>4, <2>6, <2>7
<1>5. CASE txSession.mode \notin {"open", "none"}
  <2>1. /\ Throw(s, frames[s], "error", SwallowsErrors)
        /\ UNCHANGED <<txSession, txDurable, txServer, savepointCounter, tx, txFaults>>
    BY <1>5 DEF Write
  <2>2. FramesOK
    BY <2>1, Stacks, FramesThrown DEF ErrorKinds, NamesInv, SavepointsAssumptions
  <2>3. SessionOK
    BY <2>1, SessionLeft
  <2>. QED
    BY <1>3, <2>1, <2>2, <2>3, NamesKept DEF NamesInv, TxTypeOK
<1>. QED
  BY <1>4, <1>5

LEMMA NamesFails ==
    ASSUME NamesInv, NEW s \in Strands, StatementFails(s)
    PROVE  NamesInv'
<1>1. PICK err \in {"error", "conflict", "lost"} :
        txSession' = AfterError(err) /\ Throw(s, frames[s], err, SwallowsErrors)
  BY DEF StatementFails
<1>2. FramesOK
  BY <1>1, Stacks, FramesThrown DEF ErrorKinds, NamesInv, SavepointsAssumptions
<1>3. SessionOK
  BY <1>1, SessionLeft DEF StatementFails, ErrorKinds
<1>4. txFaults' \in 0 .. MaxTxFaults
  BY DEF StatementFails, NamesInv, TxTypeOK, SavepointsAssumptions
<1>. QED
  BY <1>2, <1>3, <1>4, NamesKept DEF StatementFails, NamesInv, TxTypeOK

LEMMA NamesThrows ==
    ASSUME NamesInv, NEW s \in Strands, CodeThrows(s)
    PROVE  NamesInv'
<1>1. Throw(s, frames[s], "error", FALSE)
  BY DEF CodeThrows
<1>2. FramesOK
  BY <1>1, Stacks, FramesThrown DEF ErrorKinds
<1>3. SessionOK
  BY SessionLeft DEF CodeThrows
<1>. QED
  BY <1>2, <1>3, NamesKept DEF CodeThrows, NamesInv, TxTypeOK

LEMMA NamesBegin ==
    ASSUME NamesInv, NEW s \in Strands, NestedBegin(s)
    PROVE  NamesInv'
<1>. DEFINE name == savepointCounter + 1
<1>1. /\ savepointCounter < MaxSavepoints /\ savepointCounter' = name
      /\ name \in 0 .. MaxSavepoints /\ savepointCounter \in Nat
      /\ UNCHANGED <<txServer, txDurable, tx, written, txFaults>>
  BY DEF NestedBegin, NamesInv, TxTypeOK, SavepointsAssumptions
<1>2. SessionOK
  <2>1. CASE txSession.mode = "open"
    <3>. DEFINE new == Append(txSession.log, Level(name))
    <3>1. SetSession("open", new)
      BY <2>1 DEF NestedBegin
    <3>2. NextLog(new, savepointCounter') /\ Len(new) = Len(txSession.log) + 1
      BY <1>1, LogMarked
    <3>3. Len(new) >= 1
      BY <3>2, LogIs
    <3>. HIDE DEF name, new
    <3>. QED
      BY <3>1, <3>2, <3>3, SessionSet DEF Modes
  <2>2. CASE txSession.mode # "open"
    <3>1. UNCHANGED txSession
      BY <2>2 DEF NestedBegin
    <3>2. NextLog(txSession.log, savepointCounter')
      BY <1>1, LogIs DEF NextLog
    <3>. QED
      BY <3>1, <3>2 DEF SessionOK, SessionType, Modes, NamesInv, TxTypeOK, LogInv
  <2>. QED
    BY <2>1, <2>2
<1>3. FramesOK
  <2>1. CASE frames' = [frames EXCEPT ![s] = Append(@, Frame(name))] /\ UNCHANGED strand
    <3>1. StackType(Append(frames[s], Frame(name)))
      BY <1>1, Stacks, Entered DEF NestedBegin, NamesInv
    <3>2. frames' = [frames EXCEPT ![s] = Append(frames[s], Frame(name))]
      BY <2>1
    <3>. HIDE DEF name
    <3>. QED
      BY <2>1, <3>1, <3>2, FramesSet DEF NamesInv, TxTypeOK
  <2>2. CASE Throw(s, frames[s], "error", MayCatchNested("error"))
    BY <2>2, Stacks, FramesThrown DEF ErrorKinds, MayCatchNested
  <2>. QED
    BY <2>1, <2>2 DEF NestedBegin
<1>. QED
  BY <1>1, <1>2, <1>3, NamesKept DEF NamesInv, TxTypeOK

LEMMA NamesReturn ==
    ASSUME NamesInv, NEW s \in Strands, NestedReturn(s)
    PROVE  NamesInv'
<1>. DEFINE fs == frames[s]
            top == Top(fs)
            below == Pop(fs)
            f == CountOn(Top(below), top.kept)
            g == [top EXCEPT !.phase = "undo", !.error = "error"]
<1>1. top \in FrameType /\ StackType(fs) /\ Len(fs) > 1
      /\ UNCHANGED <<txServer, txDurable, savepointCounter, strand, tx, written, txFaults>>
  BY Stacks DEF NestedReturn
<1>2. CASE txSession.mode = "open" /\ Known(top.name)
  <2>1. SetSession("open", Released(top.name))
        /\ frames' = [frames EXCEPT ![s] = SetTop(below, f)]
    BY <1>2 DEF NestedReturn
  <2>2. SessionOK
    BY <1>1, <1>2, <2>1, LogReleased, SessionSet DEF Modes
  <2>3. StackType(below) /\ Len(below) = Len(fs) - 1 /\ Len(fs) \in Nat
    <3>1. StackType(below) /\ Len(below) = Len(fs) - 1
      BY <1>1, Popped DEF NamesInv
    <3>2. Len(fs) \in Nat
      BY <1>1 DEF NamesInv, StackType, SavepointsAssumptions
    <3>. QED
      BY <3>1, <3>2
  <2>4. Top(below) \in FrameType
    BY <2>3 DEF StackType, Top
  <2>5. f \in FrameType /\ f.phase = Top(below).phase
    BY <1>1, <2>4 DEF FrameType, CountOn
  <2>6. f.phase = "body" \/ Len(below) > 1
    BY <1>1, <2>3, <2>5 DEF StackType, Top
  <2>. HIDE DEF f, below
  <2>7. StackType(SetTop(below, f))
    BY <2>3, <2>5, <2>6, OnTop DEF NamesInv
  <2>8. FramesOK
    BY <1>1, <2>1, <2>7, FramesSet DEF NamesInv, TxTypeOK
  <2>. QED
    BY <1>1, <2>2, <2>8, NamesKept DEF NamesInv, TxTypeOK
<1>3. CASE ~(txSession.mode = "open" /\ Known(top.name))
  <2>1. txSession' = Refused /\ frames' = [frames EXCEPT ![s] = SetTop(fs, g)]
    BY <1>3 DEF NestedReturn
  <2>2. SessionOK
    BY <1>1, <2>1, SessionLeft
  <2>3. g \in FrameType
    BY <1>1 DEF FrameType
  <2>. HIDE DEF g, fs
  <2>4. StackType(SetTop(fs, g))
    BY <1>1, <2>3, OnTop DEF NamesInv
  <2>5. FramesOK
    BY <1>1, <2>1, <2>4, FramesSet DEF NamesInv, TxTypeOK, fs
  <2>. QED
    BY <1>1, <2>2, <2>5, NamesKept DEF NamesInv, TxTypeOK
<1>. QED
  BY <1>2, <1>3

\* A stack whose top call is unwinding has a caller below.
LEMMA Caller ==
    ASSUME NamesInv, NEW s \in Strands, Top(frames[s]).phase # "body"
    PROVE  /\ Len(frames[s]) > 1 /\ StackType(Pop(frames[s]))
           /\ Top(frames[s]).error \in ErrorKinds
           /\ \A err \in ErrorKinds : MayCatchNested(err) \in BOOLEAN
<1>1. StackType(frames[s]) /\ Top(frames[s]) \in FrameType
  BY Stacks
<1>2. Len(frames[s]) > 1
  BY <1>1 DEF StackType, Top
<1>. QED
  BY <1>1, <1>2, Popped DEF NamesInv, SavepointsAssumptions, MayCatchNested,
     FrameType, ErrorKinds

LEMMA NamesUndo ==
    ASSUME NamesInv, NEW s \in Strands, NestedUndo(s)
    PROVE  NamesInv'
<1>. DEFINE fs == frames[s]
            top == Top(fs)
            f == [top EXCEPT !.phase = "drop", !.kept = {}]
<1>1. /\ top \in FrameType /\ StackType(fs) /\ Len(fs) > 1 /\ StackType(Pop(fs))
      /\ top.error \in ErrorKinds /\ MayCatchNested(top.error) \in BOOLEAN
      /\ UNCHANGED <<txServer, txDurable, savepointCounter, tx, written, txFaults>>
  BY Stacks, Caller DEF NestedUndo
<1>2. CASE txSession.mode \in {"open", "aborted"} /\ Known(top.name)
  <2>1. /\ SetSession("open", RolledBackTo(top.name))
        /\ frames' = [frames EXCEPT ![s] = SetTop(fs, f)] /\ UNCHANGED strand
    BY <1>2 DEF NestedUndo
  <2>2. SessionOK
    BY <1>1, <1>2, <2>1, LogRolledBack, SessionSet DEF Modes
  <2>3. f \in FrameType
    BY <1>1 DEF FrameType
  <2>. HIDE DEF f, fs
  <2>4. StackType(SetTop(fs, f))
    BY <1>1, <2>3, OnTop DEF NamesInv
  <2>5. FramesOK
    BY <2>1, <2>4, FramesSet DEF NamesInv, TxTypeOK
  <2>. QED
    BY <1>1, <2>2, <2>5, NamesKept DEF NamesInv, TxTypeOK
<1>3. CASE ~(txSession.mode \in {"open", "aborted"} /\ Known(top.name))
  <2>1. /\ txSession' = Refused
        /\ Throw(s, Pop(fs), top.error, MayCatchNested(top.error))
    BY <1>3 DEF NestedUndo
  <2>2. SessionOK
    BY <1>1, <2>1, SessionLeft
  <2>3. FramesOK
    BY <1>1, <2>1, FramesThrown
  <2>. QED
    BY <1>1, <2>2, <2>3, NamesKept DEF NamesInv, TxTypeOK
<1>. QED
  BY <1>2, <1>3

LEMMA NamesDrop ==
    ASSUME NamesInv, NEW s \in Strands, NestedDrop(s)
    PROVE  NamesInv'
<1>. DEFINE fs == frames[s]
            top == Top(fs)
<1>1. /\ StackType(Pop(fs)) /\ top.error \in ErrorKinds
         /\ MayCatchNested(top.error) \in BOOLEAN
      /\ UNCHANGED <<txServer, txDurable, savepointCounter, tx, written, txFaults>>
  BY Caller DEF NestedDrop
<1>2. Throw(s, Pop(fs), top.error, MayCatchNested(top.error))
  BY DEF NestedDrop
<1>3. FramesOK
  BY <1>1, <1>2, FramesThrown
<1>4. SessionOK
  <2>1. CASE txSession.mode = "open" /\ Known(top.name)
    <3>1. SetSession("open", Released(top.name))
      BY <2>1 DEF NestedDrop
    <3>. QED
      BY <1>1, <2>1, <3>1, LogReleased, SessionSet DEF Modes
  <2>2. CASE txSession' = Refused
    BY <1>1, <2>2, SessionLeft
  <2>. QED
    BY <2>1, <2>2 DEF NestedDrop
<1>. QED
  BY <1>1, <1>3, <1>4, NamesKept DEF NamesInv, TxTypeOK

LEMMA NamesReturns ==
    ASSUME NamesInv, NEW s \in Strands, StrandReturns(s)
    PROVE  NamesInv'
<1>1. UNCHANGED <<txServer, txSession, txDurable, savepointCounter, frames, tx, written, txFaults>>
      /\ strand' \in [Strands -> {"running", "fulfilled", "rejected"}]
  BY DEF StrandReturns, NamesInv, TxTypeOK
<1>2. FramesOK /\ SessionOK
  BY <1>1, FramesLeft, SessionLeft
<1>. QED
  BY <1>1, <1>2, NamesKept DEF NamesInv, TxTypeOK

\* What an open transaction has written are writes.
LEMMA OpenWritesAreWrites ==
    ASSUME NamesInv
    PROVE  WritesIn(txSession.log) \subseteq Writes
<1>1. \A i \in 1 .. Len(txSession.log) : txSession.log[i].writes \subseteq Writes
  BY LogIs DEF LevelType
<1>. QED
  BY <1>1 DEF WritesIn, WritesFrom

LEMMA NamesSettles ==
    ASSUME NamesInv, TxCommit \/ TxRollback
    PROVE  NamesInv'
<1>1. /\ UNCHANGED <<txServer, savepointCounter, frames, strand, written, txFaults>>
      /\ tx' \in {"running", "fulfilled", "rejected"}
      /\ SetSession(IF txSession.mode = "dead" THEN "dead" ELSE "none", <<>>)
  BY DEF TxCommit, TxRollback
<1>2. txDurable' \subseteq Writes
  BY OpenWritesAreWrites DEF TxCommit, TxRollback, NamesInv, TxTypeOK
<1>3. SessionOK
  BY <1>1, LogIs, SessionSet DEF Modes
<1>4. FramesOK
  BY <1>1, FramesLeft DEF NamesInv, TxTypeOK
<1>. QED
  BY <1>1, <1>2, <1>3, <1>4, NamesKept DEF NamesInv, TxTypeOK

LEMMA NamesStep == NamesInv /\ [TxNext]_txVars => NamesInv'
<1>1. SUFFICES ASSUME NamesInv, [TxNext]_txVars PROVE NamesInv'
  OBVIOUS
<1>2. ASSUME NEW s \in Strands, StrandStep(s) PROVE NamesInv'
  BY <1>1, <1>2, NamesWrite, NamesFails, NamesThrows, NamesBegin, NamesReturn, NamesUndo,
     NamesDrop, NamesReturns DEF StrandStep
<1>3. CASE UNCHANGED txVars
  BY <1>1, <1>3 DEF txVars, NamesInv, TxTypeOK, LogInv, Rising,
     SavepointsAssumptions, LevelType, FrameType, Writes
<1>. QED
  BY <1>1, <1>2, <1>3, NamesSettles DEF TxNext, Finished

LEMMA NamesInit == SavepointsAssumptions /\ TxInit => NamesInv
<1>1. SUFFICES ASSUME SavepointsAssumptions, TxInit PROVE NamesInv
  OBVIOUS
<1>2. Level(Root) \in LevelType
      /\ Frame(Root) \in FrameType
         /\ Frame(Root).phase = "body"
      /\ Level(Root).name = 0
  BY <1>1 DEF Level, LevelType, Frame, FrameType, Root,
     SavepointsAssumptions
<1>3. /\ <<Level(Root)>> \in Seq(LevelType)
         /\ Len(<<Level(Root)>>) = 1
      /\ <<Frame(Root)>> \in Seq(FrameType)
         /\ Len(<<Frame(Root)>>) = 1
      /\ <<Level(Root)>>[1] = Level(Root)
         /\ <<Frame(Root)>>[1] = Frame(Root)
  BY <1>2
<1>4. TxTypeOK
  BY <1>1, <1>2, <1>3 DEF TxInit, TxTypeOK, SavepointsAssumptions
<1>5. LogInv
  BY <1>1, <1>2, <1>3 DEF TxInit, LogInv, Rising
<1>. QED
  BY <1>1, <1>4, <1>5 DEF NamesInv

-----------------------------------------------------------------------------
(***************************************************************************)
(* A sequential callback: one strand, which does not go on after a         *)
(* conflict inside a nested call or after a failed statement of its own.   *)
(***************************************************************************)
IsLone(s) == Strands = {s} /\ ~CatchesConflicts /\ ~SwallowsErrors

LoneInv(s) == NamesInv /\ IsLone(s) /\ StackInv(s) /\ OpenInv(s) /\ EffectMatchesOutcome

LEMMA Thrower ==
    ASSUME NEW s, LoneInv(s), strand[s] = "running", NEW fs, StackType(fs),
           \A i \in 1 .. Len(fs) : fs[i].phase = "body",
           NEW err \in ErrorKinds, NEW mayCatch \in BOOLEAN, Throw(s, fs, err, mayCatch)
    PROVE  /\ \A i \in 1 .. Len(frames'[s]) - 1 : frames'[s][i].phase = "body"
           /\ strand'[s] # "running" => Len(frames'[s]) = 1
           /\ Top(frames'[s]).phase # "drop"
           /\ mayCatch \/ Fallen(s, {err})'
           /\ \A log : Agrees(log, fs) => Agrees(log, frames'[s])
<1>1. s \in Strands
  BY DEF LoneInv, IsLone
<1>. DEFINE gs == frames'[s]
<1>2. /\ StackType(gs) /\ Len(gs) = Len(fs)
      /\ \A i \in 1 .. Len(fs) - 1 : gs[i] = fs[i]
      /\ gs[Len(fs)].name = fs[Len(fs)].name /\ gs[Len(fs)].kept = fs[Len(fs)].kept
      /\ \/ mayCatch /\ gs = fs /\ strand'[s] = strand[s]
         \/ Len(fs) > 1 /\ strand'[s] = strand[s] /\ Top(gs).phase = "undo"
            /\ Top(gs).error = err
         \/ Len(fs) = 1 /\ gs = fs /\ strand'[s] = "rejected"
  BY <1>1, ThrowIs DEF LoneInv, Thrown, Top
<1>3. Len(fs) \in Nat /\ Len(fs) >= 1
  BY DEF StackType, LoneInv, NamesInv, SavepointsAssumptions
<1>4. Fallen(s, {err})' <=>
        strand'[s] = "rejected" \/ (Top(gs).phase = "undo" /\ Top(gs).error = err)
  BY DEF Fallen
<1>5. \A i \in 1 .. Len(fs) : gs[i].name = fs[i].name /\ gs[i].kept = fs[i].kept
  BY <1>2, <1>3
<1>. HIDE DEF gs
<1>6. /\ \A i \in 1 .. Len(gs) - 1 : gs[i].phase = "body"
      /\ strand'[s] # "running" => Len(gs) = 1
      /\ Top(gs).phase # "drop"
      /\ mayCatch \/ Fallen(s, {err})'
  BY <1>2, <1>3, <1>4 DEF Top
<1>7. \A log : Agrees(log, fs) => Agrees(log, gs)
  BY <1>2, <1>5 DEF Agrees
<1>. QED
  BY <1>6, <1>7 DEF gs

\* The top call's savepoint is the last one.
LEMMA TopIsKnown ==
    ASSUME NamesInv, NEW fs, StackType(fs), Len(fs) > 1, Agrees(txSession.log, fs)
    PROVE  /\ Len(fs) \in SavepointLevels /\ Len(txSession.log) = Len(fs)
           /\ txSession.log[Len(fs)].name = Top(fs).name /\ Known(Top(fs).name)
<1>1. Len(fs) \in 1 .. Len(fs) /\ Len(txSession.log) = Len(fs)
      /\ Len(fs) \in 2 .. Len(txSession.log)
  BY DEF StackType, Agrees, SavepointsAssumptions, NamesInv
<1>. QED
  BY <1>1 DEF Agrees, Top, Known, SavepointLevels

LEMMA WriteAgrees ==
    ASSUME NamesInv, txSession.mode = "open", NEW fs, StackType(fs), Agrees(txSession.log, fs),
           NEW w \in Writes, Top(fs).phase = "body"
    PROVE  LET p == SetTop(fs, CountOn(Top(fs), {w}))
           IN  /\ Agrees(Written(w), p) /\ Len(p) = Len(fs) /\ Top(p).phase = "body"
               /\ \A i \in 1 .. Len(fs) - 1 : p[i] = fs[i]
<1>. DEFINE f == CountOn(Top(fs), {w})
            p == SetTop(fs, f)
            n == Len(fs)
<1>1. n \in 1 .. n /\ Len(txSession.log) = n /\ fs \in Seq(FrameType)
  BY DEF Agrees, StackType
<1>2. Top(fs) \in FrameType
  BY <1>1 DEF Top
<1>3. f \in FrameType /\ f.phase = "body" /\ f.name = fs[n].name
      /\ f.kept = fs[n].kept \cup {w}
  BY <1>2 DEF FrameType, CountOn, Top
<1>. HIDE DEF f
<1>4. Len(p) = n /\ p[n] = f /\ \A i \in 1 .. n - 1 : p[i] = fs[i]
  BY <1>3, OnTop DEF NamesInv, Top
<1>. HIDE DEF p
<1>5. /\ Len(Written(w)) = n
      /\ \A i \in 1 .. n : Written(w)[i].name = txSession.log[i].name
      /\ \A i \in 1 .. n - 1 : Written(w)[i] = txSession.log[i]
      /\ Written(w)[n].writes = txSession.log[n].writes \cup {w}
  BY <1>1, LogWritten
<1>6. \A i \in 1 .. n : txSession.log[i].name = fs[i].name /\ txSession.log[i].writes = fs[i].kept
  BY DEF Agrees
<1>7. n \in Nat
  BY DEF StackType, NamesInv, SavepointsAssumptions
<1>8. \A i \in 1 .. n : i = n \/ i \in 1 .. n - 1
  BY <1>7
<1>9. \A i \in 1 .. n : Written(w)[i].name = p[i].name
      /\ Written(w)[i].writes = p[i].kept
  BY <1>1, <1>3, <1>4, <1>5, <1>6, <1>8
<1>. QED
  BY <1>3, <1>4, <1>5, <1>9 DEF Agrees, Top, p, f

LEMMA BeginAgrees ==
    ASSUME NamesInv, savepointCounter < MaxSavepoints, NEW fs, StackType(fs), Len(fs) <= MaxDepth,
           Agrees(txSession.log, fs)
    PROVE  LET name == savepointCounter + 1
           IN  Agrees(Append(txSession.log, Level(name)), Append(fs, Frame(name)))
<1>. DEFINE name == savepointCounter + 1
            log == txSession.log
            p == Append(fs, Frame(name))
            new == Append(log, Level(name))
            n == Len(fs)
<1>1. name \in 0 .. MaxSavepoints /\ n \in Nat /\ Len(log) = n
  BY DEF NamesInv, TxTypeOK, SavepointsAssumptions, StackType, Agrees
<1>2. Len(p) = n + 1 /\ Top(p) = Frame(name) /\ \A i \in 1 .. n : p[i] = fs[i]
  BY <1>1, Entered DEF NamesInv
<1>3. Frame(name).name = name /\ Frame(name).kept = {}
  BY DEF Frame
<1>4. /\ Len(new) = n + 1 /\ new[n + 1].name = name /\ new[n + 1].writes = {}
      /\ \A i \in 1 .. n : new[i] = log[i]
  BY <1>1, LogMarked
<1>. HIDE DEF new, p, name, log
<1>5. \A i \in 1 .. n : log[i].name = fs[i].name /\ log[i].writes = fs[i].kept
  BY DEF Agrees, log
<1>6. \A i \in 1 .. n + 1 : i = n + 1 \/ i \in 1 .. n
  BY <1>1
<1>7. \A i \in 1 .. n + 1 : new[i].name = p[i].name /\ new[i].writes = p[i].kept
  BY <1>2, <1>3, <1>4, <1>5, <1>6 DEF Top
<1>8. Agrees(new, p)
  BY <1>2, <1>4, <1>7 DEF Agrees
<1>. QED
  BY <1>8 DEF new, p, name, log

LEMMA ReturnAgrees ==
    ASSUME NamesInv, NEW fs, StackType(fs), Len(fs) > 1, Agrees(txSession.log, fs),
           NEW below, below = Pop(fs), NEW p, StackType(p), Len(p) = Len(below),
           \A i \in 1 .. Len(below) - 1 : p[i] = below[i],
           Top(p).name = Top(below).name,
           Top(p).kept = Top(below).kept \cup Top(fs).kept
    PROVE  Agrees(Released(Top(fs).name), p)
<1>. DEFINE n == Len(fs)
            log == txSession.log
            new == Released(Top(fs).name)
<1>1. /\ n \in SavepointLevels /\ Len(log) = n /\ log[n].name = Top(fs).name
  BY TopIsKnown
<1>2. n \in Nat /\ n >= 2 /\ n \in 1 .. n
  BY DEF StackType, NamesInv, SavepointsAssumptions
<1>3. /\ Len(new) = n - 1
      /\ \A i \in 1 .. n - 1 : new[i].name = log[i].name
      /\ \A i \in 1 .. n - 2 : new[i] = log[i]
      /\ new[n - 1].writes = log[n - 1].writes \cup WritesFrom(log, n)
  BY <1>1, ReleasedIs
<1>4. WritesFrom(log, n) = log[n].writes
  BY <1>1, <1>2 DEF WritesFrom
<1>5. Len(below) = n - 1 /\ Top(below) = fs[n - 1] /\ \A i \in 1 .. n - 1 : below[i] = fs[i]
  BY Popped DEF NamesInv
<1>6. \A i \in 1 .. n : log[i].name = fs[i].name /\ log[i].writes = fs[i].kept
  BY DEF Agrees
<1>. HIDE DEF new, log, n
<1>7. \A i \in 1 .. n - 1 : /\ i \in 1 .. n
                            /\ i = n - 1 \/ (i \in 1 .. n - 2 /\ i \in 1 .. Len(below) - 1)
  BY <1>2, <1>5
<1>8. p[n - 1].name = fs[n - 1].name /\ p[n - 1].kept = fs[n - 1].kept \cup fs[n].kept
      /\ n - 1 \in 1 .. n
  BY <1>2, <1>5 DEF Top, n
<1>9. \A i \in 1 .. n - 1 : new[i].name = p[i].name /\ new[i].writes = p[i].kept
  <2>1. SUFFICES ASSUME NEW i \in 1 .. n - 1
                 PROVE  new[i].name = p[i].name /\ new[i].writes = p[i].kept
    OBVIOUS
  <2>2. i \in 1 .. n /\ log[i].name = fs[i].name /\ log[i].writes = fs[i].kept
    BY <1>6, <1>7
  <2>3. CASE i = n - 1
    <3>1. new[i].name = p[i].name
      BY <1>3, <1>8, <2>2, <2>3
    <3>2. log[n].writes = fs[n].kept
      BY <1>2, <1>6
    <3>. QED
      BY <1>3, <1>4, <1>8, <2>2, <2>3, <3>1, <3>2
  <2>4. CASE i \in 1 .. n - 2 /\ i \in 1 .. Len(below) - 1
    BY <1>3, <1>5, <2>2, <2>4
  <2>. QED
    BY <1>7, <2>3, <2>4
<1>10. Agrees(new, p)
  BY <1>3, <1>5, <1>9 DEF Agrees
<1>. QED
  BY <1>10 DEF new

LEMMA UndoAgrees ==
    ASSUME NamesInv, NEW fs, StackType(fs), Len(fs) > 1, Agrees(txSession.log, fs),
           NEW p, StackType(p), Len(p) = Len(fs),
           \A i \in 1 .. Len(fs) - 1 : p[i] = fs[i],
           Top(p).name = Top(fs).name, Top(p).kept = {}
    PROVE  Agrees(RolledBackTo(Top(fs).name), p)
<1>. DEFINE n == Len(fs)
            log == txSession.log
            new == RolledBackTo(Top(fs).name)
<1>1. /\ n \in SavepointLevels /\ Len(log) = n /\ log[n].name = Top(fs).name
  BY TopIsKnown
<1>2. n \in Nat /\ n >= 2 /\ n \in 1 .. n
  BY DEF StackType, NamesInv, SavepointsAssumptions
<1>3. /\ Len(new) = n
      /\ \A i \in 1 .. n : new[i].name = log[i].name
      /\ \A i \in 1 .. n - 1 : new[i] = log[i]
      /\ new[n].writes = {}
  BY <1>1, RolledBackIs
<1>4. \A i \in 1 .. n : log[i].name = fs[i].name /\ log[i].writes = fs[i].kept
  BY DEF Agrees
<1>. HIDE DEF new, log
<1>5. \A i \in 1 .. n : i = n \/ i \in 1 .. n - 1
  BY <1>2
<1>6. \A i \in 1 .. n : new[i].name = p[i].name /\ new[i].writes = p[i].kept
  BY <1>2, <1>3, <1>4, <1>5 DEF Top
<1>7. Agrees(new, p)
  BY <1>3, <1>6 DEF Agrees
<1>. QED
  BY <1>7 DEF new

-----------------------------------------------------------------------------
\* What is known when a strand takes a step.
LEMMA Running ==
    ASSUME NEW s, LoneInv(s), strand[s] = "running"
    PROVE  /\ s \in Strands /\ tx = "running" /\ txDurable = {}
           /\ StackType(frames[s]) /\ Top(frames[s]) \in FrameType
           /\ Top(frames[s]) = frames[s][Len(frames[s])]
           /\ Len(frames[s]) \in Nat /\ Len(frames[s]) >= 1
           /\ txSession \in SessionType
<1>1. s \in Strands /\ NamesInv /\ tx = "running" /\ txDurable = {}
  BY DEF LoneInv, IsLone, StackInv, OpenInv
<1>. QED
  BY <1>1, Stacks DEF NamesInv, TxTypeOK, SessionType, Modes, StackType,
     SavepointsAssumptions, Top

\* In the body of a call the transaction is open or the connection is dead.
LEMMA InBodyIs ==
    ASSUME NEW s, LoneInv(s), InBody(s)
    PROVE  /\ txSession.mode \in {"open", "dead"}
           /\ txSession.mode = "open" => Agrees(txSession.log, frames[s])
           /\ \A i \in 1 .. Len(frames[s]) : frames[s][i].phase = "body"
<1>1. strand[s] = "running" /\ Top(frames[s]).phase = "body"
  BY DEF InBody
<1>2. txSession.mode \in {"open", "none", "aborted", "dead"} /\ tx = "running"
  BY <1>1, Running DEF SessionType, Modes
<1>3. ~Fallen(s, ErrorKinds) /\ ~Fallen(s, {"conflict"})
  BY <1>1 DEF Fallen
<1>4. \A i \in 1 .. Len(frames[s]) : i = Len(frames[s]) \/ i \in 1 .. Len(frames[s]) - 1
  BY <1>1, Running
<1>. QED
  BY <1>1, <1>2, <1>3, <1>4, Running DEF LoneInv, OpenInv, StackInv

LoneNext(s) == StackInv(s)' /\ OpenInv(s)' /\ EffectMatchesOutcome'

\* While the transaction runs, that is enough.
LEMMA LoneGoesOn ==
    ASSUME NEW s, tx' = "running", txDurable' = {},
           \A i \in 1 .. Len(frames'[s]) - 1 : frames'[s][i].phase = "body",
           strand'[s] # "running" => Len(frames'[s]) = 1,
           Top(frames'[s]).phase = "drop" =>
               Top(frames'[s]).kept = {} /\ txSession'.mode = "open",
           txSession'.mode \in {"open", "aborted"} => Agrees(txSession'.log, frames'[s]),
           txSession'.mode = "aborted" => Fallen(s, ErrorKinds)',
           txSession'.mode = "none" => Fallen(s, {"conflict"})'
    PROVE  LoneNext(s)
  BY DEF LoneNext, StackInv, OpenInv, EffectMatchesOutcome

LEMMA FallenAny ==
    ASSUME NEW s, NEW err \in ErrorKinds, Fallen(s, {err})'
    PROVE  Fallen(s, ErrorKinds)'
  BY DEF Fallen

LEMMA LoneWrite ==
    ASSUME NEW s, LoneInv(s), Write(s)
    PROVE  LoneNext(s)
<1>. DEFINE w == <<s, written[s]>>
            fs == frames[s]
<1>1. InBody(s) /\ strand[s] = "running" /\ Top(fs).phase = "body" /\ tx' = tx
  BY DEF Write, InBody
<1>2. /\ s \in Strands /\ tx = "running" /\ txDurable = {} /\ StackType(fs)
      /\ txSession.mode \in {"open", "dead"}
      /\ txSession.mode = "open" => Agrees(txSession.log, fs)
      /\ \A i \in 1 .. Len(fs) : fs[i].phase = "body"
      /\ Len(fs) \in Nat
  BY <1>1, Running, InBodyIs
<1>3. CASE txSession.mode = "open"
  <2>. DEFINE p == SetTop(fs, CountOn(Top(fs), {w}))
  <2>1. SetSession("open", Written(w)) /\ UNCHANGED txDurable /\ UNCHANGED strand
        /\ frames' = [frames EXCEPT ![s] = p]
    BY <1>3 DEF Write
  <2>2. w \in Writes
    BY <1>2 DEF Write, Writes, LoneInv, NamesInv, TxTypeOK, SavepointsAssumptions
  <2>3. /\ Agrees(Written(w), p) /\ Len(p) = Len(fs) /\ Top(p).phase = "body"
        /\ \A i \in 1 .. Len(fs) - 1 : p[i] = fs[i]
    BY <1>1, <1>2, <1>3, <2>2, WriteAgrees DEF LoneInv
  <2>. HIDE DEF p, w
  <2>4. frames'[s] = p
    BY <1>2, <2>1 DEF LoneInv, NamesInv, TxTypeOK
  <2>5. txSession'.mode = "open" /\ txSession'.log = Written(w)
    BY <2>1 DEF SetSession
  <2>6. \A i \in 1 .. Len(p) - 1 : p[i].phase = "body"
    BY <1>2, <2>3
  <2>. QED
    BY <1>1, <1>2, <2>1, <2>3, <2>4, <2>5, <2>6, LoneGoesOn
<1>4. CASE txSession.mode = "dead"
  <2>1. Throw(s, fs, "error", SwallowsErrors) /\ UNCHANGED <<txSession, txDurable>>
    BY <1>4 DEF Write
  <2>2. SwallowsErrors = FALSE
    BY DEF LoneInv, IsLone, NamesInv, SavepointsAssumptions
  <2>. QED
    BY <1>1, <1>2, <1>4, <2>1, <2>2, Thrower, LoneGoesOn DEF ErrorKinds
<1>. QED
  BY <1>2, <1>3, <1>4

LEMMA LoneFails ==
    ASSUME NEW s, LoneInv(s), StatementFails(s)
    PROVE  LoneNext(s)
<1>. DEFINE fs == frames[s]
<1>1. InBody(s) /\ strand[s] = "running" /\ tx' = tx /\ txSession.mode # "dead"
      /\ txDurable' = txDurable
  BY DEF StatementFails, InBody
<1>2. /\ s \in Strands /\ tx = "running" /\ txDurable = {} /\ StackType(fs)
      /\ txSession.mode = "open" /\ txSession \in SessionType
      /\ Agrees(txSession.log, fs)
      /\ \A i \in 1 .. Len(fs) : fs[i].phase = "body"
  BY <1>1, Running, InBodyIs
<1>3. SwallowsErrors = FALSE
  BY DEF LoneInv, IsLone, NamesInv, SavepointsAssumptions
<1>4. PICK err \in {"error", "conflict", "lost"} :
        txSession' = AfterError(err) /\ Throw(s, fs, err, SwallowsErrors)
  BY DEF StatementFails
<1>5. err \in ErrorKinds
  BY DEF ErrorKinds
<1>6. /\ \A i \in 1 .. Len(frames'[s]) - 1 : frames'[s][i].phase = "body"
      /\ strand'[s] # "running" => Len(frames'[s]) = 1
      /\ Top(frames'[s]).phase # "drop"
      /\ Fallen(s, {err})'
      /\ \A log : Agrees(log, fs) => Agrees(log, frames'[s])
  BY <1>1, <1>2, <1>3, <1>4, <1>5, Thrower
<1>7. /\ txSession'.mode \in {"open", "aborted"} => txSession'.log = txSession.log
      /\ txSession'.mode = "none" => err = "conflict"
  <2>1. CASE err = "lost"
    BY <1>4, <2>1 DEF AfterError
  <2>2. CASE err = "conflict" /\ txServer = "mysql"
    BY <1>4, <2>2 DEF AfterError
  <2>3. CASE txSession' = Refused
    BY <1>2, <2>3 DEF Refused, SessionType, Modes
  <2>. QED
    BY <1>4, <2>1, <2>2, <2>3 DEF AfterError
<1>. QED
  BY <1>1, <1>2, <1>5, <1>6, <1>7, FallenAny, LoneGoesOn

LEMMA LoneThrows ==
    ASSUME NEW s, LoneInv(s), CodeThrows(s)
    PROVE  LoneNext(s)
<1>. DEFINE fs == frames[s]
<1>1. InBody(s) /\ strand[s] = "running" /\ tx' = tx /\ UNCHANGED <<txSession, txDurable>>
      /\ Throw(s, fs, "error", FALSE)
  BY DEF CodeThrows, InBody
<1>2. /\ s \in Strands /\ tx = "running" /\ txDurable = {} /\ StackType(fs)
      /\ txSession.mode \in {"open", "dead"}
      /\ txSession.mode = "open" => Agrees(txSession.log, fs)
      /\ \A i \in 1 .. Len(fs) : fs[i].phase = "body"
  BY <1>1, Running, InBodyIs
<1>. QED
  BY <1>1, <1>2, Thrower, LoneGoesOn DEF ErrorKinds

LEMMA LoneBegin ==
    ASSUME NEW s, LoneInv(s), NestedBegin(s)
    PROVE  LoneNext(s)
<1>. DEFINE fs == frames[s]
            name == savepointCounter + 1
<1>1. /\ InBody(s) /\ strand[s] = "running" /\ tx' = tx /\ txDurable' = txDurable
      /\ Len(fs) <= MaxDepth /\ savepointCounter < MaxSavepoints
  BY DEF NestedBegin, InBody
<1>2. /\ s \in Strands /\ tx = "running" /\ txDurable = {} /\ StackType(fs)
      /\ txSession.mode \in {"open", "dead"}
      /\ txSession.mode = "open" => Agrees(txSession.log, fs)
      /\ \A i \in 1 .. Len(fs) : fs[i].phase = "body"
      /\ Len(fs) \in Nat
  BY <1>1, Running, InBodyIs
<1>3. CASE txSession.mode = "open"
  <2>. DEFINE p == Append(fs, Frame(name))
              new == Append(txSession.log, Level(name))
  <2>1. /\ SetSession("open", new) /\ frames' = [frames EXCEPT ![s] = p]
        /\ UNCHANGED strand
    BY <1>3 DEF NestedBegin
  <2>2. Agrees(new, p)
    BY <1>1, <1>2, <1>3, BeginAgrees DEF LoneInv
  <2>3. name \in 0 .. MaxSavepoints
    BY <1>1 DEF LoneInv, NamesInv, TxTypeOK, SavepointsAssumptions
  <2>4. Len(p) = Len(fs) + 1 /\ Top(p).phase = "body" /\ \A i \in 1 .. Len(fs) : p[i] = fs[i]
    BY <1>1, <1>2, <2>3, Entered DEF LoneInv, NamesInv, Frame
  <2>. HIDE DEF p, new, name
  <2>5. frames'[s] = p
    BY <1>2, <2>1 DEF LoneInv, NamesInv, TxTypeOK
  <2>6. txSession'.mode = "open" /\ txSession'.log = new
    BY <2>1 DEF SetSession
  <2>7. \A i \in 1 .. Len(p) - 1 : p[i].phase = "body"
    BY <1>2, <2>4
  <2>. QED
    BY <1>1, <1>2, <2>1, <2>2, <2>4, <2>5, <2>6, <2>7, LoneGoesOn
<1>4. CASE txSession.mode = "dead"
  <2>1. Throw(s, fs, "error", MayCatchNested("error")) /\ UNCHANGED txSession
    BY <1>4 DEF NestedBegin
  <2>2. MayCatchNested("error") \in BOOLEAN
    BY DEF MayCatchNested, LoneInv, NamesInv, SavepointsAssumptions
  <2>. QED
    BY <1>1, <1>2, <1>4, <2>1, <2>2, Thrower, LoneGoesOn DEF ErrorKinds
<1>. QED
  BY <1>2, <1>3, <1>4

LEMMA LoneReturn ==
    ASSUME NEW s, LoneInv(s), NestedReturn(s)
    PROVE  LoneNext(s)
<1>. DEFINE fs == frames[s]
            top == Top(fs)
            below == Pop(fs)
            f == CountOn(Top(below), top.kept)
            g == [top EXCEPT !.phase = "undo", !.error = "error"]
<1>1. /\ InBody(s) /\ strand[s] = "running" /\ Len(fs) > 1
      /\ UNCHANGED <<txDurable, strand, tx>>
  BY DEF NestedReturn, InBody
<1>2. /\ s \in Strands /\ tx = "running" /\ txDurable = {} /\ StackType(fs)
         /\ top \in FrameType
      /\ txSession.mode \in {"open", "dead"} /\ txSession \in SessionType
      /\ txSession.mode = "open" => Agrees(txSession.log, fs)
      /\ \A i \in 1 .. Len(fs) : fs[i].phase = "body"
      /\ Len(fs) \in Nat
  BY <1>1, Running, InBodyIs
<1>3. CASE txSession.mode = "open"
  <2>1. Known(top.name)
    BY <1>1, <1>2, <1>3, TopIsKnown DEF LoneInv
  <2>2. SetSession("open", Released(top.name))
        /\ frames' = [frames EXCEPT ![s] = SetTop(below, f)]
    BY <1>3, <2>1 DEF NestedReturn
  <2>3. /\ StackType(below) /\ Len(below) = Len(fs) - 1 /\ Top(below) = fs[Len(fs) - 1]
        /\ \A i \in 1 .. Len(fs) - 1 : below[i] = fs[i]
    BY <1>1, <1>2, Popped DEF LoneInv, NamesInv
  <2>4. Top(below) \in FrameType /\ Top(below).phase = "body"
    BY <1>1, <1>2, <2>3 DEF StackType, Top
  <2>5. /\ f \in FrameType /\ f.phase = "body" /\ f.name = Top(below).name
        /\ f.kept = Top(below).kept \cup top.kept
    BY <1>2, <2>4 DEF FrameType, CountOn
  <2>. DEFINE p == SetTop(below, f)
  <2>. HIDE DEF f
  <2>6. /\ StackType(p) /\ Len(p) = Len(below) /\ Top(p) = f
        /\ \A i \in 1 .. Len(below) - 1 : p[i] = below[i]
    BY <2>3, <2>5, OnTop DEF LoneInv, NamesInv
  <2>. HIDE DEF p
  <2>7. Agrees(Released(top.name), p)
    BY <1>1, <1>2, <1>3, <2>3, <2>5, <2>6, ReturnAgrees DEF LoneInv
  <2>8. frames'[s] = p
    BY <1>2, <2>2 DEF LoneInv, NamesInv, TxTypeOK, p
  <2>9. txSession'.mode = "open" /\ txSession'.log = Released(top.name)
    BY <2>2 DEF SetSession
  <2>10. \A i \in 1 .. Len(p) - 1 : p[i].phase = "body"
    <3>1. SUFFICES ASSUME NEW i \in 1 .. Len(p) - 1 PROVE p[i].phase = "body"
      OBVIOUS
    <3>2. i \in 1 .. Len(below) - 1 /\ i \in 1 .. Len(fs) - 1 /\ i \in 1 .. Len(fs)
      BY <1>2, <2>3, <2>6
    <3>. QED
      BY <1>2, <2>3, <2>6, <3>2
  <2>11. Top(p).phase = "body"
    BY <2>5, <2>6
  <2>. QED
    BY <1>1, <1>2, <2>7, <2>8, <2>9, <2>10, <2>11, LoneGoesOn
<1>4. CASE txSession.mode = "dead"
  <2>1. txSession' = txSession /\ frames' = [frames EXCEPT ![s] = SetTop(fs, g)]
    BY <1>4 DEF NestedReturn, Refused
  <2>2. g \in FrameType /\ g.phase = "undo"
    BY <1>2 DEF FrameType
  <2>. DEFINE p == SetTop(fs, g)
  <2>. HIDE DEF g
  <2>3. Len(p) = Len(fs) /\ Top(p) = g /\ \A i \in 1 .. Len(fs) - 1 : p[i] = fs[i]
    BY <1>1, <1>2, <2>2, OnTop DEF LoneInv, NamesInv
  <2>. HIDE DEF p
  <2>4. frames'[s] = p
    BY <1>2, <2>1 DEF LoneInv, NamesInv, TxTypeOK, p
  <2>5. \A i \in 1 .. Len(p) - 1 : p[i].phase = "body"
    BY <1>2, <2>3
  <2>. QED
    BY <1>1, <1>2, <1>4, <2>1, <2>2, <2>3, <2>4, <2>5, LoneGoesOn
<1>. QED
  BY <1>2, <1>3, <1>4

\* What is known when a nested call unwinds.
LEMMA UnwindsIs ==
    ASSUME NEW s, LoneInv(s), strand[s] = "running", Top(frames[s]).phase # "body"
    PROVE  /\ Len(frames[s]) > 1 /\ StackType(Pop(frames[s]))
           /\ Len(Pop(frames[s])) = Len(frames[s]) - 1
           /\ Top(Pop(frames[s])) = frames[s][Len(frames[s]) - 1]
           /\ \A i \in 1 .. Len(Pop(frames[s])) :
                Pop(frames[s])[i] = frames[s][i] /\ Pop(frames[s])[i].phase = "body"
           /\ Top(frames[s]).error \in ErrorKinds
           /\ MayCatchNested(Top(frames[s]).error) = (Top(frames[s]).error # "conflict")
           /\ txSession.mode \in {"open", "aborted"} =>
                Agrees(txSession.log, frames[s]) /\ Known(Top(frames[s]).name)
<1>1. s \in Strands /\ tx = "running" /\ StackType(frames[s])
  BY Running
<1>2. /\ Len(frames[s]) > 1 /\ StackType(Pop(frames[s]))
      /\ Top(frames[s]).error \in ErrorKinds
      /\ MayCatchNested(Top(frames[s]).error) = (Top(frames[s]).error # "conflict")
  BY <1>1, Caller DEF LoneInv, IsLone, NamesInv, SavepointsAssumptions, MayCatchNested
<1>3. /\ Len(Pop(frames[s])) = Len(frames[s]) - 1
      /\ Top(Pop(frames[s])) = frames[s][Len(frames[s]) - 1]
      /\ \A i \in 1 .. Len(frames[s]) - 1 : Pop(frames[s])[i] = frames[s][i]
  BY <1>1, <1>2, Popped DEF LoneInv, NamesInv
<1>4. \A i \in 1 .. Len(frames[s]) - 1 : frames[s][i].phase = "body"
  BY DEF LoneInv, StackInv
<1>5. txSession.mode \in {"open", "aborted"} => Agrees(txSession.log, frames[s])
  BY <1>1 DEF LoneInv, OpenInv
<1>. QED
  BY <1>1, <1>2, <1>3, <1>4, <1>5, TopIsKnown DEF LoneInv

LEMMA LoneUndo ==
    ASSUME NEW s, LoneInv(s), NestedUndo(s)
    PROVE  LoneNext(s)
<1>. DEFINE fs == frames[s]
            top == Top(fs)
            f == [top EXCEPT !.phase = "drop", !.kept = {}]
<1>1. strand[s] = "running" /\ top.phase = "undo" /\ UNCHANGED <<txDurable, tx>>
  BY DEF NestedUndo
<1>2. /\ s \in Strands /\ tx = "running" /\ txDurable = {} /\ StackType(fs)
         /\ top \in FrameType
      /\ Len(fs) \in Nat /\ txSession \in SessionType
  BY <1>1, Running
<1>3. /\ Len(fs) > 1 /\ StackType(Pop(fs))
      /\ \A i \in 1 .. Len(Pop(fs)) : Pop(fs)[i].phase = "body"
      /\ top.error \in ErrorKinds
      /\ MayCatchNested(top.error) = (top.error # "conflict")
      /\ txSession.mode \in {"open", "aborted"} => Agrees(txSession.log, fs)
         /\ Known(top.name)
  BY <1>1, UnwindsIs
<1>4. CASE txSession.mode \in {"open", "aborted"}
  <2>1. /\ SetSession("open", RolledBackTo(top.name))
        /\ frames' = [frames EXCEPT ![s] = SetTop(fs, f)] /\ UNCHANGED strand
    BY <1>3, <1>4 DEF NestedUndo
  <2>2. f \in FrameType /\ f.phase = "drop" /\ f.kept = {} /\ f.name = top.name
    BY <1>2 DEF FrameType
  <2>. DEFINE p == SetTop(fs, f)
  <2>. HIDE DEF f
  <2>3. /\ StackType(p) /\ Len(p) = Len(fs) /\ Top(p) = f
        /\ \A i \in 1 .. Len(fs) - 1 : p[i] = fs[i]
    BY <1>2, <1>3, <2>2, OnTop DEF LoneInv, NamesInv
  <2>. HIDE DEF p
  <2>4. Agrees(RolledBackTo(top.name), p)
    BY <1>2, <1>3, <1>4, <2>2, <2>3, UndoAgrees DEF LoneInv
  <2>5. frames'[s] = p
    BY <1>2, <2>1 DEF LoneInv, NamesInv, TxTypeOK, p
  <2>6. txSession'.mode = "open" /\ txSession'.log = RolledBackTo(top.name)
    BY <2>1 DEF SetSession
  <2>7. \A i \in 1 .. Len(p) - 1 : p[i].phase = "body"
    BY <2>3 DEF LoneInv, StackInv
  <2>8. strand[s] = "running" /\ strand' = strand
    BY <1>1, <2>1
  <2>. QED
    BY <1>1, <1>2, <2>2, <2>3, <2>4, <2>5, <2>6, <2>7, <2>8, LoneGoesOn
<1>5. CASE txSession.mode \in {"none", "dead"}
  <2>1. /\ txSession' = txSession
        /\ Throw(s, Pop(fs), top.error, MayCatchNested(top.error))
    BY <1>5 DEF NestedUndo, Refused
  <2>2. /\ \A i \in 1 .. Len(frames'[s]) - 1 : frames'[s][i].phase = "body"
        /\ strand'[s] # "running" => Len(frames'[s]) = 1
        /\ Top(frames'[s]).phase # "drop"
        /\ top.error = "conflict" => Fallen(s, {"conflict"})'
    <3>1. CASE top.error = "conflict"
      <4>1. Throw(s, Pop(fs), "conflict", FALSE)
        BY <1>3, <2>1, <3>1
      <4>. QED
        BY <1>1, <1>3, <3>1, <4>1, Thrower DEF ErrorKinds
    <3>2. CASE top.error # "conflict"
      <4>1. Throw(s, Pop(fs), top.error, TRUE)
        BY <1>3, <2>1, <3>2
      <4>. QED
        BY <1>1, <1>3, <3>2, <4>1, Thrower
    <3>. QED
      BY <3>1, <3>2
  <2>3. txSession.mode = "none" => top.error = "conflict"
    BY <1>1, <1>2 DEF LoneInv, OpenInv, Fallen
  <2>4. txSession'.mode = "none" => Fallen(s, {"conflict"})'
    BY <2>1, <2>2, <2>3
  <2>5. txSession'.mode \in {"none", "dead"} /\ tx' = "running" /\ txDurable' = {}
    BY <1>1, <1>2, <1>5, <2>1
  <2>. QED
    BY <2>2, <2>4, <2>5, LoneGoesOn
<1>. QED
  BY <1>2, <1>4, <1>5 DEF SessionType, Modes

LEMMA LoneDrop ==
    ASSUME NEW s, LoneInv(s), NestedDrop(s)
    PROVE  LoneNext(s)
<1>. DEFINE fs == frames[s]
            top == Top(fs)
            below == Pop(fs)
<1>1. strand[s] = "running" /\ top.phase = "drop" /\ UNCHANGED <<txDurable, tx>>
      /\ Throw(s, below, top.error, MayCatchNested(top.error))
  BY DEF NestedDrop
<1>2. /\ s \in Strands /\ tx = "running" /\ txDurable = {} /\ StackType(fs)
  BY <1>1, Running
<1>3. top.kept = {} /\ txSession.mode = "open"
  BY <1>1, <1>2 DEF LoneInv, StackInv, OpenInv
<1>4. /\ Len(fs) > 1 /\ StackType(below)
      /\ \A i \in 1 .. Len(below) : below[i].phase = "body"
      /\ top.error \in ErrorKinds /\ MayCatchNested(top.error) \in BOOLEAN
      /\ Agrees(txSession.log, fs) /\ Known(top.name)
  BY <1>1, <1>3, UnwindsIs
<1>5. SetSession("open", Released(top.name))
  BY <1>3, <1>4 DEF NestedDrop
<1>6. Agrees(Released(top.name), below)
  <2>1. Top(below).kept = Top(below).kept \cup top.kept
    BY <1>3
  <2>. QED
    BY <1>2, <1>4, <2>1, ReturnAgrees DEF LoneInv
<1>7. /\ \A i \in 1 .. Len(frames'[s]) - 1 : frames'[s][i].phase = "body"
      /\ strand'[s] # "running" => Len(frames'[s]) = 1
      /\ Top(frames'[s]).phase # "drop"
      /\ \A log : Agrees(log, below) => Agrees(log, frames'[s])
  BY <1>1, <1>4, Thrower
<1>8. txSession'.mode = "open" /\ txSession'.log = Released(top.name)
  BY <1>5 DEF SetSession
<1>. QED
  BY <1>1, <1>2, <1>6, <1>7, <1>8, LoneGoesOn

LEMMA LoneReturns ==
    ASSUME NEW s, LoneInv(s), StrandReturns(s)
    PROVE  LoneNext(s)
<1>1. InBody(s) /\ strand[s] = "running" /\ Len(frames[s]) = 1
      /\ UNCHANGED <<txSession, txDurable, frames, tx>> /\ Top(frames[s]).phase = "body"
  BY DEF StrandReturns, InBody
<1>2. /\ tx = "running" /\ txDurable = {} /\ txSession.mode \in {"open", "dead"}
      /\ txSession.mode = "open" => Agrees(txSession.log, frames[s])
      /\ \A i \in 1 .. Len(frames[s]) - 1 : frames[s][i].phase = "body"
  BY <1>1, Running, InBodyIs DEF LoneInv, StackInv
<1>3. /\ tx' = "running" /\ txDurable' = {} /\ txSession'.mode \in {"open", "dead"}
      /\ txSession'.mode = "open" => Agrees(txSession'.log, frames'[s])
      /\ \A i \in 1 .. Len(frames'[s]) - 1 : frames'[s][i].phase = "body"
      /\ Len(frames'[s]) = 1 /\ Top(frames'[s]).phase = "body"
  BY <1>1, <1>2
<1>. QED
  BY <1>3, LoneGoesOn

\* One strand: what it counts on is all that anybody does.
LEMMA KeptIs ==
    ASSUME NEW s, LoneInv(s), Agrees(txSession.log, frames[s])
    PROVE  WritesIn(txSession.log) = Kept
<1>1. Strands = {s} /\ frames[s] \in Seq(FrameType)
  BY DEF LoneInv, IsLone, NamesInv, TxTypeOK
<1>2. DOMAIN frames[s] = 1 .. Len(frames[s])
  BY <1>1
<1>3. Kept = UNION {frames[s][i].kept : i \in 1 .. Len(frames[s])}
  BY <1>1, <1>2 DEF Kept, KeptBy
<1>4. WritesIn(txSession.log) = UNION {txSession.log[i].writes : i \in 1 .. Len(frames[s])}
  BY DEF WritesIn, WritesFrom, Agrees
<1>. QED
  BY <1>3, <1>4 DEF Agrees

LEMMA LoneSettles ==
    ASSUME NEW s, LoneInv(s), TxCommit \/ TxRollback
    PROVE  LoneNext(s)
<1>1. /\ tx = "running" /\ txDurable = {} /\ UNCHANGED <<frames, strand>> /\ Strands = {s}
      /\ txSession \in SessionType
  BY DEF TxCommit, TxRollback, LoneInv, IsLone, NamesInv, TxTypeOK, SessionType,
     Modes, OpenInv
<1>2. CASE TxRollback
  <2>1. strand[s] # "running" /\ tx' = "rejected" /\ txDurable' = {}
    BY <1>1, <1>2 DEF TxRollback
  <2>. QED
    BY <1>1, <2>1 DEF LoneInv, LoneNext, StackInv, OpenInv, EffectMatchesOutcome
<1>3. CASE TxCommit
  <2>1. strand[s] = "fulfilled" /\ Len(frames[s]) = 1
    BY <1>1, <1>3 DEF TxCommit, LoneInv, StackInv
  <2>2. Top(frames[s]).phase = "body"
    BY <1>1, <2>1, Stacks DEF LoneInv, StackType, Top
  <2>3. /\ txSession.mode \in {"open", "dead"}
        /\ txSession.mode = "open" => Agrees(txSession.log, frames[s])
    BY <1>1, <2>1, <2>2 DEF LoneInv, OpenInv, Fallen, SessionType, Modes
  <2>4. Kept' = Kept
    BY <1>1 DEF Kept, KeptBy
  <2>5. /\ tx' = "fulfilled" => txDurable' = Kept
        /\ tx' = "rejected" => txDurable' = {}
        /\ tx' # "running"
    BY <1>1, <1>3, <2>3, KeptIs DEF TxCommit
  <2>. QED
    BY <1>1, <2>1, <2>4, <2>5 DEF LoneInv, LoneNext, StackInv, OpenInv, EffectMatchesOutcome
<1>. QED
  BY <1>2, <1>3

LEMMA LoneStep ==
    ASSUME NEW s
    PROVE  LoneInv(s) /\ [TxNext]_txVars => LoneInv(s)'
<1>1. SUFFICES ASSUME LoneInv(s), [TxNext]_txVars PROVE LoneInv(s)'
  OBVIOUS
<1>2. IsLone(s) /\ IsLone(s)' /\ NamesInv'
  BY <1>1, NamesStep DEF LoneInv, IsLone
<1>3. LoneNext(s)
  <2>1. CASE \E u \in Strands : StrandStep(u)
    <3>1. StrandStep(s)
      BY <1>2, <2>1 DEF IsLone
    <3>. QED
      BY <1>1, <3>1, LoneWrite, LoneFails, LoneThrows, LoneBegin, LoneReturn, LoneUndo,
         LoneDrop, LoneReturns
      DEF StrandStep
  <2>2. CASE UNCHANGED txVars
    BY <1>1, <2>2 DEF txVars, LoneInv, LoneNext, StackInv, OpenInv,
       EffectMatchesOutcome, Agrees,
                      Fallen, Top, Kept, KeptBy
  <2>. QED
    BY <1>1, <2>1, <2>2, LoneSettles DEF TxNext, Finished
<1>. QED
  BY <1>2, <1>3 DEF LoneInv, LoneNext

LEMMA LoneInit ==
    ASSUME NEW s, SavepointsAssumptions, IsLone(s), TxInit
    PROVE  LoneInv(s)
<1>1. NamesInv /\ Strands = {s}
  BY NamesInit DEF IsLone
<1>2. /\ frames[s] = <<Frame(Root)>> /\ strand[s] = "running"
         /\ tx = "running" /\ txDurable = {}
      /\ txSession.mode = "open" /\ txSession.log = <<Level(Root)>>
  BY <1>1 DEF TxInit
<1>3. Len(frames[s]) = 1 /\ Top(frames[s]) = Frame(Root)
  BY <1>2 DEF Top
<1>4. Agrees(txSession.log, frames[s])
  BY <1>2 DEF Agrees, Frame, Level
<1>. QED
  BY <1>1, <1>2, <1>3, <1>4 DEF LoneInv, StackInv, OpenInv, EffectMatchesOutcome,
     Frame

LEMMA LoneWork ==
    ASSUME NEW s, LoneInv(s)
    PROVE  EffectMatchesOutcome /\ OpenWorkIsKeptWork
<1>1. ASSUME tx = "running", txSession.mode = "open"
      PROVE  /\ WritesIn(txSession.log) = Kept
             /\ \A u \in Strands : MarksIn(txSession.log) = NestedNames(u)
  <2>1. Agrees(txSession.log, frames[s]) /\ Strands = {s}
    BY <1>1 DEF LoneInv, IsLone, OpenInv
  <2>2. StackType(frames[s])
    BY <2>1, Stacks DEF LoneInv
  <2>3. \A i \in 1 .. Len(frames[s]) - 1 : txSession.log[i + 1].name = frames[s][i + 1].name
    <3>1. Len(frames[s]) \in Nat /\ \A i \in 1 .. Len(frames[s]) - 1 : i + 1 \in 1 .. Len(frames[s])
      BY <2>2 DEF StackType, LoneInv, NamesInv, SavepointsAssumptions
    <3>. QED
      BY <2>1, <3>1 DEF Agrees
  <2>4. MarksIn(txSession.log) = NestedNames(s)
    BY <2>1, <2>3 DEF MarksIn, NestedNames, Agrees
  <2>. QED
    BY <2>1, <2>4, KeptIs
<1>. QED
  BY <1>1 DEF LoneInv, OpenWorkIsKeptWork

\* What the theorems below ask of the callback.
Sequential == (\E s : Strands = {s}) /\ ~CatchesConflicts /\ ~SwallowsErrors

(***************************************************************************)
(* The variables hold what the code can store in them, with any number of  *)
(* concurrent branches and whatever errors they catch: no frame is popped  *)
(* that runNestedTransaction did not push, and only calls above the        *)
(* root's unwind.                                                          *)
(***************************************************************************)
THEOREM NestedTypeCorrect == TxSpec => []TxTypeOK
<1>1. TxInit => NamesInv
  BY NamesInit, Assumed
<1>2. NamesInv => TxTypeOK
  BY DEF NamesInv
<1>. QED
  BY <1>1, <1>2, NamesStep, PTL DEF TxSpec

(***************************************************************************)
(* A transaction with a sequential callback, nested to any depth, on any   *)
(* server and with any failures, either makes durable exactly the writes   *)
(* of the calls that fulfilled all the way up and fulfils, or none and     *)
(* rejects: executeAttempt's COMMIT never commits what a failed call of    *)
(* runNestedTransaction wrote, nor less than a fulfilled one did.          *)
(***************************************************************************)
THEOREM NestedEffects ==
    ASSUME Sequential
    PROVE  TxSpec => []EffectMatchesOutcome
<1>1. PICK s : IsLone(s)
  BY DEF Sequential, IsLone
<1>2. TxInit => LoneInv(s)
  BY <1>1, LoneInit, Assumed
<1>3. LoneInv(s) /\ [TxNext]_txVars => LoneInv(s)'
  BY LoneStep
<1>4. LoneInv(s) => EffectMatchesOutcome
  BY LoneWork
<1>. QED
  BY <1>2, <1>3, <1>4, PTL DEF TxSpec

(***************************************************************************)
(* While it is open, its savepoints are those of the nested calls in       *)
(* progress, in their order, and its writes those the code counts on.      *)
(***************************************************************************)
THEOREM NestedWork ==
    ASSUME Sequential
    PROVE  TxSpec => []OpenWorkIsKeptWork
<1>1. PICK s : IsLone(s)
  BY DEF Sequential, IsLone
<1>2. TxInit => LoneInv(s)
  BY <1>1, LoneInit, Assumed
<1>3. LoneInv(s) /\ [TxNext]_txVars => LoneInv(s)'
  BY LoneStep
<1>4. LoneInv(s) => OpenWorkIsKeptWork
  BY LoneWork
<1>. QED
  BY <1>2, <1>3, <1>4, PTL DEF TxSpec

=============================================================================
