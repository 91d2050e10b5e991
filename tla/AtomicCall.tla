----------------------------- MODULE AtomicCall -----------------------------
(***************************************************************************)
(* What dbh.transaction() promises its caller, and nothing about how: a    *)
(* call takes effect at most once, through exactly one attempt, and its    *)
(* promise settles once with an answer that agrees with that effect.       *)
(* docs/transactions.md, "Summary" and "Retries".                          *)
(***************************************************************************)
CONSTANTS Calls, Attempts

VARIABLES
    applied,     \* per call: the attempts whose writes are durable
    answerLost,  \* per call: the server's answer to COMMIT never arrived
    promise      \* per call: what the caller has been told

avars == <<applied, answerLost, promise>>

Init ==
    /\ applied = [t \in Calls |-> {}]
    /\ answerLost = [t \in Calls |-> FALSE]
    /\ promise = [t \in Calls |-> "pending"]

TakeEffect(t) ==
    /\ promise[t] = "pending" /\ applied[t] = {}
    /\ \E a \in Attempts : applied' = [applied EXCEPT ![t] = {a}]
    /\ \E lost \in BOOLEAN : answerLost' = [answerLost EXCEPT ![t] = lost]
    /\ UNCHANGED promise

Fulfil(t) ==
    /\ promise[t] = "pending" /\ applied[t] # {} /\ ~answerLost[t]
    /\ promise' = [promise EXCEPT ![t] = "fulfilled"]
    /\ UNCHANGED <<applied, answerLost>>

FailAfterCommit(t) ==
    /\ promise[t] = "pending" /\ applied[t] # {} /\ ~answerLost[t]
    /\ promise' = [promise EXCEPT ![t] = "committedButFailed"]
    /\ UNCHANGED <<applied, answerLost>>

Reject(t) ==
    /\ promise[t] = "pending" /\ (applied[t] = {} \/ answerLost[t])
    /\ promise' = [promise EXCEPT ![t] = "rejected"]
    /\ UNCHANGED <<applied, answerLost>>

Next == \E t \in Calls : TakeEffect(t) \/ Fulfil(t) \/ FailAfterCommit(t) \/ Reject(t)

Spec == Init /\ [][Next]_avars

=============================================================================
