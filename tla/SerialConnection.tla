-------------------------- MODULE SerialConnection --------------------------
(***************************************************************************)
(* What a single SQLite connection promises the tasks that share it:       *)
(* transactions run one at a time, and an ordinary query runs while none   *)
(* is open, so it never becomes part of somebody's transaction.            *)
(* docs/transactions.md, "Options and dialect behavior".                   *)
(***************************************************************************)
CONSTANTS Txs, Queries, None

VARIABLES
    owner,  \* the transaction open on the connection
    over,   \* transactions that have ended
    ran     \* ordinary queries that have run

svars == <<owner, over, ran>>

Init == owner = None /\ over = {} /\ ran = {}

Open(t) ==
    /\ owner = None /\ t \notin over
    /\ owner' = t
    /\ UNCHANGED <<over, ran>>

\* COMMIT, ROLLBACK, or a BEGIN that was refused.
Close(t) ==
    /\ owner \in {None, t} /\ t \notin over
    /\ owner' = None
    /\ over' = over \cup {t}
    /\ UNCHANGED ran

Run(q) ==
    /\ owner = None /\ q \notin ran
    /\ ran' = ran \cup {q}
    /\ UNCHANGED <<owner, over>>

Next == (\E t \in Txs : Open(t) \/ Close(t)) \/ (\E q \in Queries : Run(q))

Spec == Init /\ [][Next]_svars

=============================================================================
