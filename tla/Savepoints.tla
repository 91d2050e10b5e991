----------------------------- MODULE Savepoints -----------------------------
(***************************************************************************)
(* What happens inside one transaction: the callback of dbh.transaction()  *)
(* issues statements on the leased connection and opens nested             *)
(* transactions, which runNestedTransaction (lib/transactions.js) turns    *)
(* into savepoints named from the shared context.savepointCounter.         *)
(*                                                                         *)
(* The callback is a set of strands, the concurrent branches of its code   *)
(* (one strand: ordinary sequential code; two: Promise.all).  Each strand  *)
(* is a stack of frames, one per nested transaction() call it is inside.   *)
(* The server is external: one session whose open transaction is a log of  *)
(* savepoints and the writes that followed each, executed one statement at *)
(* a time in the order the statements were sent.                           *)
(***************************************************************************)
EXTENDS Naturals, Sequences, FiniteSets

CONSTANTS
    Strands,           \* concurrent branches of the callback
    Servers,           \* subset of {"mysql", "postgres", "sqlite"}
    CatchesConflicts,  \* the callback may catch a nested conflict and go on
    SwallowsErrors,    \* the callback may catch a failed statement and go on
    AwaitsAll,         \* the callback settles only after all its strands did
    MaxDepth,          \* bound: nesting of transaction() calls
    MaxSavepoints,     \* bound: nested calls per transaction
    MaxWrites,         \* bound: writes per strand
    MaxTxFaults        \* bound: statements the server refuses

ASSUME ServersAssumption == Servers \subseteq {"mysql", "postgres", "sqlite"}
ASSUME FlagsAssumption == {CatchesConflicts, SwallowsErrors, AwaitsAll} \subseteq BOOLEAN
ASSUME BoundsAssumption == {MaxDepth, MaxSavepoints, MaxWrites, MaxTxFaults} \subseteq Nat

VARIABLES
    txServer,          \* which database answers
    txSession,         \* the leased connection's transaction: mode and log
    txDurable,         \* writes that survive
    savepointCounter,  \* context.savepointCounter
    frames,            \* per strand: the stack of open transaction() calls
    strand,            \* per strand: running, fulfilled or rejected
    tx,                \* the root transaction: running, fulfilled or rejected
    written,           \* per strand: writes attempted
    txFaults

txVars == <<txServer, txSession, txDurable, savepointCounter, frames, strand, tx, written,
            txFaults>>

Root == 0  \* the name of the bottom frame, and of what precedes any savepoint

\* A savepoint, and what has been written since.
Level(name) == [name |-> name, writes |-> {}]

(***************************************************************************)
(* A frame: its savepoint, where runNestedTransaction stands ("body": in   *)
(* the callback; "undo": ROLLBACK TO is next; "drop": the RELEASE after    *)
(* it), the error being handled, and the writes its code counts on.        *)
(***************************************************************************)
Frame(name) == [name |-> name, phase |-> "body", error |-> "none", kept |-> {}]

TxInit ==
    /\ txServer \in Servers
    /\ txSession = [mode |-> "open", log |-> <<Level(Root)>>]
    /\ txDurable = {}
    /\ savepointCounter = 0
    /\ frames = [s \in Strands |-> <<Frame(Root)>>]
    /\ strand = [s \in Strands |-> "running"]
    /\ tx = "running"
    /\ written = [s \in Strands |-> 0]
    /\ txFaults = 0

-----------------------------------------------------------------------------
(***************************************************************************)
(* The server.  "none": no transaction is open, statements autocommit;     *)
(* "aborted": Postgres refuses everything up to a rollback; "dead": the    *)
(* connection is lost.                                                     *)
(***************************************************************************)
Refused == IF txServer = "postgres" /\ txSession.mode = "open"
           THEN [txSession EXCEPT !.mode = "aborted"] ELSE txSession

\* What a failing statement leaves, by the kind of its error.
AfterError(err) ==
    CASE err = "lost" -> [mode |-> "dead", log |-> <<>>]
      [] err = "conflict" /\ txServer = "mysql" -> [mode |-> "none", log |-> <<>>]
      [] OTHER -> Refused

SavepointLevels == 2 .. Len(txSession.log)

Known(name) == \E i \in SavepointLevels : txSession.log[i].name = name

MarkOf(name) == CHOOSE i \in SavepointLevels :
                  /\ txSession.log[i].name = name
                  /\ \A j \in SavepointLevels : txSession.log[j].name = name => j <= i

WritesFrom(log, i) == UNION {log[j].writes : j \in i .. Len(log)}
WritesIn(log) == WritesFrom(log, 1)

Written(w) == [txSession.log EXCEPT ![Len(txSession.log)].writes = @ \cup {w}]

\* RELEASE and ROLLBACK TO also forget every savepoint set after the named one.
Released(name) ==
    LET i == MarkOf(name)
    IN  [SubSeq(txSession.log, 1, i - 1) EXCEPT
           ![i - 1].writes = @ \cup WritesFrom(txSession.log, i)]

RolledBackTo(name) ==
    LET i == MarkOf(name) IN [SubSeq(txSession.log, 1, i) EXCEPT ![i].writes = {}]

SetSession(mode, log) == txSession' = [mode |-> mode, log |-> log]

-----------------------------------------------------------------------------
(***************************************************************************)
(* The program.                                                            *)
(***************************************************************************)
Top(fs) == fs[Len(fs)]
Pop(fs) == SubSeq(fs, 1, Len(fs) - 1)
SetTop(fs, f) == [fs EXCEPT ![Len(fs)] = f]
CountOn(f, ws) == [f EXCEPT !.kept = @ \cup ws]
InBody(s) == strand[s] = "running" /\ Top(frames[s]).phase = "body"

(***************************************************************************)
(* An error reaches the code of the top frame of fs: the code catches it,  *)
(* or the frame's callback rejects (its catch block comes next), or, in    *)
(* the bottom frame, the strand itself does.                               *)
(***************************************************************************)
Throw(s, fs, err, mayCatch) ==
    \/ /\ mayCatch
       /\ frames' = [frames EXCEPT ![s] = fs]
       /\ UNCHANGED strand
    \/ /\ Len(fs) > 1
       /\ frames' = [frames EXCEPT ![s] =
                       SetTop(fs, [Top(fs) EXCEPT !.phase = "undo", !.error = err])]
       /\ UNCHANGED strand
    \/ /\ Len(fs) = 1
       /\ frames' = [frames EXCEPT ![s] = fs]
       /\ strand' = [strand EXCEPT ![s] = "rejected"]

MayCatchNested(err) == err # "conflict" \/ CatchesConflicts

(***************************************************************************)
(* tx.pquery of a write, on the pinned connection.                         *)
(***************************************************************************)
Write(s) ==
    LET w == <<s, written[s]>> IN
    /\ InBody(s) /\ written[s] < MaxWrites
    /\ written' = [written EXCEPT ![s] = @ + 1]
    /\ IF txSession.mode \in {"open", "none"}
       THEN /\ IF txSession.mode = "open"
               THEN SetSession("open", Written(w)) /\ UNCHANGED txDurable
               ELSE txDurable' = txDurable \cup {w} /\ UNCHANGED txSession
            /\ frames' = [frames EXCEPT ![s] = SetTop(@, CountOn(Top(@), {w}))]
            /\ UNCHANGED strand
       ELSE /\ Throw(s, frames[s], "error", SwallowsErrors)
            /\ UNCHANGED <<txSession, txDurable>>
    /\ UNCHANGED <<txServer, savepointCounter, tx, txFaults>>

StatementFails(s) ==
    /\ InBody(s) /\ txFaults < MaxTxFaults /\ txSession.mode # "dead"
    /\ txFaults' = txFaults + 1
    /\ \E err \in {"error", "conflict", "lost"} :
         /\ txSession' = AfterError(err)
         /\ Throw(s, frames[s], err, SwallowsErrors)
    /\ UNCHANGED <<txServer, txDurable, savepointCounter, tx, written>>

\* The code of a frame throws on its own account.
CodeThrows(s) ==
    /\ InBody(s)
    /\ Throw(s, frames[s], "error", FALSE)
    /\ UNCHANGED <<txServer, txSession, txDurable, savepointCounter, tx, written, txFaults>>

(***************************************************************************)
(* tx.transaction(): take the next name, SAVEPOINT it, enter the callback. *)
(* SAVEPOINT stands before the try block, so its failure has no clean-up;  *)
(* outside a transaction only MySQL accepts it, without remembering it.    *)
(***************************************************************************)
NestedBegin(s) ==
    LET name == savepointCounter + 1 IN
    /\ InBody(s) /\ Len(frames[s]) <= MaxDepth /\ savepointCounter < MaxSavepoints
    /\ savepointCounter' = name
    /\ IF txSession.mode = "open" \/ (txSession.mode = "none" /\ txServer = "mysql")
       THEN /\ IF txSession.mode = "open"
               THEN SetSession("open", Append(txSession.log, Level(name)))
               ELSE UNCHANGED txSession
            /\ frames' = [frames EXCEPT ![s] = Append(@, Frame(name))]
            /\ UNCHANGED strand
       ELSE /\ Throw(s, frames[s], "error", MayCatchNested("error"))
            /\ UNCHANGED txSession
    /\ UNCHANGED <<txServer, txDurable, tx, written, txFaults>>

(***************************************************************************)
(* The nested callback fulfilled: RELEASE SAVEPOINT, and the outer code    *)
(* counts on its writes.  A failing RELEASE is handled by the catch block. *)
(***************************************************************************)
NestedReturn(s) ==
    LET top == Top(frames[s])
        below == Pop(frames[s])
    IN
    /\ InBody(s) /\ Len(frames[s]) > 1
    /\ IF txSession.mode = "open" /\ Known(top.name)
       THEN /\ SetSession("open", Released(top.name))
            /\ frames' = [frames EXCEPT ![s] =
                 SetTop(below, CountOn(Top(below), top.kept))]
       ELSE /\ txSession' = Refused
            /\ frames' = [frames EXCEPT ![s] =
                 SetTop(@, [top EXCEPT !.phase = "undo", !.error = "error"])]
    /\ UNCHANGED <<txServer, txDurable, savepointCounter, strand, tx, written, txFaults>>

\* Mutant: the catch block only releases the savepoint.
NestedUndoByRelease(s) ==
    LET top == Top(frames[s]) IN
    /\ strand[s] = "running" /\ top.phase = "undo"
    /\ IF txSession.mode = "open" /\ Known(top.name)
       THEN SetSession("open", Released(top.name))
       ELSE txSession' = Refused
    /\ Throw(s, Pop(frames[s]), top.error, MayCatchNested(top.error))
    /\ UNCHANGED <<txServer, txDurable, savepointCounter, tx, written, txFaults>>

(***************************************************************************)
(* The catch block: ROLLBACK TO SAVEPOINT.  If that fails, rollbackError   *)
(* is attached and the original error is rethrown at once.                 *)
(***************************************************************************)
NestedUndo(s) ==
    LET top == Top(frames[s]) IN
    /\ strand[s] = "running" /\ top.phase = "undo"
    /\ IF txSession.mode \in {"open", "aborted"} /\ Known(top.name)
       THEN /\ SetSession("open", RolledBackTo(top.name))
            /\ frames' = [frames EXCEPT ![s] =
                 SetTop(@, [top EXCEPT !.phase = "drop", !.kept = {}])]
            /\ UNCHANGED strand
       ELSE /\ txSession' = Refused
            /\ Throw(s, Pop(frames[s]), top.error, MayCatchNested(top.error))
    /\ UNCHANGED <<txServer, txDurable, savepointCounter, tx, written, txFaults>>

\* The RELEASE SAVEPOINT after it, and the rethrow.
NestedDrop(s) ==
    LET top == Top(frames[s]) IN
    /\ strand[s] = "running" /\ top.phase = "drop"
    /\ IF txSession.mode = "open" /\ Known(top.name)
       THEN SetSession("open", Released(top.name))
       ELSE txSession' = Refused
    /\ Throw(s, Pop(frames[s]), top.error, MayCatchNested(top.error))
    /\ UNCHANGED <<txServer, txDurable, savepointCounter, tx, written, txFaults>>

StrandReturns(s) ==
    /\ InBody(s) /\ Len(frames[s]) = 1
    /\ strand' = [strand EXCEPT ![s] = "fulfilled"]
    /\ UNCHANGED <<txServer, txSession, txDurable, savepointCounter, frames, tx, written, txFaults>>

(***************************************************************************)
(* The callback fulfilled: commitTransaction.  The code looks at no more   *)
(* than whether COMMIT was answered with an error.                         *)
(***************************************************************************)
TxCommit ==
    /\ tx = "running" /\ \A s \in Strands : strand[s] = "fulfilled"
    /\ tx' = IF txSession.mode = "dead" THEN "rejected" ELSE "fulfilled"
    /\ txDurable' = txDurable \cup
                  (IF txSession.mode = "open" THEN WritesIn(txSession.log) ELSE {})
    /\ SetSession(IF txSession.mode = "dead" THEN "dead" ELSE "none", <<>>)
    /\ UNCHANGED <<txServer, savepointCounter, frames, strand, written, txFaults>>

\* Mutant: COMMIT stands in a finally block, whatever the callback did.
TxCommitAlways ==
    /\ tx = "running" /\ \E s \in Strands : strand[s] = "rejected"
    /\ AwaitsAll => \A s \in Strands : strand[s] # "running"
    /\ tx' = "rejected"
    /\ txDurable' = txDurable \cup
                  (IF txSession.mode = "open" THEN WritesIn(txSession.log) ELSE {})
    /\ SetSession(IF txSession.mode = "dead" THEN "dead" ELSE "none", <<>>)
    /\ UNCHANGED <<txServer, savepointCounter, frames, strand, written, txFaults>>

\* The callback rejected: rollbackTransaction.
TxRollback ==
    /\ tx = "running" /\ \E s \in Strands : strand[s] = "rejected"
    /\ AwaitsAll => \A s \in Strands : strand[s] # "running"
    /\ tx' = "rejected"
    /\ SetSession(IF txSession.mode = "dead" THEN "dead" ELSE "none", <<>>)
    /\ UNCHANGED <<txServer, txDurable, savepointCounter, frames, strand, written, txFaults>>

Finished ==
    /\ tx # "running" /\ \A s \in Strands : strand[s] # "running"
    /\ UNCHANGED txVars

StrandStep(s) ==
    \/ Write(s)
    \/ StatementFails(s)
    \/ CodeThrows(s)
    \/ NestedBegin(s)
    \/ NestedReturn(s)
    \/ NestedUndo(s)
    \/ NestedDrop(s)
    \/ StrandReturns(s)

TxNext == (\E s \in Strands : StrandStep(s)) \/ TxCommit \/ TxRollback \/ Finished

TxSpec == TxInit /\ [][TxNext]_txVars

-----------------------------------------------------------------------------

Writes == Strands \X (0 .. MaxWrites)

LevelType == [name : 0 .. MaxSavepoints, writes : SUBSET Writes]
FrameType == [name : 0 .. MaxSavepoints, phase : {"body", "undo", "drop"},
              error : {"none", "error", "conflict", "lost"}, kept : SUBSET Writes]

(***************************************************************************)
(* The variables hold what the code can store in them; the stack of calls  *)
(* never empties, and only calls above the bottom one are unwinding.       *)
(***************************************************************************)
TxTypeOK ==
    /\ txServer \in Servers
    /\ txSession \in [mode : {"open", "none", "aborted", "dead"}, log : Seq(LevelType)]
    /\ txDurable \subseteq Writes
    /\ savepointCounter \in 0 .. MaxSavepoints
    /\ frames \in [Strands -> Seq(FrameType)]
    /\ \A s \in Strands :
         /\ Len(frames[s]) \in 1 .. MaxDepth + 1
         /\ \A i \in 1 .. Len(frames[s]) : frames[s][i].phase # "body" => i > 1
    /\ strand \in [Strands -> {"running", "fulfilled", "rejected"}]
    /\ tx \in {"running", "fulfilled", "rejected"}
    /\ written \in [Strands -> 0 .. MaxWrites]
    /\ txFaults \in 0 .. MaxTxFaults

KeptBy(s) == UNION {frames[s][i].kept : i \in DOMAIN frames[s]}
Kept == UNION {KeptBy(s) : s \in Strands}

(***************************************************************************)
(* docs/transactions.md: "A fulfilled callback commits; a thrown error or  *)
(* rejected promise rolls back", and of nested calls "Successful nested    *)
(* work releases it; failed nested work rolls back to it".  When the       *)
(* transaction has settled, what survives is exactly the work of the calls *)
(* that fulfilled all the way up, or nothing.                              *)
(***************************************************************************)
EffectMatchesOutcome ==
    /\ tx = "fulfilled" => txDurable = Kept
    /\ tx = "rejected"  => txDurable = {}

NestedNames(s) == [i \in 1 .. Len(frames[s]) - 1 |-> frames[s][i + 1].name]
MarksIn(log) == [i \in 1 .. Len(log) - 1 |-> log[i + 1].name]

(***************************************************************************)
(* While the transaction is open, the server holds exactly what the code   *)
(* counts on: the writes of the calls that may still succeed (a failed     *)
(* nested call has taken its own with it, at any depth, and no others),    *)
(* and the savepoints of the nested calls in progress, in the order they   *)
(* were opened: none leaks past its call, on success or on failure, and    *)
(* none is gone before it.  (For sequential callbacks.)                    *)
(***************************************************************************)
OpenWorkIsKeptWork ==
    tx = "running" /\ txSession.mode = "open" =>
        /\ WritesIn(txSession.log) = Kept
        /\ \A s \in Strands : MarksIn(txSession.log) = NestedNames(s)

=============================================================================
