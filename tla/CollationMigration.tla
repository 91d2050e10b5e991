------------------------- MODULE CollationMigration -------------------------
(***************************************************************************)
(* The link-collation migration (lib/migrations/link-collation.js and      *)
(* bin/migrate-link-collation): a command that an operator repeats, or a   *)
(* scheduler, until every char(36) column has the canonical collation.     *)
(* Each run generates its manifest from the database, skips what the state *)
(* file says is done, and verifies, alters, verifies and records one       *)
(* column after the other.                                                 *)
(*                                                                         *)
(* The database and the process around a run are external.  A run may      *)
(* crash at any point: a server, or an online-DDL tool, may still finish   *)
(* an ALTER whose run is gone.  Runs may overlap, a state file may be torn *)
(* by a crash, and a column may be changed back (a restored table).        *)
(***************************************************************************)
EXTENDS Naturals, FiniteSets

CONSTANTS
    Runs,       \* processes that run the command, each again and again
    NumColumns, \* char(36) columns, numbered by the size of their table
    StopAfter,  \* --stop-after
    KeepGoing,  \* processes that run it with --continue-on-error
    MaxFaults,  \* bound: crashes, refused or ineffective statements
    MaxDrifts   \* bound: columns changed back

Columns == 1 .. NumColumns

ASSUME StopAfterAssumption == StopAfter \in Nat \ {0}
ASSUME KeepGoingAssumption == KeepGoing \subseteq Runs
ASSUME BoundsAssumption == {NumColumns, MaxFaults, MaxDrifts} \subseteq Nat

VARIABLES
    canonical,   \* columns with the target collation, in the database
    pending,     \* columns with an ALTER under way whose run has crashed
    stateFile,   \* `completed` as the state file gives it when it is loaded
    pc,          \* where each run stands
    manifest,    \* per run: manifest.items
    todo,        \* per run: items the loop has not passed
    done,        \* per run: the Set of completed items
    applied,     \* per run: appliedThisRun
    seenTarget,  \* per run: what verify() returned is the target
    clean,       \* per run: no report.errors, and not report.stoppedEarly
    drifted,     \* history: columns that were changed back
    orphaned,    \* history: columns whose ALTER outlived its run
    overlapped,  \* history: two runs have been active at once
    needless,    \* history: canonical columns rebuilt before any overlap
    faults, drifts

database == <<canonical, pending>>
local    == <<manifest, todo, done, applied, seenTarget, clean>>
history  == <<drifted, orphaned, overlapped, needless>>
vars == <<database, stateFile, pc, local, history, faults, drifts>>

Init ==
    /\ canonical \in SUBSET Columns
    /\ pending = {}
    /\ stateFile = {}
    /\ pc = [r \in Runs |-> "idle"]
    /\ manifest = [r \in Runs |-> {}]
    /\ todo = [r \in Runs |-> {}]
    /\ done = [r \in Runs |-> {}]
    /\ applied = [r \in Runs |-> 0]
    /\ seenTarget = [r \in Runs |-> FALSE]
    /\ clean = [r \in Runs |-> TRUE]
    /\ drifted = {} /\ orphaned = {} /\ needless = {}
    /\ overlapped = FALSE
    /\ faults = 0 /\ drifts = 0

Over == {"idle", "ended"}
Active(r) == pc[r] \notin Over

Goto(r, phase) == pc' = [pc EXCEPT ![r] = phase]

\* The process exits; `ok` unless it reports errors, stops early or dies.
Leave(r, ok) ==
    /\ Goto(r, "ended")
    /\ clean' = [clean EXCEPT ![r] = ok]
    /\ todo' = [todo EXCEPT ![r] = {}]
    /\ done' = [done EXCEPT ![r] = {}]
    /\ applied' = [applied EXCEPT ![r] = 0]
    /\ seenTarget' = [seenTarget EXCEPT ![r] = FALSE]
    /\ UNCHANGED manifest

Fault == faults < MaxFaults /\ faults' = faults + 1

-----------------------------------------------------------------------------
(***************************************************************************)
(* The command: the manifest from information_schema, then the state file. *)
(***************************************************************************)
\* A run starts on a list of items; the one of its last run may be reused
\* ("Write the manifest to a file for review / scheduling").
Begin(r, items) ==
    /\ ~Active(r)
    /\ manifest' = [manifest EXCEPT ![r] = items]
    /\ todo' = [todo EXCEPT ![r] = items]
    /\ overlapped' = (overlapped \/ \E u \in Runs \ {r} : Active(u))
    /\ Goto(r, "generated")
    /\ UNCHANGED <<database, stateFile, done, applied, seenTarget, clean,
                   drifted, orphaned, needless, faults, drifts>>

Generate(r) == Begin(r, Columns \ canonical)

Reuse(r) == pc[r] = "ended" /\ Begin(r, manifest[r])

\* Between the answer of verify() and the end of stateStore.save().
Saving(r) == pc[r] \in {"verified", "checked"} /\ seenTarget[r]

\* A file that another run is just writing reads as torn, and loads as empty.
Load(r) ==
    /\ pc[r] = "generated"
    /\ \/ done' = [done EXCEPT ![r] = stateFile]
       \/ /\ \E u \in Runs \ {r} : Saving(u)
          /\ done' = [done EXCEPT ![r] = {}]
    /\ clean' = [clean EXCEPT ![r] = TRUE]
    /\ Goto(r, "next")
    /\ UNCHANGED <<database, stateFile, manifest, todo, applied, seenTarget, history,
                   faults, drifts>>

\* The disk precheck refuses.
Refuse(r) ==
    /\ pc[r] = "generated" /\ Fault
    /\ Leave(r, FALSE)
    /\ UNCHANGED <<database, stateFile, history, drifts>>

-----------------------------------------------------------------------------
(***************************************************************************)
(* The loop, smallest table first.                                         *)
(***************************************************************************)
Smallest(S) == CHOOSE c \in S : \A d \in S : c <= d

Item(r) == Smallest(todo[r])

\* `before` and `after` go out of scope.
PassItem(r) ==
    /\ todo' = [todo EXCEPT ![r] = @ \ {Item(r)}]
    /\ seenTarget' = [seenTarget EXCEPT ![r] = FALSE]

Skip(r) ==
    /\ pc[r] = "next" /\ todo[r] # {} /\ Item(r) \in done[r]
    /\ PassItem(r)
    /\ UNCHANGED <<database, stateFile, pc, manifest, done, applied, clean, history,
                   faults, drifts>>

End(r) ==
    /\ pc[r] = "next"
    /\ \/ todo[r] = {} /\ Leave(r, clean[r])
       \/ todo[r] # {} /\ Item(r) \notin done[r] /\ applied[r] >= StopAfter /\ Leave(r, FALSE)
    /\ UNCHANGED <<database, stateFile, history, faults, drifts>>

Verify(r, phase) ==
    /\ seenTarget' = [seenTarget EXCEPT ![r] = Item(r) \in canonical]
    /\ Goto(r, phase)
    /\ UNCHANGED <<database, stateFile, manifest, todo, done, applied, clean,
                   history, faults, drifts>>

MoreToDo(r) == todo[r] # {} /\ Item(r) \notin done[r] /\ applied[r] < StopAfter

VerifyBefore(r) ==
    /\ pc[r] = "next" /\ MoreToDo(r)
    /\ Verify(r, "verified")

\* Mutant: the state is recorded for the whole manifest at once.
MarkAll(r) == done' = [done EXCEPT ![r] = @ \cup manifest[r]] /\ stateFile' = done'[r]

\* done.add(id), and state.completed written to the file.
Mark(r) == done' = [done EXCEPT ![r] = @ \cup {Item(r)}] /\ stateFile' = done'[r]

AlreadyCanonical(r) ==
    /\ pc[r] = "verified" /\ seenTarget[r]
    /\ Mark(r)
    /\ PassItem(r)
    /\ Goto(r, "next")
    /\ UNCHANGED <<database, manifest, applied, clean, history, faults, drifts>>

\* Mutant: no verification before the work, only after it.
ExecuteAnyway(r) ==
    /\ pc[r] = "verified"
    /\ Goto(r, "altering")
    /\ UNCHANGED <<database, stateFile, local, history, faults, drifts>>

Execute(r) ==
    /\ pc[r] = "verified" /\ ~seenTarget[r]
    /\ Goto(r, "altering")
    /\ UNCHANGED <<database, stateFile, local, history, faults, drifts>>

\* The ALTER takes effect, in the server or by the online-DDL tool.
Rebuilt(c) ==
    /\ canonical' = canonical \cup {c}
    /\ needless' = IF c \in canonical /\ ~overlapped THEN needless \cup {c} ELSE needless

Alter(r) ==
    /\ pc[r] = "altering"
    /\ \/ Rebuilt(Item(r)) /\ UNCHANGED faults
       \/ Fault /\ UNCHANGED <<canonical, needless>>
    /\ Goto(r, "altered")
    /\ UNCHANGED <<pending, stateFile, local, drifted, orphaned, overlapped, drifts>>

VerifyAfter(r) ==
    /\ pc[r] = "altered"
    /\ Verify(r, "checked")

Confirm(r) ==
    /\ pc[r] = "checked" /\ seenTarget[r]
    /\ Mark(r)
    /\ PassItem(r)
    /\ applied' = [applied EXCEPT ![r] = @ + 1]
    /\ Goto(r, "next")
    /\ UNCHANGED <<database, manifest, clean, history, faults, drifts>>

(***************************************************************************)
(* report.errors gets an entry; continueOnError decides whether the loop   *)
(* goes on, with `completed` as its Set of completed items.                *)
(***************************************************************************)
Report(r, completed) ==
    \/ /\ r \in KeepGoing
       /\ PassItem(r)
       /\ done' = [done EXCEPT ![r] = completed]
       /\ clean' = [clean EXCEPT ![r] = FALSE]
       /\ Goto(r, "next")
       /\ UNCHANGED <<manifest, applied>>
    \/ r \notin KeepGoing /\ Leave(r, FALSE)

\* Mutant: what verify() returns after the ALTER is not compared.
MismatchIgnored(r) ==
    /\ pc[r] = "checked" /\ ~seenTarget[r]
    /\ Mark(r)
    /\ PassItem(r)
    /\ Goto(r, "next")
    /\ UNCHANGED <<database, manifest, applied, clean, history, faults, drifts>>

Mismatch(r) ==
    /\ pc[r] = "checked" /\ ~seenTarget[r]
    /\ Report(r, done[r])
    /\ UNCHANGED <<database, stateFile, history, faults, drifts>>

(***************************************************************************)
(* done.add(id) comes before the save: an item whose save fails stays in   *)
(* `done`, and the next save records it.                                   *)
(***************************************************************************)
SaveFails(r) ==
    /\ Saving(r) /\ Fault
    /\ stateFile' \in {stateFile, {}}
    /\ Report(r, done[r] \cup {Item(r)})
    /\ UNCHANGED <<database, history, drifts>>

\* A statement is refused, or its answer is lost after it took effect.
Throw(r) ==
    /\ \/ pc[r] \in {"altering", "altered"}
       \/ pc[r] = "next" /\ MoreToDo(r)
    /\ Fault
    /\ \/ UNCHANGED <<canonical, needless>>
       \/ pc[r] = "altering" /\ Rebuilt(Item(r))
    /\ Report(r, done[r])
    /\ UNCHANGED <<stateFile, pending, drifted, orphaned, overlapped, drifts>>

-----------------------------------------------------------------------------
(***************************************************************************)
(* The run is gone.  Its ALTER may live on; the state file may be torn if  *)
(* it was just being written, and then loads as empty.                     *)
(***************************************************************************)
Crash(r) ==
    /\ Active(r) /\ Fault
    /\ Leave(r, FALSE)
    /\ \/ UNCHANGED <<pending, orphaned>>
       \/ /\ pc[r] = "altering"
          /\ pending' = pending \cup {Item(r)}
          /\ orphaned' = orphaned \cup {Item(r)}
    /\ \/ UNCHANGED stateFile
       \/ Saving(r) /\ stateFile' \in {{}, done[r] \cup {Item(r)}}
    /\ UNCHANGED <<canonical, drifted, overlapped, needless, drifts>>

OrphanEnds(c) ==
    /\ c \in pending
    /\ pending' = pending \ {c}
    /\ Rebuilt(c) \/ UNCHANGED <<canonical, needless>>
    /\ UNCHANGED <<stateFile, pc, local, drifted, orphaned, overlapped, faults, drifts>>

ChangeBack(c) ==
    /\ c \in canonical /\ drifts < MaxDrifts
    /\ canonical' = canonical \ {c}
    /\ drifted' = drifted \cup {c}
    /\ drifts' = drifts + 1
    /\ UNCHANGED <<pending, stateFile, pc, local, orphaned, overlapped, needless, faults>>

-----------------------------------------------------------------------------

\* What a run does on its own, once started.
Step(r) ==
    \/ Load(r)
    \/ Skip(r)
    \/ End(r)
    \/ VerifyBefore(r)
    \/ AlreadyCanonical(r)
    \/ Execute(r)
    \/ Alter(r)
    \/ VerifyAfter(r)
    \/ Confirm(r)
    \/ Mismatch(r)

Next ==
    \/ \E r \in Runs :
         \/ Generate(r) \/ Reuse(r) \/ Step(r)
         \/ Refuse(r) \/ SaveFails(r) \/ Throw(r) \/ Crash(r)
    \/ \E c \in Columns : OrphanEnds(c) \/ ChangeBack(c)

Spec == Init /\ [][Next]_vars

(***************************************************************************)
(* A run that was started goes on, and the command is repeated ("it can    *)
(* run overnight / on a schedule").                                        *)
(***************************************************************************)
FairSpec == Spec /\ \A r \in Runs : WF_vars(Generate(r) \/ Reuse(r) \/ Step(r))

-----------------------------------------------------------------------------

Phases == Over \cup {"generated", "next", "verified", "altering", "altered", "checked"}

(***************************************************************************)
(* The variables hold what the code can store in them; a run that works on *)
(* an item has one.                                                        *)
(***************************************************************************)
TypeOK ==
    /\ canonical \subseteq Columns /\ pending \subseteq Columns
    /\ stateFile \subseteq Columns
    /\ pc \in [Runs -> Phases]
    /\ manifest \in [Runs -> SUBSET Columns]
    /\ todo \in [Runs -> SUBSET Columns]
    /\ done \in [Runs -> SUBSET Columns]
    /\ applied \in [Runs -> 0 .. StopAfter]
    /\ seenTarget \in [Runs -> BOOLEAN]
    /\ clean \in [Runs -> BOOLEAN]
    /\ \A r \in Runs : pc[r] \in {"verified", "altering", "altered", "checked"} => todo[r] # {}
    /\ drifted \subseteq Columns /\ orphaned \subseteq Columns /\ needless \subseteq Columns
    /\ overlapped \in BOOLEAN
    /\ faults \in 0 .. MaxFaults /\ drifts \in 0 .. MaxDrifts

(***************************************************************************)
(* What the state file calls completed has the target collation, whatever  *)
(* crashed, was torn or ran at the same time, unless it was changed back.  *)
(* A later run relies on it: it skips such a column without looking.       *)
(***************************************************************************)
StateTellsTheTruth == stateFile \subseteq canonical \cup drifted

(***************************************************************************)
(* A run that ends without errors, and not early, leaves every column of   *)
(* its manifest canonical, unless it was changed back.                     *)
(***************************************************************************)
CleanRunsAreComplete ==
    \A r \in Runs : pc[r] = "ended" /\ clean[r] => manifest[r] \subseteq canonical \cup drifted

(***************************************************************************)
(* link-collation.js, 16: "idempotent (verify-after + skip                 *)
(* already-canonical)".  However often runs crash and are repeated, also   *)
(* with the state file lost, no canonical column is rebuilt, unless runs   *)
(* overlap or an ALTER outlived its run.                                   *)
(***************************************************************************)
NoNeedlessRebuild == needless \subseteq orphaned

(***************************************************************************)
(* When crashes and failures cease, repeating the command makes every      *)
(* column canonical, a few per run, except those that were changed back.   *)
(***************************************************************************)
EveryColumnConverges == <>[](Columns \subseteq canonical \cup drifted)

=============================================================================
