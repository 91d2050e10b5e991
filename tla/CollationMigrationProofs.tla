---------------------- MODULE CollationMigrationProofs ----------------------
(***************************************************************************)
(* Proofs about CollationMigration for any processes, number of columns,   *)
(* --stop-after, crashes, failures and changes of columns.                 *)
(*                                                                         *)
(* What the state file and each process's Set of completed items hold is   *)
(* canonical, or was changed back; what a process learned from verify()    *)
(* stays so.  A process that is alone rebuilds only columns that are not   *)
(* canonical, apart from those an orphaned ALTER is working on.            *)
(***************************************************************************)
EXTENDS CollationMigration, TLAPS, WellFoundedInduction

Safe == canonical \cup drifted

Working == {"verified", "altering", "altered", "checked"}

CompletedInv == \A r \in Runs : done[r] \subseteq Safe

SeenInv == \A r \in Runs : seenTarget[r] => pc[r] \in {"verified", "checked"} /\ Item(r) \in Safe

PassedInv ==
    \A r \in Runs :
        /\ pc[r] = "generated" => todo[r] = manifest[r]
        /\ clean[r] /\ pc[r] \notin {"idle", "generated"} => manifest[r] \subseteq Safe \cup todo[r]
        /\ pc[r] = "ended" => todo[r] = {}

RecordInv ==
    /\ StateTellsTheTruth
    /\ CompletedInv
    /\ SeenInv
    /\ PassedInv

\* Until the first overlap one process is active at a time.
AloneInv == ~overlapped => \A r, u \in Runs : Active(r) /\ Active(u) => r = u

RebuildInv ==
    /\ pending \subseteq orphaned
    /\ NoNeedlessRebuild
    /\ \A r \in Runs :
         \/ overlapped
         \/ pc[r] # "altering" /\ ~(pc[r] = "verified" /\ ~seenTarget[r])
         \/ Item(r) \notin canonical
         \/ Item(r) \in orphaned

\* The part of TypeOK that is about the processes.
ProcessTypes ==
    /\ pc \in [Runs -> Phases]
    /\ manifest \in [Runs -> SUBSET Columns]
    /\ todo \in [Runs -> SUBSET Columns]
    /\ done \in [Runs -> SUBSET Columns]
    /\ applied \in [Runs -> 0 .. StopAfter]
    /\ seenTarget \in [Runs -> BOOLEAN]
    /\ clean \in [Runs -> BOOLEAN]
    /\ \A r \in Runs : pc[r] \in Working => todo[r] # {}

BudgetInv == \A r \in Runs : pc[r] \in Working => applied[r] < StopAfter

IInv ==
    /\ TypeOK
    /\ BudgetInv
    /\ RecordInv
    /\ AloneInv
    /\ RebuildInv

-----------------------------------------------------------------------------
\* A nonempty set of columns has a smallest one, and the loop takes a member of it.
LEMMA SmallestIsMember ==
    ASSUME NEW S, S \subseteq Columns, S # {}
    PROVE  Smallest(S) \in S
<1>1. S \subseteq Nat
  BY BoundsAssumption DEF Columns
<1>2. PICK c \in S : \A d \in S : <<d, c>> \notin OpToRel(<, Nat)
  BY <1>1, WFMin, NatLessThanWellFounded, Zenon
<1>3. \A d \in S : ~(d < c)
  BY <1>1, <1>2, Zenon DEF OpToRel
<1>4. \A d \in S : c <= d
  BY <1>1, <1>3
<1>. QED
  BY <1>4 DEF Smallest

\* The column a process works on is one of the manifest's.
LEMMA ItemIsColumn ==
    ASSUME TypeOK, NEW r \in Runs, todo[r] # {}
    PROVE  Item(r) \in todo[r] /\ Item(r) \in Columns
<1>1. todo[r] \subseteq Columns
  BY DEF TypeOK
<1>. QED
  BY <1>1, SmallestIsMember DEF Item

\* The bounds of the model are numbers.
LEMMA Bounds ==
    NumColumns \in Nat /\ StopAfter \in Nat \ {0} /\ MaxFaults \in Nat /\ MaxDrifts \in Nat
  BY BoundsAssumption, StopAfterAssumption

\* Whichever way a process exits, its variables keep their types.
LEMMA LeaveTypes ==
    ASSUME ProcessTypes, NEW r \in Runs, NEW ok \in BOOLEAN, Leave(r, ok)
    PROVE  ProcessTypes'
<1>1. 0 \in 0 .. StopAfter /\ "ended" \in Phases /\ "ended" \notin Working
  BY Bounds DEF Phases, Over, Working
<1>2. pc' \in [Runs -> Phases]
  BY <1>1 DEF ProcessTypes, Leave, Goto
<1>6. applied' \in [Runs -> 0 .. StopAfter]
  BY <1>1 DEF ProcessTypes, Leave
<1>3. todo' \in [Runs -> SUBSET Columns] /\ done' \in [Runs -> SUBSET Columns]
  BY DEF ProcessTypes, Leave
<1>4. seenTarget' \in [Runs -> BOOLEAN] /\ clean' \in [Runs -> BOOLEAN]
  BY DEF ProcessTypes, Leave
<1>5. \A u \in Runs : pc'[u] \in Working => todo'[u] # {}
  BY <1>1 DEF ProcessTypes, Leave, Goto
<1>. QED
  BY <1>2, <1>3, <1>4, <1>5, <1>6 DEF ProcessTypes, Leave

\* So they do when an error is reported.
LEMMA ReportTypes ==
    ASSUME ProcessTypes, NEW r \in Runs, NEW completed \in SUBSET Columns, Report(r, completed)
    PROVE  ProcessTypes'
<1>1. CASE Leave(r, FALSE)
  BY <1>1, LeaveTypes
<1>2. CASE ~Leave(r, FALSE)
  <2>1. /\ PassItem(r) /\ Goto(r, "next") /\ UNCHANGED <<manifest, applied>>
        /\ done' = [done EXCEPT ![r] = completed]
        /\ clean' = [clean EXCEPT ![r] = FALSE]
    BY <1>2 DEF Report
  <2>2. pc' \in [Runs -> Phases]
    BY <2>1 DEF ProcessTypes, Goto, Phases
  <2>3. todo' \in [Runs -> SUBSET Columns] /\ done' \in [Runs -> SUBSET Columns]
    BY <2>1 DEF ProcessTypes, PassItem
  <2>4. seenTarget' \in [Runs -> BOOLEAN] /\ clean' \in [Runs -> BOOLEAN]
    BY <2>1 DEF ProcessTypes, PassItem
  <2>5. \A u \in Runs : pc'[u] \in Working => todo'[u] # {}
    BY <2>1 DEF ProcessTypes, PassItem, Goto, Working
  <2>. QED
    BY <2>1, <2>2, <2>3, <2>4, <2>5 DEF ProcessTypes
<1>. QED
  BY <1>1, <1>2

\* A database with any columns canonical and no state file.
LEMMA InitInv == Init => IInv
<1>. SUFFICES ASSUME Init PROVE IInv
  OBVIOUS
<1>1. 0 \in 0 .. StopAfter /\ 0 \in 0 .. MaxFaults /\ 0 \in 0 .. MaxDrifts
  BY Bounds
<1>2. ProcessTypes /\ BudgetInv
  BY <1>1 DEF Init, ProcessTypes, Phases, Over, BudgetInv, Working
<1>3. TypeOK
  BY <1>1, <1>2 DEF Init, TypeOK, ProcessTypes
<1>4. RecordInv
  BY DEF Init, RecordInv, StateTellsTheTruth, CompletedInv, SeenInv, PassedInv
<1>5. AloneInv /\ RebuildInv
  BY DEF Init, AloneInv, Active, Over, RebuildInv, NoNeedlessRebuild
<1>. QED
  BY <1>2, <1>3, <1>4, <1>5 DEF IInv

\* Work starts only below --stop-after.
LEMMA BudgetStep ==
    ASSUME IInv, [Next]_vars
    PROVE  BudgetInv'
<1>. USE Bounds, ItemIsColumn DEF IInv, vars, database, local, history,
         BudgetInv, Working, TypeOK, Phases, Over
<1>a. ASSUME NEW r \in Runs, Generate(r) \/ Reuse(r)
      PROVE  \E items \in SUBSET Columns : Begin(r, items)
  BY <1>a DEF Generate, Reuse
<1>1. ASSUME NEW r \in Runs, NEW items \in SUBSET Columns, Begin(r, items) PROVE BudgetInv'
  BY <1>1 DEF Begin, Active, Goto
<1>2. ASSUME NEW r \in Runs, Load(r) PROVE BudgetInv'
  BY <1>2 DEF Load, Goto, Saving
<1>3. ASSUME NEW r \in Runs, Refuse(r) PROVE BudgetInv'
  BY <1>3 DEF Refuse, Leave, Goto, Fault
<1>4. ASSUME NEW r \in Runs, Skip(r) PROVE BudgetInv'
  BY <1>4 DEF Skip, PassItem
<1>5. ASSUME NEW r \in Runs, End(r) PROVE BudgetInv'
  BY <1>5 DEF End, Leave, Goto
<1>6. ASSUME NEW r \in Runs, VerifyBefore(r) PROVE BudgetInv'
  BY <1>6 DEF VerifyBefore, MoreToDo, Verify, Goto
<1>7. ASSUME NEW r \in Runs, AlreadyCanonical(r) PROVE BudgetInv'
  BY <1>7 DEF AlreadyCanonical, Mark, PassItem, Goto
<1>8. ASSUME NEW r \in Runs, Execute(r) PROVE BudgetInv'
  BY <1>8 DEF Execute, Goto
<1>9. ASSUME NEW r \in Runs, Alter(r) PROVE BudgetInv'
  BY <1>9 DEF Alter, Rebuilt, Fault, Goto
<1>10. ASSUME NEW r \in Runs, VerifyAfter(r) PROVE BudgetInv'
  BY <1>10 DEF VerifyAfter, Verify, Goto
<1>11. ASSUME NEW r \in Runs, Confirm(r) PROVE BudgetInv'
  BY <1>11 DEF Confirm, Mark, PassItem, Goto
<1>12. ASSUME NEW r \in Runs, Mismatch(r) PROVE BudgetInv'
  BY <1>12 DEF Mismatch, Report, PassItem, Leave, Goto
<1>13. ASSUME NEW r \in Runs, SaveFails(r) PROVE BudgetInv'
  BY <1>13 DEF SaveFails, Saving, Report, PassItem, Leave, Fault, Goto
<1>14. ASSUME NEW r \in Runs, Throw(r) PROVE BudgetInv'
  BY <1>14 DEF Throw, MoreToDo, Rebuilt, Report, PassItem, Leave, Fault, Goto
<1>15. ASSUME NEW r \in Runs, Crash(r) PROVE BudgetInv'
  BY <1>15 DEF Crash, Active, Saving, Leave, Fault, Goto
<1>16. ASSUME NEW c \in Columns, OrphanEnds(c) PROVE BudgetInv'
  BY <1>16 DEF OrphanEnds, Rebuilt
<1>17. ASSUME NEW c \in Columns, ChangeBack(c) PROVE BudgetInv'
  BY <1>17 DEF ChangeBack
<1>18. CASE UNCHANGED vars
  BY <1>18
<1>. QED
  BY <1>a, <1>1, <1>2, <1>3, <1>4, <1>5, <1>6, <1>7, <1>8, <1>9, 
     <1>10, <1>11, <1>12, <1>13, <1>14, <1>15, <1>16, <1>17, <1>18 DEF Next, Step

\* Every step keeps the types.
LEMMA TypeStep ==
    ASSUME IInv, [Next]_vars
    PROVE  TypeOK'
<1>. USE Bounds, ItemIsColumn DEF IInv, vars, database, local, history,
         TypeOK, Phases, Over, BudgetInv, Working
<1>a. ASSUME NEW r \in Runs, Generate(r) \/ Reuse(r)
      PROVE  \E items \in SUBSET Columns : Begin(r, items)
  BY <1>a DEF Generate, Reuse
<1>1. ASSUME NEW r \in Runs, NEW items \in SUBSET Columns, Begin(r, items) PROVE TypeOK'
  BY <1>1 DEF Begin, Active, Goto
<1>2. ASSUME NEW r \in Runs, Load(r) PROVE TypeOK'
  BY <1>2 DEF Load, Goto, Saving
<1>3. ASSUME NEW r \in Runs, Refuse(r) PROVE TypeOK'
  BY <1>3 DEF Refuse, Leave, Goto, Fault
<1>4. ASSUME NEW r \in Runs, Skip(r) PROVE TypeOK'
  BY <1>4 DEF Skip, PassItem
<1>5. ASSUME NEW r \in Runs, End(r) PROVE TypeOK'
  <2>1. ProcessTypes /\ clean[r] \in BOOLEAN
    BY DEF TypeOK, ProcessTypes, Working
  <2>2. ProcessTypes'
    BY <1>5, <2>1, LeaveTypes DEF End
  <2>. QED
    BY <1>5, <2>2 DEF ProcessTypes, End
<1>6. ASSUME NEW r \in Runs, VerifyBefore(r) PROVE TypeOK'
  BY <1>6 DEF VerifyBefore, MoreToDo, Verify, Goto
<1>7. ASSUME NEW r \in Runs, AlreadyCanonical(r) PROVE TypeOK'
  BY <1>7 DEF AlreadyCanonical, Mark, PassItem, Goto
<1>8. ASSUME NEW r \in Runs, Execute(r) PROVE TypeOK'
  BY <1>8 DEF Execute, Goto
<1>9. ASSUME NEW r \in Runs, Alter(r) PROVE TypeOK'
  BY <1>9 DEF Alter, Rebuilt, Fault, Goto
<1>10. ASSUME NEW r \in Runs, VerifyAfter(r) PROVE TypeOK'
  BY <1>10 DEF VerifyAfter, Verify, Goto
<1>11. ASSUME NEW r \in Runs, Confirm(r) PROVE TypeOK'
  BY <1>11 DEF Confirm, Mark, PassItem, Goto
<1>12. ASSUME NEW r \in Runs, Mismatch(r) PROVE TypeOK'
  <2>1. ProcessTypes
    BY DEF TypeOK, ProcessTypes, Working
  <2>2. done[r] \in SUBSET Columns
    BY <1>12
  <2>3. ProcessTypes'
    BY <1>12, <2>1, <2>2, ReportTypes DEF Mismatch
  <2>. QED
    BY <1>12, <2>3 DEF ProcessTypes, Mismatch
<1>13. ASSUME NEW r \in Runs, SaveFails(r) PROVE TypeOK'
  <2>1. ProcessTypes
    BY DEF TypeOK, ProcessTypes, Working
  <2>2. done[r] \cup {Item(r)} \in SUBSET Columns
    BY <1>13 DEF SaveFails, Saving
  <2>3. ProcessTypes'
    BY <1>13, <2>1, <2>2, ReportTypes DEF SaveFails
  <2>. QED
    BY <1>13, <2>3 DEF ProcessTypes, SaveFails, Saving, Fault
<1>14. ASSUME NEW r \in Runs, Throw(r) PROVE TypeOK'
  <2>1. ProcessTypes
    BY DEF TypeOK, ProcessTypes, Working
  <2>2. done[r] \in SUBSET Columns
    BY <1>14
  <2>3. ProcessTypes'
    BY <1>14, <2>1, <2>2, ReportTypes DEF Throw
  <2>. QED
    BY <1>14, <2>3 DEF ProcessTypes, Throw, MoreToDo, Rebuilt, Fault
<1>15. ASSUME NEW r \in Runs, Crash(r) PROVE TypeOK'
  BY <1>15 DEF Crash, Active, Saving, Leave, Fault, Goto
<1>16. ASSUME NEW c \in Columns, OrphanEnds(c) PROVE TypeOK'
  BY <1>16 DEF OrphanEnds, Rebuilt
<1>17. ASSUME NEW c \in Columns, ChangeBack(c) PROVE TypeOK'
  BY <1>17 DEF ChangeBack
<1>18. CASE UNCHANGED vars
  BY <1>18
<1>. QED
  BY <1>a, <1>1, <1>2, <1>3, <1>4, <1>5, <1>6, <1>7, <1>8, <1>9, 
     <1>10, <1>11, <1>12, <1>13, <1>14, <1>15, <1>16, <1>17, <1>18 DEF Next, Step

\* Until the first overlap one process is active at a time.
LEMMA AloneStep ==
    ASSUME IInv, [Next]_vars
    PROVE  AloneInv'
<1>. USE Bounds, ItemIsColumn DEF IInv, vars, database, local, history,
         AloneInv, Active, Over, TypeOK
<1>a. ASSUME NEW r \in Runs, Generate(r) \/ Reuse(r)
      PROVE  \E items \in SUBSET Columns : Begin(r, items)
  BY <1>a DEF Generate, Reuse
<1>1. ASSUME NEW r \in Runs, NEW items \in SUBSET Columns, Begin(r, items) PROVE AloneInv'
  BY <1>1 DEF Begin, Goto
<1>2. ASSUME NEW r \in Runs, Load(r) PROVE AloneInv'
  BY <1>2 DEF Load, Goto, Saving
<1>3. ASSUME NEW r \in Runs, Refuse(r) PROVE AloneInv'
  BY <1>3 DEF Refuse, Leave, Goto, Fault
<1>4. ASSUME NEW r \in Runs, Skip(r) PROVE AloneInv'
  BY <1>4 DEF Skip, PassItem
<1>5. ASSUME NEW r \in Runs, End(r) PROVE AloneInv'
  BY <1>5 DEF End, Leave, Goto
<1>6. ASSUME NEW r \in Runs, VerifyBefore(r) PROVE AloneInv'
  BY <1>6 DEF VerifyBefore, MoreToDo, Verify, Goto
<1>7. ASSUME NEW r \in Runs, AlreadyCanonical(r) PROVE AloneInv'
  BY <1>7 DEF AlreadyCanonical, Mark, PassItem, Goto
<1>8. ASSUME NEW r \in Runs, Execute(r) PROVE AloneInv'
  BY <1>8 DEF Execute, Goto
<1>9. ASSUME NEW r \in Runs, Alter(r) PROVE AloneInv'
  BY <1>9 DEF Alter, Rebuilt, Fault, Goto
<1>10. ASSUME NEW r \in Runs, VerifyAfter(r) PROVE AloneInv'
  BY <1>10 DEF VerifyAfter, Verify, Goto
<1>11. ASSUME NEW r \in Runs, Confirm(r) PROVE AloneInv'
  BY <1>11 DEF Confirm, Mark, PassItem, Goto
<1>12. ASSUME NEW r \in Runs, Mismatch(r) PROVE AloneInv'
  BY <1>12 DEF Mismatch, Report, PassItem, Leave, Goto
<1>13. ASSUME NEW r \in Runs, SaveFails(r) PROVE AloneInv'
  BY <1>13 DEF SaveFails, Saving, Report, PassItem, Leave, Fault, Goto
<1>14. ASSUME NEW r \in Runs, Throw(r) PROVE AloneInv'
  BY <1>14 DEF Throw, MoreToDo, Rebuilt, Report, PassItem, Leave, Fault, Goto
<1>15. ASSUME NEW r \in Runs, Crash(r) PROVE AloneInv'
  BY <1>15 DEF Crash, Saving, Leave, Fault, Goto
<1>16. ASSUME NEW c \in Columns, OrphanEnds(c) PROVE AloneInv'
  BY <1>16 DEF OrphanEnds, Rebuilt
<1>17. ASSUME NEW c \in Columns, ChangeBack(c) PROVE AloneInv'
  BY <1>17 DEF ChangeBack
<1>18. CASE UNCHANGED vars
  BY <1>18
<1>. QED
  BY <1>a, <1>1, <1>2, <1>3, <1>4, <1>5, <1>6, <1>7, <1>8, <1>9, 
     <1>10, <1>11, <1>12, <1>13, <1>14, <1>15, <1>16, <1>17, <1>18 DEF Next, Step

\* Every step keeps the records true.
LEMMA RecordStep ==
    ASSUME IInv, [Next]_vars
    PROVE  RecordInv'
<1>. USE Bounds, ItemIsColumn DEF IInv, vars, database, local, history,
         RecordInv, StateTellsTheTruth, CompletedInv, SeenInv, PassedInv, Safe, Item, TypeOK, Over
<1>a. ASSUME NEW r \in Runs, Generate(r) \/ Reuse(r)
      PROVE  \E items \in SUBSET Columns : Begin(r, items)
  BY <1>a DEF Generate, Reuse
<1>1. ASSUME NEW r \in Runs, NEW items \in SUBSET Columns, Begin(r, items) PROVE RecordInv'
  BY <1>1 DEF Begin, Active, Goto
<1>2. ASSUME NEW r \in Runs, Load(r) PROVE RecordInv'
  BY <1>2 DEF Load, Goto, Saving
<1>3. ASSUME NEW r \in Runs, Refuse(r) PROVE RecordInv'
  BY <1>3 DEF Refuse, Leave, Goto, Fault
<1>4. ASSUME NEW r \in Runs, Skip(r) PROVE RecordInv'
  BY <1>4 DEF Skip, PassItem
<1>5. ASSUME NEW r \in Runs, End(r) PROVE RecordInv'
  BY <1>5 DEF End, Leave, Goto
<1>6. ASSUME NEW r \in Runs, VerifyBefore(r) PROVE RecordInv'
  BY <1>6 DEF VerifyBefore, MoreToDo, Verify, Goto
<1>7. ASSUME NEW r \in Runs, AlreadyCanonical(r) PROVE RecordInv'
  BY <1>7 DEF AlreadyCanonical, Mark, PassItem, Goto
<1>8. ASSUME NEW r \in Runs, Execute(r) PROVE RecordInv'
  BY <1>8 DEF Execute, Goto
<1>9. ASSUME NEW r \in Runs, Alter(r) PROVE RecordInv'
  BY <1>9 DEF Alter, Rebuilt, Fault, Goto
<1>10. ASSUME NEW r \in Runs, VerifyAfter(r) PROVE RecordInv'
  BY <1>10 DEF VerifyAfter, Verify, Goto
<1>11. ASSUME NEW r \in Runs, Confirm(r) PROVE RecordInv'
  BY <1>11 DEF Confirm, Mark, PassItem, Goto
<1>12. ASSUME NEW r \in Runs, Mismatch(r) PROVE RecordInv'
  BY <1>12 DEF Mismatch, Report, PassItem, Leave, Goto
<1>13. ASSUME NEW r \in Runs, SaveFails(r) PROVE RecordInv'
  BY <1>13 DEF SaveFails, Saving, Report, PassItem, Leave, Fault, Goto
<1>14. ASSUME NEW r \in Runs, Throw(r) PROVE RecordInv'
  BY <1>14 DEF Throw, MoreToDo, Rebuilt, Report, PassItem, Leave, Fault, Goto
<1>15. ASSUME NEW r \in Runs, Crash(r) PROVE RecordInv'
  BY <1>15 DEF Crash, Active, Saving, Leave, Fault, Goto
<1>16. ASSUME NEW c \in Columns, OrphanEnds(c) PROVE RecordInv'
  BY <1>16 DEF OrphanEnds, Rebuilt
<1>17. ASSUME NEW c \in Columns, ChangeBack(c) PROVE RecordInv'
  BY <1>17 DEF ChangeBack
<1>18. CASE UNCHANGED vars
  BY <1>18
<1>. QED
  BY <1>a, <1>1, <1>2, <1>3, <1>4, <1>5, <1>6, <1>7, <1>8, <1>9, 
     <1>10, <1>11, <1>12, <1>13, <1>14, <1>15, <1>16, <1>17, <1>18 DEF Next, Step

\* Every step keeps what is known about needless rebuilds.
LEMMA RebuildStep ==
    ASSUME IInv, [Next]_vars
    PROVE  RebuildInv'
<1>. USE Bounds, ItemIsColumn DEF IInv, vars, database, local, history,
         RebuildInv, NoNeedlessRebuild, AloneInv, Active, Over, Item, TypeOK
<1>a. ASSUME NEW r \in Runs, Generate(r) \/ Reuse(r)
      PROVE  \E items \in SUBSET Columns : Begin(r, items)
  BY <1>a DEF Generate, Reuse
<1>1. ASSUME NEW r \in Runs, NEW items \in SUBSET Columns, Begin(r, items) PROVE RebuildInv'
  BY <1>1 DEF Begin, Goto
<1>2. ASSUME NEW r \in Runs, Load(r) PROVE RebuildInv'
  BY <1>2 DEF Load, Goto, Saving
<1>3. ASSUME NEW r \in Runs, Refuse(r) PROVE RebuildInv'
  BY <1>3 DEF Refuse, Leave, Goto, Fault
<1>4. ASSUME NEW r \in Runs, Skip(r) PROVE RebuildInv'
  BY <1>4 DEF Skip, PassItem
<1>5. ASSUME NEW r \in Runs, End(r) PROVE RebuildInv'
  BY <1>5 DEF End, Leave, Goto
<1>6. ASSUME NEW r \in Runs, VerifyBefore(r) PROVE RebuildInv'
  BY <1>6 DEF VerifyBefore, MoreToDo, Verify, Goto
<1>7. ASSUME NEW r \in Runs, AlreadyCanonical(r) PROVE RebuildInv'
  BY <1>7 DEF AlreadyCanonical, Mark, PassItem, Goto
<1>8. ASSUME NEW r \in Runs, Execute(r) PROVE RebuildInv'
  BY <1>8 DEF Execute, Goto
<1>9. ASSUME NEW r \in Runs, Alter(r) PROVE RebuildInv'
  BY <1>9 DEF Alter, Rebuilt, Fault, Goto
<1>10. ASSUME NEW r \in Runs, VerifyAfter(r) PROVE RebuildInv'
  BY <1>10 DEF VerifyAfter, Verify, Goto
<1>11. ASSUME NEW r \in Runs, Confirm(r) PROVE RebuildInv'
  BY <1>11 DEF Confirm, Mark, PassItem, Goto
<1>12. ASSUME NEW r \in Runs, Mismatch(r) PROVE RebuildInv'
  BY <1>12 DEF Mismatch, Report, PassItem, Leave, Goto
<1>13. ASSUME NEW r \in Runs, SaveFails(r) PROVE RebuildInv'
  BY <1>13 DEF SaveFails, Saving, Report, PassItem, Leave, Fault, Goto
<1>14. ASSUME NEW r \in Runs, Throw(r) PROVE RebuildInv'
  BY <1>14 DEF Throw, MoreToDo, Rebuilt, Report, PassItem, Leave, Fault, Goto
<1>15. ASSUME NEW r \in Runs, Crash(r) PROVE RebuildInv'
  BY <1>15 DEF Crash, Saving, Leave, Fault, Goto
<1>16. ASSUME NEW c \in Columns, OrphanEnds(c) PROVE RebuildInv'
  BY <1>16 DEF OrphanEnds, Rebuilt
<1>17. ASSUME NEW c \in Columns, ChangeBack(c) PROVE RebuildInv'
  BY <1>17 DEF ChangeBack
<1>18. CASE UNCHANGED vars
  BY <1>18
<1>. QED
  BY <1>a, <1>1, <1>2, <1>3, <1>4, <1>5, <1>6, <1>7, <1>8, <1>9, 
     <1>10, <1>11, <1>12, <1>13, <1>14, <1>15, <1>16, <1>17, <1>18 DEF Next, Step

-----------------------------------------------------------------------------
\* The inductive invariant.
THEOREM Invariance == Spec => []IInv
<1>1. Init => IInv
  BY InitInv
<1>2. IInv /\ [Next]_vars => IInv'
  BY BudgetStep, TypeStep, AloneStep, RecordStep, RebuildStep DEF IInv
<1>. QED
  BY <1>1, <1>2, PTL DEF Spec

(***************************************************************************)
(* The variables of every process stay in their types, and --stop-after    *)
(* bounds what a process applies.                                          *)
(***************************************************************************)
THEOREM TypeCorrect == Spec => []TypeOK
<1>1. IInv => TypeOK
  BY DEF IInv
<1>. QED
  BY <1>1, Invariance, PTL

(***************************************************************************)
(* What the state file calls completed is canonical or was changed back,   *)
(* however many processes crash, fail, overlap and tear the file.          *)
(***************************************************************************)
THEOREM StateFileIsTrue == Spec => []StateTellsTheTruth
<1>1. IInv => StateTellsTheTruth
  BY DEF IInv, RecordInv
<1>. QED
  BY <1>1, Invariance, PTL

(***************************************************************************)
(* A run that ends clean leaves its whole manifest canonical.              *)
(***************************************************************************)
THEOREM CleanRunsComplete == Spec => []CleanRunsAreComplete
<1>1. IInv => CleanRunsAreComplete
  BY DEF IInv, RecordInv, PassedInv, CleanRunsAreComplete, Safe
<1>. QED
  BY <1>1, Invariance, PTL

(***************************************************************************)
(* Before any overlap, a canonical column is rebuilt only by or after an   *)
(* ALTER that outlived its run.                                            *)
(***************************************************************************)
THEOREM RebuildsAreNeeded == Spec => []NoNeedlessRebuild
<1>1. IInv => NoNeedlessRebuild
  BY DEF IInv, RebuildInv
<1>. QED
  BY <1>1, Invariance, PTL

=============================================================================
