------------------------- MODULE ModelObjectsProofs -------------------------
(***************************************************************************)
(* Proofs about ModelObjects for any servers, callers, calls and faults.   *)
(*                                                                         *)
(* Until a patch is repeated after a lost connection, every nonce is       *)
(* written with one version of the row, so a patch whose comparison found  *)
(* equal nonces has compared versions.                                     *)
(***************************************************************************)
EXTENDS ModelObjects, TLAPS

Loads == {"get", "link", "reload"}
Patches == {"patch", "retry", "remove"}

\* Which calls are in which phase, and how often their UPDATE has been applied.
PhaseOf(l) ==
    /\ l.pc # "idle" => l.made > 0
    /\ l.pc \in {"read", "lookup", "construct", "register"} => l.op \in Loads
    /\ l.pc \in {"check", "update", "select"} => l.op \in Patches
    /\ l.pc = "delete" => l.op = "delete"
    /\ l.pc \in {"check", "delay", "ask"} => l.writes = 0
    /\ l.op = "reload" => l.writes = 0
    /\ l.pc = "update" => l.reconnected \/ l.writes = 0
    /\ l.pc \in {"inflate", "store"} /\ l.op \in Patches => l.writes > 0
    /\ l.writes > 1 => l.reconnected
    /\ l.outcome \in {"refused", "abandoned"} => l.writes = 0
    /\ l.outcome = "ok" /\ l.op \in Patches => l.writes > 0
    /\ l.outcome # "none" => l.pc = "idle"

PhaseInv == \A c \in Callers : PhaseOf(call[c])

\* An UPDATE that touched nothing found no row; a repeated one needs a lost connection.
WriteInv ==
    \A c \in Callers :
        /\ call[c].pc = "select" => call[c].writes > 0 \/ disk = Gone
        /\ call[c].reconnected => "connection" \in faulted

\* The rows and copies of rows that are in use anywhere.
RowsInUse ==
    {disk, replica} \cup {shows[i] : i \in Instances}
        \cup {call[c].row : c \in Callers} \cup {call[c].base : c \in Callers}

\* A nonce in use was written by a patch that has begun and has been applied.
NonceIsOld(r) ==
    r.nonce # None =>
        LET c == r.nonce[1] IN
        \/ r.nonce[2] < call[c].made
        \/ r.nonce[2] = call[c].made /\ call[c].writes > 0

NonceInv ==
    /\ \A r \in RowsInUse : NonceIsOld(r)
    /\ "connection" \notin faulted =>
         \A r, q \in RowsInUse : r.nonce # None /\ r.nonce = q.nonce => r.ver = q.ver

\* What the comparison has found out, and what can have happened since.
Compared(c) == disk.nonce = None \/ disk.ver = call[c].base.ver \/ disk.ver > call[c].since

CompareInv ==
    \A c \in Callers :
        /\ call[c].since <= version
        /\ call[c].pc = "check" => call[c].memoryNonce = call[c].base.nonce
        /\ call[c].pc = "update" /\ "connection" \notin faulted => Compared(c)

IInv ==
    /\ TypeOK
    /\ PhaseInv
    /\ WriteInv
    /\ NonceInv
    /\ CompareInv

-----------------------------------------------------------------------------
\* The bounds of the model are numbers.
LEMMA Bounds == MaxCalls \in Nat /\ MaxBuilt \in Nat /\ MaxFaults \in Nat
  BY BoundsAssumption

LEMMA RowTypes == Gone \in Rows /\ Blank = Gone /\ FirstRow \in Rows /\ FirstRow # Gone
  BY DEF Gone, Blank, FirstRow, Rows

\* The part of TypeOK about the calls.
CallTypes ==
    /\ call \in [Callers -> Locals]
    /\ \A c \in Callers :
         /\ call[c].pc \in {"lookup", "construct", "register", "inflate"} => call[c].row # Gone
         /\ call[c].pc \in Phases \ {"idle", "read", "lookup", "construct"} => call[c].ref # None

LocalsOK(l) ==
    /\ l \in Locals
    /\ l.pc \in {"lookup", "construct", "register", "inflate"} => l.row # Gone
    /\ l.pc \in Phases \ {"idle", "read", "lookup", "construct"} => l.ref # None

LEMMA CallChanges ==
    ASSUME CallTypes, NEW c \in Callers, NEW l, LocalsOK(l), call' = [call EXCEPT ![c] = l]
    PROVE  CallTypes'
  BY DEF CallTypes, LocalsOK

\* How a call ends, and how the next one begins.
LEMMA EndedTypes ==
    ASSUME CallTypes, NEW c \in Callers, NEW ref \in Instances \cup {None}, NEW outcome \in Outcomes
    PROVE  LocalsOK(Ended(c, ref, outcome))
  BY RowTypes, ZenonT(60) DEF CallTypes, LocalsOK, Ended, NoCall, Locals, Phases, Outcomes, Ops

LEMMA BegunTypes ==
    ASSUME CallTypes, plan \in Plans, NEW c \in Callers,
           NEW what \in Ops, Ready(c, what), NEW phase \in Phases
    PROVE  /\ Begun(c, what, phase) \in Locals
           /\ Begun(c, what, phase).pc = phase
           /\ Begun(c, what, phase).ref = call[c].ref
<1>1. call[c].made + 1 \in 0 .. MaxCalls
  <2>1. Len(plan[c]) <= MaxCalls /\ Len(plan[c]) \in Nat
    BY PlansAssumption
  <2>2. call[c].made \in Nat /\ call[c].made < Len(plan[c])
    BY DEF CallTypes, Locals, Ready
  <2>. QED
    BY <2>1, <2>2, Bounds
<1>2. call[c].built \in 0 .. MaxBuilt /\ call[c].ref \in Instances \cup {None}
  BY DEF CallTypes, Locals
<1>3. Begun(c, what, phase) =
        [NoCall EXCEPT !.pc = phase, !.op = what, !.made = call[c].made + 1,
                       !.built = call[c].built, !.ref = call[c].ref]
  BY DEF Begun
<1>4. Begun(c, what, phase) \in Locals
  <2>1. NoCall \in Locals
    BY RowTypes, Bounds DEF NoCall, Locals, Phases, Outcomes, Ops
  <2>. QED
    BY <1>1, <1>2, <1>3, <2>1 DEF Locals
<1>. QED
  BY <1>3, <1>4 DEF NoCall

\* The part of TypeOK about everything else.
WorldTypes ==
    /\ plan \in Plans
    /\ disk \in Rows /\ replica \in Rows
    /\ version \in Nat
    /\ cache \in [Servers -> Instances \cup {None}]
    /\ shows \in [Instances -> Rows]
    /\ overlapped \subseteq Servers /\ dropped \subseteq Servers
    /\ faulted \subseteq {"link", "connection"}
    /\ faults \in 0 .. MaxFaults

LEMMA TypeParts == TypeOK <=> WorldTypes /\ CallTypes
  BY DEF TypeOK, WorldTypes, CallTypes

LEMMA HomeIsServer == ASSUME NEW c \in Callers PROVE On[c] \in Servers
  BY OnAssumption

LEMMA FaultTypes ==
    ASSUME WorldTypes, NEW what \in {"link", "connection"}, Fault(what)
    PROVE  faulted' \subseteq {"link", "connection"} /\ faults' \in 0 .. MaxFaults
  BY Bounds DEF WorldTypes, Fault

LEMMA SetCachedIdTypes ==
    ASSUME WorldTypes, CallTypes, NEW c \in Callers, call[c].ref # None, SetCachedId(c)
    PROVE  /\ cache' \in [Servers -> Instances \cup {None}]
           /\ shows' \in [Instances -> Rows]
<1>1. call[c].ref \in Instances /\ call[c].seen \in Instances \cup {None}
  BY DEF CallTypes, Locals
<1>. QED
  BY <1>1, HomeIsServer DEF WorldTypes, SetCachedId, SetCached

LEMMA AttemptTypes ==
    ASSUME WorldTypes, CallTypes, NEW c \in Callers, NEW l \in Locals,
           l.ref = call[c].ref, l.ref # None, shows[l.ref] \in Rows
    PROVE  LocalsOK(Attempt(c, l))
  BY DEF LocalsOK, Attempt, Locals, Rows, WorldTypes, Phases

\* The world stays well typed whatever a caller does.
LEMMA WorldStep ==
    ASSUME WorldTypes, CallTypes, PhaseInv, NEW c \in Callers, Step(c)
    PROVE  WorldTypes'
<1>. USE HomeIsServer
<1>1. CASE Read(c)
  BY <1>1 DEF Read, WorldTypes, store, objects, history
<1>2. CASE Lookup(c)
  BY <1>2 DEF Lookup, WorldTypes, store, objects, history
<1>3. CASE Construct(c)
  BY <1>3 DEF Construct, WorldTypes, store, objects, history
<1>4. CASE Register(c)
  <2>1. call[c].ref # None
    BY <1>4 DEF Register, At, CallTypes, Phases
  <2>2. cache' \in [Servers -> Instances \cup {None}] /\ shows' \in [Instances -> Rows]
    BY <1>4, <2>1, SetCachedIdTypes DEF Register
  <2>. QED
    BY <1>4, <2>2 DEF Register, WorldTypes, store, history
<1>5. CASE Inflate(c)
  BY <1>5 DEF Inflate, WorldTypes, store, objects, history, At, CallTypes, Locals, Phases
<1>6. CASE InflateFails(c)
  <2>1. faulted' \subseteq {"link", "connection"} /\ faults' \in 0 .. MaxFaults
    BY <1>6, FaultTypes DEF InflateFails
  <2>. QED
    BY <1>6, <2>1 DEF InflateFails, WorldTypes, store, objects
<1>7. CASE Store(c)
  <2>1. call[c].ref # None
    BY <1>7 DEF Store, At, CallTypes, Phases
  <2>2. cache' \in [Servers -> Instances \cup {None}] /\ shows' \in [Instances -> Rows]
    BY <1>7, <2>1, SetCachedIdTypes DEF Store
  <2>. QED
    BY <1>7, <2>2 DEF Store, WorldTypes, store, history
<1>8. CASE CheckGone(c)
  BY <1>8 DEF CheckGone, WorldTypes, store, objects, history
<1>9. CASE CheckPasses(c)
  BY <1>9 DEF CheckPasses, WorldTypes, store, objects, history
<1>10. CASE CheckRefuses(c)
  BY <1>10 DEF CheckRefuses, WorldTypes, store, objects, history
<1>11. CASE Reload(c)
  BY <1>11 DEF Reload, WorldTypes, store, objects, history
<1>12. CASE AskShouldRetry(c)
  BY <1>12 DEF AskShouldRetry, WorldTypes, store, objects, history
<1>13. CASE Update(c)
  <2>1. <<c, call[c].made>> \in Nonces
    BY <1>13, Bounds DEF Update, At, PhaseInv, PhaseOf, CallTypes, Locals, Nonces
  <2>2. [ver |-> version + 1, nonce |-> <<c, call[c].made>>] \in Rows /\ version + 1 \in Nat
    BY <2>1 DEF Rows, WorldTypes
  <2>3. disk' \in Rows /\ replica' \in Rows /\ version' \in Nat
    BY <1>13, <2>2 DEF Update, WorldTypes, store
  <2>. QED
    BY <1>13, <2>3 DEF Update, WorldTypes, objects, history
<1>14. CASE Select(c)
  BY <1>14 DEF Select, WorldTypes, store, objects, history
<1>15. CASE ConnectionLost(c)
  <2>1. faulted' \subseteq {"link", "connection"} /\ faults' \in 0 .. MaxFaults
    BY <1>15, FaultTypes DEF ConnectionLost
  <2>. QED
    BY <1>15, <2>1 DEF ConnectionLost, WorldTypes, store, objects
<1>16. CASE DeleteRow(c)
  BY <1>16, RowTypes DEF DeleteRow, WorldTypes, store, objects, history
<1>17. CASE Get(c)
  BY <1>17 DEF Get, WorldTypes, store, objects, history
<1>18. CASE Patch(c)
  BY <1>18 DEF Patch, WorldTypes, store, objects, history, Drop, SetCached
<1>19. CASE ReallyDelete(c)
  BY <1>19 DEF ReallyDelete, WorldTypes, store, objects, history, Drop, SetCached
<1>20. CASE ClearCache(c)
  BY <1>20 DEF ClearCache, WorldTypes, store, objects, history, Drop, SetCached
<1>. QED
  BY <1>1, <1>2, <1>3, <1>4, <1>5, <1>6, <1>7, <1>8, <1>9, <1>10, <1>11, <1>12, <1>13,
     <1>14, <1>15, <1>16, <1>17, <1>18, <1>19, <1>20
     DEF Step, Proceed

\* So do the calls.
LEMMA CallStep ==
    ASSUME WorldTypes, CallTypes, PhaseInv, NEW c \in Callers, Step(c)
    PROVE  CallTypes'
<1>. DEFINE l == call[c]
<1>1. l \in Locals /\ l.ref \in Instances \cup {None} /\ l.seen \in Instances \cup {None}
  BY DEF CallTypes, Locals
<1>2. cache[On[c]] \in Instances \cup {None} /\ replica \in Rows /\ disk \in Rows
  BY HomeIsServer DEF WorldTypes
<1>3. l.ref # None => shows[l.ref] \in Rows
  BY <1>1 DEF WorldTypes
<1>. plan \in Plans
  BY DEF WorldTypes
<1>4. CASE Read(c)
  <2>1. LocalsOK(Ended(c, None, "null"))
    BY EndedTypes DEF Outcomes
  <2>2. ASSUME replica # Gone
        PROVE  LocalsOK([l EXCEPT !.row = replica, !.pc = "lookup"])
    BY <1>1, <1>2, <2>2 DEF LocalsOK, Locals, Phases
  <2>. QED
    BY <2>1, <2>2, <1>4, CallChanges, ZenonT(60) DEF Read, End
<1>5. CASE Lookup(c)
  <2>. DEFINE n == [l EXCEPT !.seen = Cached(c), !.pc = "construct"]
  <2>1. LocalsOK(n)
    BY <1>1, <1>2, <1>5 DEF LocalsOK, CallTypes, Lookup, At, Cached, Locals, Phases
  <2>. QED
    BY <2>1, <1>5, CallChanges DEF Lookup
<1>6. CASE Construct(c)
  <2>1. ASSUME l.seen # None
        PROVE  LocalsOK([l EXCEPT !.ref = l.seen, !.seen = None, !.pc = "inflate"])
    BY <1>1, <2>1, <1>6 DEF LocalsOK, CallTypes, Construct, At, Locals, Phases
  <2>2. ASSUME l.built < MaxBuilt
        PROVE  LocalsOK([l EXCEPT !.built = @ + 1, !.ref = New(c), !.seen = Cached(c),
                                  !.pc = "register"])
    <3>1. l.built + 1 \in 0 .. MaxBuilt /\ l.built + 1 \in 1 .. MaxBuilt
      BY <1>1, <2>2, Bounds DEF Locals
    <3>2. New(c) \in Instances /\ New(c) # None
      BY <3>1, NoneAssumption DEF New, Instances
    <3>. QED
      BY <1>1, <1>2, <3>1, <3>2, <1>6
         DEF LocalsOK, CallTypes, Construct, At, Cached, Locals, Phases
  <2>. QED
    <3>1. CASE l.seen # None
      <4>1. call' = [call EXCEPT ![c] = [l EXCEPT !.ref = l.seen, !.seen = None, !.pc = "inflate"]]
        BY <3>1, <1>6 DEF Construct, CallTypes
      <4>. QED
        BY <2>1, <3>1, <4>1, CallChanges
    <3>2. CASE l.seen = None
      <4>1. /\ l.built < MaxBuilt
            /\ call' = [call EXCEPT ![c] =
                 [l EXCEPT !.built = @ + 1, !.ref = New(c), !.seen = Cached(c), !.pc = "register"]]
        BY <3>2, <1>6 DEF Construct, Constructed, CallTypes
      <4>. QED
        BY <2>2, <4>1, CallChanges
    <3>. QED
      BY <3>1, <3>2
<1>7. CASE Register(c)
  <2>. DEFINE n == [l EXCEPT !.seen = None, !.pc = "inflate"]
  <2>1. LocalsOK(n)
    BY <1>1, <1>7 DEF LocalsOK, CallTypes, Register, At, Locals, Phases
  <2>. QED
    BY <2>1, <1>7, CallChanges DEF Register
<1>8. CASE Inflate(c)
  <2>. DEFINE n == [l EXCEPT !.seen = Cached(c), !.row = Blank, !.pc = "store"]
  <2>1. LocalsOK(n)
    BY <1>1, <1>2, <1>8, RowTypes
       DEF LocalsOK, CallTypes, Inflate, At, Cached, Locals, Phases
  <2>. QED
    BY <2>1, <1>8, CallChanges DEF Inflate
<1>9. CASE InflateFails(c)
  <2>. DEFINE ref == IF l.op \in {"get", "link"} THEN None ELSE l.ref
  <2>1. LocalsOK(Ended(c, ref, "failed"))
    BY <1>1, EndedTypes DEF Outcomes
  <2>. QED
    BY <2>1, <1>9, CallChanges DEF InflateFails, End
<1>10. CASE Store(c)
  <2>1. LocalsOK([l EXCEPT !.seen = None, !.pc = "ask"])
    BY <1>1, <1>10 DEF LocalsOK, CallTypes, Store, At, Locals, Phases
  <2>2. LocalsOK(Ended(c, l.ref, "ok"))
    BY <1>1, EndedTypes DEF Outcomes
  <2>. QED
    <3>1. CASE l.op = "reload"
      <4>1. call' = [call EXCEPT ![c] = [l EXCEPT !.seen = None, !.pc = "ask"]]
        BY <3>1, <1>10 DEF Store, CallTypes
      <4>. QED
        BY <2>1, <4>1, CallChanges
    <3>2. CASE l.op # "reload"
      BY <2>2, <3>2, <1>10, CallChanges DEF Store, End
    <3>. QED
      BY <3>1, <3>2
<1>11. CASE CheckGone(c)
  <2>1. LocalsOK(Ended(c, l.ref, "failed"))
    BY <1>1, EndedTypes DEF Outcomes
  <2>. QED
    BY <2>1, <1>11, CallChanges DEF CheckGone, End
<1>12. CASE CheckPasses(c)
  <2>. DEFINE n == [l EXCEPT !.pc = "update"]
  <2>1. LocalsOK(n)
    BY <1>1, <1>12 DEF LocalsOK, CallTypes, CheckPasses, At, Locals, Phases
  <2>. QED
    BY <2>1, <1>12, CallChanges DEF CheckPasses, Goto
<1>13. CASE CheckRefuses(c)
  <2>1. LocalsOK([l EXCEPT !.pc = "delay"])
    BY <1>1, <1>13 DEF LocalsOK, CallTypes, CheckRefuses, At, Locals, Phases
  <2>2. LocalsOK(Ended(c, l.ref, "refused"))
    BY <1>1, EndedTypes DEF Outcomes
  <2>. QED
    BY <2>1, <2>2, <1>13, CallChanges DEF CheckRefuses, Goto, End
<1>14. CASE Reload(c)
  <2>. DEFINE n == [l EXCEPT !.op = "reload", !.ref = None, !.pc = "read"]
  <2>1. LocalsOK(n)
    BY <1>1, <1>14 DEF LocalsOK, Reload, Locals, Phases
  <2>. QED
    BY <2>1, <1>14, CallChanges DEF Reload
<1>15. CASE AskShouldRetry(c)
  <2>1. LocalsOK(Attempt(c, [l EXCEPT !.op = "retry"]))
    <3>1. l.ref # None /\ [l EXCEPT !.op = "retry"] \in Locals /\ l.ref = [l EXCEPT !.op = "retry"].ref
      BY <1>1, <1>15 DEF CallTypes, AskShouldRetry, At, Phases, Ops, Locals
    <3>. QED
      BY <1>3, <3>1, AttemptTypes
  <2>2. LocalsOK(Ended(c, l.ref, "abandoned"))
    BY <1>1, EndedTypes DEF Outcomes
  <2>. QED
    BY <2>1, <2>2, <1>15, CallChanges DEF AskShouldRetry, End
<1>16. CASE Update(c)
  <2>. DEFINE writes == IF disk = Gone THEN l.writes ELSE l.writes + 1
              n == [l EXCEPT !.pc = "select", !.writes = writes]
  <2>2. writes \in Nat
    BY <1>1 DEF Locals
  <2>1. LocalsOK(n)
    <3>. HIDE DEF writes
    <3>. QED
      BY <1>1, <1>16, <2>2 DEF LocalsOK, CallTypes, Update, At, Locals, Phases
  <2>. QED
    BY <2>1, <1>16, CallChanges DEF Update
<1>17. CASE Select(c)
  <2>1. LocalsOK(Ended(c, l.ref, "gone"))
    BY <1>1, EndedTypes DEF Outcomes
  <2>2. ASSUME disk # Gone
        PROVE  LocalsOK([l EXCEPT !.row = disk, !.pc = "inflate"])
    BY <1>1, <1>2, <2>2, <1>17 DEF LocalsOK, CallTypes, Select, At, Locals, Phases
  <2>. QED
    BY <2>1, <2>2, <1>17, CallChanges, ZenonT(60) DEF Select, End
<1>18. CASE ConnectionLost(c)
  <2>1. LocalsOK(Ended(c, l.ref, "failed"))
    BY <1>1, EndedTypes DEF Outcomes
  <2>2. LocalsOK([l EXCEPT !.reconnected = TRUE, !.pc = "update"])
    BY <1>1, <1>18 DEF LocalsOK, CallTypes, ConnectionLost, Locals, Phases
  <2>. QED
    <3>1. CASE l.reconnected
      BY <2>1, <3>1, <1>18, CallChanges DEF ConnectionLost, End
    <3>2. CASE ~l.reconnected
      <4>1. call' = [call EXCEPT ![c] = [l EXCEPT !.reconnected = TRUE, !.pc = "update"]]
        BY <3>2, <1>18 DEF ConnectionLost, CallTypes
      <4>. QED
        BY <2>2, <4>1, CallChanges
    <3>. QED
      BY <3>1, <3>2
<1>19. CASE DeleteRow(c)
  <2>1. LocalsOK(Ended(c, l.ref, "ok"))
    BY <1>1, EndedTypes DEF Outcomes
  <2>. QED
    BY <2>1, <1>19, CallChanges DEF DeleteRow, End
<1>20. CASE Get(c)
  <2>1. PICK what \in {"get", "link"} :
          /\ Ready(c, what)
          /\ \/ call' = [call EXCEPT ![c] =
                   [Begun(c, what, "idle") EXCEPT !.ref = Cached(c), !.outcome = "ok"]]
             \/ call' = [call EXCEPT ![c] = [Begun(c, what, "read") EXCEPT !.ref = None]]
    BY <1>20 DEF Get
  <2>2. what \in Ops /\ {"idle", "read"} \subseteq Phases /\ "ok" \in Outcomes
    BY DEF Ops, Phases, Outcomes
  <2>3. LocalsOK([Begun(c, what, "idle") EXCEPT !.ref = Cached(c), !.outcome = "ok"])
    <3>1. Begun(c, what, "idle") \in Locals /\ Begun(c, what, "idle").pc = "idle"
      BY <2>1, <2>2, BegunTypes
    <3>. QED
      BY <1>2, <2>2, <3>1 DEF LocalsOK, Cached, Locals
  <2>4. LocalsOK([Begun(c, what, "read") EXCEPT !.ref = None])
    <3>1. Begun(c, what, "read") \in Locals /\ Begun(c, what, "read").pc = "read"
      BY <2>1, <2>2, BegunTypes
    <3>. QED
      BY <3>1 DEF LocalsOK, Locals
  <2>. QED
    BY <2>1, <2>3, <2>4, CallChanges
<1>21. CASE Patch(c)
  <2>1. PICK what \in Patches :
          Ready(c, what) /\ call' = [call EXCEPT ![c] = Attempt(c, Begun(c, what, "check"))]
    BY <1>21 DEF Patch, Patches
  <2>2. /\ Begun(c, what, "check") \in Locals
        /\ Begun(c, what, "check").ref = l.ref
    <3>1. what \in Ops /\ "check" \in Phases
      BY DEF Ops, Phases, Patches
    <3>. QED
      BY <2>1, <3>1, BegunTypes
  <2>3. LocalsOK(Attempt(c, Begun(c, what, "check")))
    BY <1>3, <2>2, <1>21, AttemptTypes DEF Patch
  <2>. QED
    BY <2>1, <2>3, CallChanges
<1>22. CASE ReallyDelete(c)
  <2>1. /\ Begun(c, "delete", "delete") \in Locals
        /\ Begun(c, "delete", "delete").ref = l.ref
        /\ Begun(c, "delete", "delete").pc = "delete"
    <3>1. "delete" \in Ops /\ "delete" \in Phases /\ Ready(c, "delete")
      BY <1>22 DEF ReallyDelete, Ops, Phases
    <3>. QED
      BY <3>1, BegunTypes
  <2>. QED
    BY <2>1, <1>22, CallChanges DEF ReallyDelete, LocalsOK
<1>23. CASE ClearCache(c)
  <2>1. Begun(c, "clear", "idle") \in Locals /\ Begun(c, "clear", "idle").pc = "idle"
    <3>1. "clear" \in Ops /\ "idle" \in Phases /\ Ready(c, "clear")
      BY <1>23 DEF ClearCache, Ops, Phases
    <3>. QED
      BY <3>1, BegunTypes
  <2>2. LocalsOK([Begun(c, "clear", "idle") EXCEPT !.outcome = "ok"])
    BY <2>1 DEF LocalsOK, Locals, Outcomes
  <2>. QED
    BY <2>2, <1>23, CallChanges DEF ClearCache
<1>. QED
  BY <1>4, <1>5, <1>6, <1>7, <1>8, <1>9, <1>10, <1>11, <1>12, <1>13, <1>14, <1>15,
     <1>16, <1>17, <1>18, <1>19, <1>20, <1>21, <1>22, <1>23
     DEF Step, Proceed


LEMMA TypeStep == TypeOK /\ PhaseInv /\ [Next]_vars => TypeOK'
<1>. SUFFICES ASSUME TypeOK, PhaseInv, [Next]_vars PROVE TypeOK'
  OBVIOUS
<1>1. WorldTypes /\ CallTypes
  BY TypeParts
<1>2. CASE \E c \in Callers : Step(c)
  <2>1. WorldTypes' /\ CallTypes'
    BY <1>1, <1>2, WorldStep, CallStep
  <2>. QED
    BY <2>1 DEF TypeOK, WorldTypes, CallTypes
<1>3. CASE Replicate
  BY <1>3 DEF Replicate, TypeOK, objects, history
<1>4. CASE UNCHANGED vars
  BY <1>4 DEF vars, store, objects, history, TypeOK
<1>. QED
  BY <1>2, <1>3, <1>4 DEF Next


-----------------------------------------------------------------------------
\* A step of one caller leaves the calls of the others alone.
LEMMA OthersStay ==
    ASSUME NEW c \in Callers, Step(c), CallTypes, NEW d \in Callers \ {c}
    PROVE  call'[d] = call[d]
  BY
     DEF CallTypes, Step, Proceed, Read, Lookup, Construct, Register, Inflate,
         InflateFails, Store, CheckGone, CheckPasses, CheckRefuses, Reload, AskShouldRetry,
         Update, Select, ConnectionLost, DeleteRow, Get, Patch, ReallyDelete, ClearCache,
         Constructed, Goto, End

\* What a call still holds when it ends or begins another attempt.
LEMMA EndedFields ==
    ASSUME NEW c, NEW ref, NEW outcome
    PROVE  LET e == Ended(c, ref, outcome)
           IN  /\ e.pc = "idle" /\ e.op = call[c].op /\ e.made = call[c].made
               /\ e.writes = call[c].writes /\ e.reconnected = call[c].reconnected
               /\ e.outcome = outcome /\ e.row = Blank /\ e.base = Blank /\ e.since = 0
  BY DEF Ended, NoCall

LEMMA AttemptFields ==
    ASSUME NEW c, NEW l \in Locals
    PROVE  LET a == Attempt(c, l)
           IN  /\ a.pc = "check" /\ a.op = l.op /\ a.made = l.made /\ a.writes = l.writes
               /\ a.reconnected = l.reconnected /\ a.outcome = l.outcome /\ a.row = l.row
               /\ a.memoryNonce = shows[call[c].ref].nonce /\ a.base = shows[call[c].ref]
               /\ a.since = version
  BY DEF Attempt, Locals

\* What a caller does keeps its call in order, and its new phase fits the row.
LEMMA PhaseOfStep ==
    ASSUME TypeOK, PhaseInv, WriteInv, NEW c \in Callers, Step(c)
    PROVE  /\ PhaseOf(call'[c])
           /\ call'[c].pc = "select" => call'[c].writes > 0 \/ disk' = Gone
           /\ call'[c].reconnected => "connection" \in faulted'
<1>1. call \in [Callers -> Locals] /\ call[c] \in Locals /\ PhaseOf(call[c])
  BY DEF TypeOK, PhaseInv
<1>2. /\ call[c].pc = "select" => call[c].writes > 0 \/ disk = Gone
      /\ call[c].reconnected => "connection" \in faulted
  BY DEF WriteInv
<1>3. CASE Read(c)
  <2>1. CASE replica = Gone
    <3>1. call'[c] = Ended(c, None, "null")
      BY <1>1, <2>1, <1>3 DEF Read, End
    <3>. QED
      BY <1>1, <1>2, <3>1, <1>3, EndedFields
         DEF Read, PhaseOf, Loads, Patches, At, history, Fault
  <2>2. CASE replica # Gone
    <3>1. call'[c] = [call[c] EXCEPT !.row = replica, !.pc = "lookup"]
      BY <1>1, <2>2, <1>3 DEF Read
    <3>. QED
      BY <1>1, <1>2, <3>1, <1>3
         DEF Read, PhaseOf, Locals, Loads, Patches, At, history, Fault
  <2>. QED
    BY <2>1, <2>2
<1>4. CASE Lookup(c)
  BY <1>1, <1>2, <1>4 DEF Lookup, PhaseOf, Locals, Loads, Patches, At, history, store
<1>5. CASE Construct(c)
  BY <1>1, <1>2, <1>5
     DEF Construct, PhaseOf, Locals, Loads, Patches, At, history, store, Constructed
<1>6. CASE Register(c)
  BY <1>1, <1>2, <1>6 DEF Register, PhaseOf, Locals, Loads, Patches, At, history, store
<1>7. CASE Inflate(c)
  BY <1>1, <1>2, <1>7 DEF Inflate, PhaseOf, Locals, Loads, Patches, At, history, store
<1>8. CASE InflateFails(c)
  <2>1. \E ref : call'[c] = Ended(c, ref, "failed")
    BY <1>1, <1>8 DEF InflateFails, End
  <2>. QED
    BY <1>1, <1>2, <2>1, <1>8, EndedFields
       DEF InflateFails, PhaseOf, Locals, Loads, Patches, At, history, store, Fault
<1>9. CASE Store(c)
  <2>1. \/ call[c].op # "reload" /\ \E ref : call'[c] = Ended(c, ref, "ok")
        \/ call[c].op = "reload" /\ call'[c] = [call[c] EXCEPT !.seen = None, !.pc = "ask"]
    BY <1>1, <1>9 DEF Store, End, Goto
  <2>. QED
    BY <1>1, <1>2, <2>1, <1>9, EndedFields
       DEF Store, PhaseOf, Locals, Loads, Patches, At, history, store, Fault
<1>10. CASE CheckGone(c)
  <2>1. \E ref : call'[c] = Ended(c, ref, "failed")
    BY <1>1, <1>10 DEF CheckGone, End
  <2>. QED
    BY <1>1, <1>2, <2>1, <1>10, EndedFields
       DEF CheckGone, PhaseOf, Locals, Loads, Patches, At, history, store, Fault
<1>11. CASE CheckPasses(c)
  BY <1>1, <1>2, <1>11
     DEF CheckPasses, PhaseOf, Locals, Loads, Patches, At, history, store, Goto
<1>12. CASE CheckRefuses(c)
  <2>1. \/ \E ref : call'[c] = Ended(c, ref, "refused")
        \/ call[c].op = "retry" /\ call'[c] = [call[c] EXCEPT !.pc = "delay"]
    BY <1>1, <1>12 DEF CheckRefuses, End, Goto
  <2>. QED
    BY <1>1, <1>2, <2>1, <1>12, EndedFields
       DEF CheckRefuses, PhaseOf, Locals, Loads, Patches, At, history, store, Fault
<1>13. CASE Reload(c)
  BY <1>1, <1>2, <1>13 DEF Reload, PhaseOf, Locals, Loads, Patches, At, history, store
<1>14. CASE AskShouldRetry(c)
  <2>1. \/ call'[c] = Attempt(c, [call[c] EXCEPT !.op = "retry"])
        \/ \E ref : call'[c] = Ended(c, ref, "abandoned")
    BY <1>1, <1>14 DEF AskShouldRetry, End
  <2>2. [call[c] EXCEPT !.op = "retry"] \in Locals
    BY <1>1 DEF Locals, Ops
  <2>. QED
    BY <1>1, <1>2, <2>1, <2>2, <1>14, EndedFields, AttemptFields
       DEF AskShouldRetry, PhaseOf, Locals, Loads, Patches, At, history, store
<1>15. CASE Update(c)
  <2>1. /\ call'[c].pc = "select" /\ call'[c].op = call[c].op /\ call'[c].made = call[c].made
        /\ call'[c].reconnected = call[c].reconnected /\ call'[c].outcome = call[c].outcome
        /\ call'[c].writes = IF disk = Gone THEN call[c].writes ELSE call[c].writes + 1
        /\ disk = Gone => disk' = Gone
        /\ faulted' = faulted
        /\ call[c].pc = "update" /\ call[c].writes \in Nat
    BY <1>1, <1>15 DEF Update, At, Locals, store, history
  <2>. QED
    BY <1>1, <1>2, <2>1 DEF PhaseOf, Loads, Patches
<1>16. CASE Select(c)
  <2>1. \/ \E ref : call'[c] = Ended(c, ref, "gone")
        \/ disk # Gone /\ call'[c] = [call[c] EXCEPT !.row = disk, !.pc = "inflate"]
    BY <1>1, <1>16 DEF Select, End, Goto
  <2>. QED
    BY <1>1, <1>2, <2>1, <1>16, EndedFields
       DEF Select, PhaseOf, Locals, Loads, Patches, At, history, store, Fault
<1>17. CASE ConnectionLost(c)
  <2>1. CASE call[c].reconnected
    <3>1. call'[c] = Ended(c, call[c].ref, "failed")
      BY <1>1, <2>1, <1>17 DEF ConnectionLost, End
    <3>. QED
      BY <1>1, <1>2, <3>1, <1>17, EndedFields
         DEF ConnectionLost, PhaseOf, Loads, Patches, At, history, Fault
  <2>2. CASE ~call[c].reconnected
    <3>1. call'[c] = [call[c] EXCEPT !.reconnected = TRUE, !.pc = "update"]
      BY <1>1, <2>2, <1>17 DEF ConnectionLost
    <3>. QED
      BY <1>1, <1>2, <3>1, <1>17
         DEF ConnectionLost, PhaseOf, Locals, Loads, Patches, At, history, Fault
  <2>. QED
    BY <2>1, <2>2
<1>18. CASE DeleteRow(c)
  <2>1. \E ref : call'[c] = Ended(c, ref, "ok")
    BY <1>1, <1>18 DEF DeleteRow, End
  <2>. QED
    BY <1>1, <1>2, <2>1, <1>18, EndedFields
       DEF DeleteRow, PhaseOf, Locals, Loads, Patches, At, history, store, Fault
<1>19. CASE Get(c)
  <2>1. PICK what \in {"get", "link"}, phase \in {"idle", "read"} :
          /\ Ready(c, what)
          /\ \/ phase = "idle" /\ call'[c] =
                  [Begun(c, what, phase) EXCEPT !.ref = Cached(c), !.outcome = "ok"]
             \/ phase = "read" /\ call'[c] = [Begun(c, what, phase) EXCEPT !.ref = None]
    BY <1>1, <1>19 DEF Get
  <2>2. what \in Ops /\ phase \in Phases
    BY DEF Ops, Phases
  <2>3. Begun(c, what, phase) \in Locals
    BY <2>1, <2>2, BegunTypes, TypeParts DEF WorldTypes
  <2>4. /\ call'[c].pc = phase /\ call'[c].op = what /\ call'[c].made = call[c].made + 1
        /\ call'[c].writes = 0 /\ call'[c].reconnected = FALSE
        /\ call'[c].outcome # "none" => phase = "idle"
        /\ call'[c].outcome \in {"none", "ok"}
    <3>1. /\ call'[c].pc = Begun(c, what, phase).pc
          /\ call'[c].op = Begun(c, what, phase).op
          /\ call'[c].made = Begun(c, what, phase).made
          /\ call'[c].writes = Begun(c, what, phase).writes
          /\ call'[c].reconnected = Begun(c, what, phase).reconnected
          /\ \/ call'[c].outcome = Begun(c, what, phase).outcome
             \/ call'[c].outcome = "ok" /\ phase = "idle"
      BY <2>1, <2>3 DEF Locals
    <3>. QED
      BY <3>1 DEF Begun, NoCall
  <2>. QED
    BY <1>1, <2>1, <2>4 DEF PhaseOf, Loads, Patches, Locals
<1>20. CASE Patch(c)
  BY <1>1, <1>2, <1>20
     DEF Patch, PhaseOf, Locals, Loads, Patches, At, history, store, Attempt, Begun,
         NoCall, Ready
<1>21. CASE ReallyDelete(c)
  BY <1>1, <1>2, <1>21
     DEF ReallyDelete, PhaseOf, Locals, Loads, Patches, At, history, store, Begun, NoCall,
         Ready
<1>22. CASE ClearCache(c)
  BY <1>1, <1>2, <1>22
     DEF ClearCache, PhaseOf, Locals, Loads, Patches, At, history, store, Begun, NoCall,
         Ready
<1>. QED
  BY <1>3, <1>4, <1>5, <1>6, <1>7, <1>8, <1>9, <1>10, <1>11, <1>12, <1>13, <1>14,
     <1>15, <1>16, <1>17, <1>18, <1>19, <1>20, <1>21, <1>22
     DEF Step, Proceed


LEMMA PhaseStep == TypeOK /\ PhaseInv /\ WriteInv /\ [Next]_vars => PhaseInv' /\ WriteInv'
<1>. SUFFICES ASSUME TypeOK, PhaseInv, WriteInv, [Next]_vars PROVE PhaseInv' /\ WriteInv'
  OBVIOUS
<1>1. CASE \E c \in Callers : Step(c)
  <2>1. PICK c \in Callers : Step(c)
    BY <1>1
  <2>2. \A d \in Callers \ {c} : call'[d] = call[d]
    BY <2>1, OthersStay, TypeParts
  <2>3. (disk = Gone => disk' = Gone) /\ faulted \subseteq faulted'
    BY <2>1
       DEF Step, Proceed, Read, Lookup, Construct, Register, Inflate, InflateFails, Store,
           CheckGone, CheckPasses, CheckRefuses, Reload, AskShouldRetry, Update, Select,
           ConnectionLost, DeleteRow, Get, Patch, ReallyDelete, ClearCache, Fault, store,
           history
  <2>4. PhaseInv'
    BY <2>1, <2>2, PhaseOfStep DEF PhaseInv
  <2>5. WriteInv'
    BY <2>1, <2>2, <2>3, PhaseOfStep DEF WriteInv
  <2>. QED
    BY <2>4, <2>5
<1>2. CASE Replicate
  BY <1>2 DEF Replicate, PhaseInv, WriteInv, history
<1>3. CASE UNCHANGED vars
  BY <1>3 DEF vars, store, history, PhaseInv, WriteInv
<1>. QED
  BY <1>1, <1>2, <1>3 DEF Next

-----------------------------------------------------------------------------
\* How a step changes what a call remembers of the row.
Kept(l, n) ==
    /\ n.made = l.made
    /\ \/ n.writes = l.writes
       \/ l.pc = "update" /\ n.writes = l.writes + 1
IsNext(l, n) == n.made = l.made + 1 /\ n.writes = 0
ReadsRow(l, n) == n.row \in {l.row, disk, replica, Blank}
Remembers(c, n) ==
    \/ n.base = call[c].base /\ n.since = call[c].since
    \/ n.base = Blank /\ n.since = 0
    \/ call[c].ref # None /\ n.base = shows[call[c].ref] /\ n.since = version
Shaped(c, n) ==
    /\ IsNext(call[c], n) \/ Kept(call[c], n)
    /\ ReadsRow(call[c], n)
    /\ Remembers(c, n)
    /\ n.pc = "check" => n.memoryNonce = n.base.nonce
    /\ n.pc = "update" => CheckPasses(c) \/ ConnectionLost(c)

LEMMA EndedShape ==
    ASSUME NEW c, call[c] \in Locals, NEW ref, NEW outcome
    PROVE  Shaped(c, Ended(c, ref, outcome))
  BY EndedFields DEF Shaped, IsNext, Kept, ReadsRow, Remembers, Locals

LEMMA BegunShape ==
    ASSUME NEW c, NEW what, NEW phase, phase \notin {"check", "update"}
    PROVE  Shaped(c, Begun(c, what, phase))
  BY DEF Begun, NoCall, Shaped, IsNext, ReadsRow, Remembers

LEMMA AttemptShape ==
    ASSUME NEW c, NEW l \in Locals, call[c].ref # None,
           IsNext(call[c], l) \/ Kept(call[c], l), ReadsRow(call[c], l)
    PROVE  Shaped(c, Attempt(c, l))
  BY AttemptFields DEF Shaped, IsNext, Kept, ReadsRow, Remembers

LEMMA StepShape ==
    ASSUME TypeOK, NEW c \in Callers, Step(c)
    PROVE  Shaped(c, call'[c])
<1>1. call \in [Callers -> Locals] /\ call[c] \in Locals
  BY DEF TypeOK
<1>2. CASE Read(c)
  <2>1. CASE \E ref, outcome : call'[c] = Ended(c, ref, outcome)
    BY <1>1, <2>1, EndedShape
  <2>2. CASE ~\E ref, outcome : call'[c] = Ended(c, ref, outcome)
    BY <1>1, <2>2, <1>2
       DEF Read, At, End, Goto, Shaped, IsNext, Kept, ReadsRow, Remembers, Locals
  <2>. QED
    BY <2>1, <2>2
<1>3. CASE Lookup(c)
  BY <1>1, <1>3
     DEF Lookup, At, Constructed, Goto, Shaped, IsNext, Kept, ReadsRow, Remembers, Locals
<1>4. CASE Construct(c)
  BY <1>1, <1>4
     DEF Construct, At, Constructed, Goto, Shaped, IsNext, Kept, ReadsRow, Remembers,
         Locals
<1>5. CASE Register(c)
  BY <1>1, <1>5
     DEF Register, At, Constructed, Goto, Shaped, IsNext, Kept, ReadsRow, Remembers,
         Locals
<1>6. CASE Inflate(c)
  BY <1>1, <1>6
     DEF Inflate, At, Constructed, Goto, Shaped, IsNext, Kept, ReadsRow, Remembers, Locals
<1>7. CASE InflateFails(c)
  <2>1. \E ref, outcome : call'[c] = Ended(c, ref, outcome)
    BY <1>1, <1>7 DEF InflateFails, End
  <2>. QED
    BY <1>1, <2>1, EndedShape
<1>8. CASE Store(c)
  <2>1. CASE \E ref, outcome : call'[c] = Ended(c, ref, outcome)
    BY <1>1, <2>1, EndedShape
  <2>2. CASE ~\E ref, outcome : call'[c] = Ended(c, ref, outcome)
    BY <1>1, <2>2, <1>8
       DEF Store, At, End, Goto, Shaped, IsNext, Kept, ReadsRow, Remembers, Locals
  <2>. QED
    BY <2>1, <2>2
<1>9. CASE CheckGone(c)
  <2>1. \E ref, outcome : call'[c] = Ended(c, ref, outcome)
    BY <1>1, <1>9 DEF CheckGone, End
  <2>. QED
    BY <1>1, <2>1, EndedShape
<1>10. CASE CheckPasses(c)
  BY <1>1, <1>10
     DEF CheckPasses, At, Constructed, Goto, Shaped, IsNext, Kept, ReadsRow, Remembers,
         Locals
<1>11. CASE CheckRefuses(c)
  <2>1. CASE \E ref, outcome : call'[c] = Ended(c, ref, outcome)
    BY <1>1, <2>1, EndedShape
  <2>2. CASE ~\E ref, outcome : call'[c] = Ended(c, ref, outcome)
    BY <1>1, <2>2, <1>11
       DEF CheckRefuses, At, End, Goto, Shaped, IsNext, Kept, ReadsRow, Remembers, Locals
  <2>. QED
    BY <2>1, <2>2
<1>12. CASE Reload(c)
  BY <1>1, <1>12
     DEF Reload, At, Constructed, Goto, Shaped, IsNext, Kept, ReadsRow, Remembers, Locals
<1>13. CASE AskShouldRetry(c)
  <2>1. \/ \E ref, outcome : call'[c] = Ended(c, ref, outcome)
        \/ call'[c] = Attempt(c, [call[c] EXCEPT !.op = "retry"])
    BY <1>1, <1>13 DEF AskShouldRetry, End
  <2>2. /\ [call[c] EXCEPT !.op = "retry"] \in Locals
        /\ Kept(call[c], [call[c] EXCEPT !.op = "retry"])
        /\ ReadsRow(call[c], [call[c] EXCEPT !.op = "retry"])
    BY <1>1 DEF Kept, ReadsRow, Locals, Ops
  <2>3. call[c].ref # None
    BY <1>13 DEF AskShouldRetry, At, TypeOK, Phases
  <2>. QED
    BY <1>1, <2>1, <2>2, <2>3, EndedShape, AttemptShape
<1>14. CASE Update(c)
  BY <1>1, <1>14
     DEF Update, At, Constructed, Goto, Shaped, IsNext, Kept, ReadsRow, Remembers, Locals
<1>15. CASE Select(c)
  <2>1. CASE \E ref, outcome : call'[c] = Ended(c, ref, outcome)
    BY <1>1, <2>1, EndedShape
  <2>2. CASE ~\E ref, outcome : call'[c] = Ended(c, ref, outcome)
    BY <1>1, <2>2, <1>15
       DEF Select, At, End, Goto, Shaped, IsNext, Kept, ReadsRow, Remembers, Locals
  <2>. QED
    BY <2>1, <2>2
<1>16. CASE ConnectionLost(c)
  <2>1. CASE \E ref, outcome : call'[c] = Ended(c, ref, outcome)
    BY <1>1, <2>1, EndedShape
  <2>2. CASE ~\E ref, outcome : call'[c] = Ended(c, ref, outcome)
    <3>1. call'[c] = [call[c] EXCEPT !.reconnected = TRUE, !.pc = "update"]
      BY <1>1, <2>2, <1>16, ZenonT(60) DEF ConnectionLost, End
    <3>. QED
      BY <1>1, <1>16, <3>1 DEF Shaped, Kept, ReadsRow, Remembers, Locals
  <2>. QED
    BY <2>1, <2>2
<1>17. CASE DeleteRow(c)
  <2>1. \E ref, outcome : call'[c] = Ended(c, ref, outcome)
    BY <1>1, <1>17 DEF DeleteRow, End
  <2>. QED
    BY <1>1, <2>1, EndedShape
<1>18. CASE Get(c)
  <2>1. PICK what \in {"get", "link"}, phase \in {"idle", "read"} :
          /\ Ready(c, what)
          /\ \/ call'[c] = [Begun(c, what, phase) EXCEPT !.ref = Cached(c), !.outcome = "ok"]
             \/ call'[c] = [Begun(c, what, phase) EXCEPT !.ref = None]
    BY <1>1, <1>18 DEF Get
  <2>2. what \in Ops /\ phase \in Phases
    BY DEF Ops, Phases
  <2>3. Begun(c, what, phase) \in Locals
    BY <2>1, <2>2, BegunTypes, TypeParts DEF WorldTypes
  <2>4. /\ call'[c].pc = phase /\ call'[c].made = Begun(c, what, phase).made
        /\ call'[c].row = Begun(c, what, phase).row /\ call'[c].base = Begun(c, what, phase).base
        /\ call'[c].since = Begun(c, what, phase).since
        /\ call'[c].writes = Begun(c, what, phase).writes
    BY <2>1, <2>3, ZenonT(60) DEF Locals, Begun, NoCall
  <2>. QED
    BY <2>4 DEF Begun, NoCall, Shaped, IsNext, ReadsRow, Remembers
<1>19. CASE Patch(c)
  <2>1. PICK what \in Patches :
          Ready(c, what) /\ call'[c] = Attempt(c, Begun(c, what, "check"))
    BY <1>1, <1>19 DEF Patch, Patches
  <2>2. Begun(c, what, "check") \in Locals
    <3>1. what \in Ops /\ "check" \in Phases
      BY DEF Ops, Phases, Patches
    <3>. QED
      BY <2>1, <3>1, BegunTypes, TypeParts DEF WorldTypes
  <2>3. call[c].ref # None
    BY <1>19 DEF Patch
  <2>4. /\ IsNext(call[c], Begun(c, what, "check"))
        /\ ReadsRow(call[c], Begun(c, what, "check"))
    BY DEF Begun, NoCall, IsNext, ReadsRow
  <2>. QED
    BY <2>1, <2>2, <2>3, <2>4, AttemptShape
<1>20. CASE ReallyDelete(c)
  <2>1. call'[c] = Begun(c, "delete", "delete")
    BY <1>1, <1>20 DEF ReallyDelete
  <2>. QED
    BY <2>1, BegunShape
<1>21. CASE ClearCache(c)
  <2>1. call'[c] = [Begun(c, "clear", "idle") EXCEPT !.outcome = "ok"]
    BY <1>1, <1>21 DEF ClearCache
  <2>. QED
    BY <2>1 DEF Begun, NoCall, Shaped, IsNext, ReadsRow, Remembers
<1>. QED
  BY <1>2, <1>3, <1>4, <1>5, <1>6, <1>7, <1>8, <1>9, <1>10, <1>11, <1>12, <1>13,
     <1>14, <1>15, <1>16, <1>17, <1>18, <1>19, <1>20, <1>21
     DEF Step, Proceed

\* A step that writes no row only copies rows that are in use, or forgets some.
LEMMA RowsStep ==
    ASSUME TypeOK, NEW c \in Callers, Step(c), disk' \in {disk, Gone}
    PROVE  RowsInUse' \subseteq RowsInUse \cup {Gone}
<1>1. call \in [Callers -> Locals] /\ call[c] \in Locals
  BY DEF TypeOK
<1>2. \A d \in Callers \ {c} : call'[d] = call[d]
  BY OthersStay, TypeParts
<1>3. replica' \in {disk, replica, Gone, disk'}
  BY
     DEF Step, Proceed, Read, Lookup, Construct, Register, Inflate, InflateFails, Store,
         CheckGone, CheckPasses, CheckRefuses, Reload, AskShouldRetry, Update, Select,
         ConnectionLost, DeleteRow, Get, Patch, ReallyDelete, ClearCache, store
<1>4. \A i \in Instances : shows'[i] \in RowsInUse
  <2>1. CASE UNCHANGED shows
    BY <2>1 DEF RowsInUse
  <2>2. CASE SetCachedId(c) /\ call[c].ref # None
    <3>1. call[c].ref \in Instances
      BY <1>1, <2>2 DEF Locals
    <3>2. shows \in [Instances -> Rows]
      BY DEF TypeOK
    <3>3. \A i \in Instances : shows'[i] = shows[i] \/ shows'[i] = shows[call[c].ref]
      BY <2>2, <3>1, <3>2 DEF SetCachedId
    <3>. QED
      BY <3>1, <3>3 DEF RowsInUse
  <2>3. CASE Inflate(c)
    <3>1. \A i \in Instances : shows'[i] = shows[i] \/ shows'[i] = call[c].row
      BY <2>3 DEF Inflate, TypeOK
    <3>. QED
      BY <3>1 DEF RowsInUse
  <2>4. Register(c) \/ Store(c) => SetCachedId(c) /\ call[c].ref # None
    BY DEF Register, Store, At, TypeOK, Phases
  <2>. QED
    BY <2>1, <2>2, <2>3, <2>4
       DEF Step, Proceed, Read, Lookup, Construct, InflateFails, CheckGone, CheckPasses,
           CheckRefuses, Reload, AskShouldRetry, Update, Select, ConnectionLost, DeleteRow, Get,
           Patch, ReallyDelete, ClearCache, objects
<1>5. call'[c].row \in RowsInUse \cup {Gone} /\ call'[c].base \in RowsInUse \cup {Gone}
  <2>1. /\ {call[c].row, call[c].base, disk, replica, Blank} \subseteq RowsInUse \cup {Gone}
        /\ call[c].ref # None => shows[call[c].ref] \in RowsInUse
    BY <1>1, RowTypes DEF RowsInUse, Locals
  <2>2. Shaped(c, call'[c])
    BY StepShape
  <2>. QED
    BY <2>1, <2>2 DEF Shaped, IsNext, ReadsRow, Remembers
<1>. QED
  BY <1>2, <1>3, <1>4, <1>5 DEF RowsInUse

\* A step that writes the row puts a new one there.
LEMMA UpdateStep ==
    ASSUME TypeOK, NEW c \in Callers, Step(c), disk' \notin {disk, Gone}
    PROVE  /\ call[c].pc = "update" /\ call'[c].made = call[c].made
           /\ call'[c].writes = call[c].writes + 1
           /\ disk' = [ver |-> version + 1, nonce |-> <<c, call[c].made>>]
           /\ version' = version + 1
           /\ RowsInUse' \subseteq RowsInUse \cup {disk'}
<1>1. call \in [Callers -> Locals] /\ call[c] \in Locals
  BY DEF TypeOK
<1>2. Update(c)
  BY DEF Step, Proceed, Read, Lookup, Construct, Register, Inflate, InflateFails, Store,
         CheckGone, CheckPasses, CheckRefuses, Reload, AskShouldRetry, Select, ConnectionLost,
         DeleteRow, Get, Patch, ReallyDelete, ClearCache, store
<1>3. /\ call[c].pc = "update" /\ call'[c].made = call[c].made
      /\ call'[c].writes = call[c].writes + 1
      /\ disk' = [ver |-> version + 1, nonce |-> <<c, call[c].made>>]
      /\ version' = version + 1
  BY <1>1, <1>2 DEF Update, At, store, Locals
<1>4. /\ replica' \in {replica, disk'}
      /\ UNCHANGED shows
      /\ \A d \in Callers : call'[d].row = call[d].row /\ call'[d].base = call[d].base
  BY <1>1, <1>2 DEF Update, store, objects, Locals
<1>. QED
  BY <1>3, <1>4 DEF RowsInUse

\* Every nonce stays old, whatever is written.
LEMMA NonceStep ==
    TypeOK /\ PhaseInv /\ WriteInv /\ NonceInv /\ [Next]_vars => NonceInv'
<1>. SUFFICES ASSUME TypeOK, PhaseInv, WriteInv, NonceInv, [Next]_vars PROVE NonceInv'
  OBVIOUS
<1>1. \A r \in RowsInUse : r \in Rows
  BY DEF RowsInUse, TypeOK, Locals
<1>2. CASE \E c \in Callers : Step(c)
  <2>1. PICK c \in Callers : Step(c)
    BY <1>2
  <2>2. \A d \in Callers \ {c} : call'[d] = call[d]
    BY <2>1, OthersStay, TypeParts
  <2>3. faulted \subseteq faulted'
    BY <2>1
       DEF Step, Proceed, Read, Lookup, Construct, Register, Inflate, InflateFails, Store,
           CheckGone, CheckPasses, CheckRefuses, Reload, AskShouldRetry, Update, Select,
           ConnectionLost, DeleteRow, Get, Patch, ReallyDelete, ClearCache, Fault, history
  <2>4. ASSUME NEW r \in RowsInUse
        PROVE  NonceIsOld(r)'
    <3>1. CASE r.nonce = None
      BY <3>1 DEF NonceIsOld
    <3>2. CASE r.nonce # None
      <4>1. r.nonce[1] \in Callers /\ r.nonce[2] \in Nat
        BY <1>1, <3>2 DEF Rows, Nonces
      <4>2. /\ call[r.nonce[1]].made \in Nat /\ call[r.nonce[1]].writes \in Nat
        BY <4>1, Bounds DEF TypeOK, Locals
      <4>3. \/ r.nonce[2] < call[r.nonce[1]].made
            \/ r.nonce[2] = call[r.nonce[1]].made /\ call[r.nonce[1]].writes > 0
        BY <3>2 DEF NonceInv, NonceIsOld
      <4>4. \/ call'[r.nonce[1]] = call[r.nonce[1]]
            \/ IsNext(call[r.nonce[1]], call'[r.nonce[1]])
            \/ Kept(call[r.nonce[1]], call'[r.nonce[1]])
        BY <2>1, <2>2, <4>1, StepShape DEF Shaped
      <4>. QED
        BY <4>1, <4>2, <4>3, <4>4 DEF NonceIsOld, IsNext, Kept
    <3>. QED
      BY <3>1, <3>2
  <2>5. CASE disk' \in {disk, Gone}
    <3>1. RowsInUse' \subseteq RowsInUse \cup {Gone}
      BY <2>1, <2>5, RowsStep
    <3>2. NonceIsOld(Gone)' /\ Gone.nonce = None
      BY DEF NonceIsOld, Gone
    <3>3. \A r \in RowsInUse' : NonceIsOld(r)'
      BY <2>4, <3>1, <3>2
    <3>. QED
      BY <2>3, <3>1, <3>2, <3>3 DEF NonceInv
  <2>6. CASE disk' \notin {disk, Gone}
    <3>1. /\ call[c].pc = "update" /\ call'[c].made = call[c].made
          /\ call'[c].writes = call[c].writes + 1 /\ call[c].writes \in Nat
          /\ disk'.nonce = <<c, call[c].made>>
          /\ RowsInUse' \subseteq RowsInUse \cup {disk'}
      BY <2>1, <2>6, UpdateStep DEF TypeOK, Locals
    <3>3. ASSUME NEW r \in RowsInUse'
          PROVE  NonceIsOld(r)'
      <4>1. CASE r \in RowsInUse
        BY <2>4, <4>1
      <4>2. CASE r = disk'
        <5>1. r.nonce = <<c, call'[c].made>> /\ call'[c].writes > 0
          BY <3>1, <4>2
        <5>. QED
          BY <5>1 DEF NonceIsOld
      <4>. QED
        BY <3>1, <4>1, <4>2
    <3>4. ASSUME "connection" \notin faulted, NEW r \in RowsInUse
          PROVE  r.nonce # disk'.nonce
      <4>1. call[c].writes = 0
        BY <3>1, <3>4 DEF PhaseInv, PhaseOf, WriteInv
      <4>2. disk'.nonce # None /\ call[c].made \in Nat
        BY <1>1, <3>1, NoneAssumption, Bounds DEF TypeOK, Locals, Nonces, PhaseInv, PhaseOf
      <4>3. NonceIsOld(r)
        BY DEF NonceInv
      <4>4. r.nonce # <<c, call[c].made>>
        BY <3>1, <4>1, <4>2, <4>3 DEF NonceIsOld
      <4>. QED
        BY <3>1, <4>4
    <3>. QED
      BY <2>3, <3>1, <3>3, <3>4 DEF NonceInv
  <2>. QED
    BY <2>5, <2>6
<1>3. CASE Replicate
  <2>1. RowsInUse' \subseteq RowsInUse /\ call' = call /\ faulted' = faulted
    BY <1>3 DEF Replicate, RowsInUse, objects, history
  <2>. QED
    BY <2>1 DEF NonceInv, NonceIsOld
<1>4. CASE UNCHANGED vars
  <2>1. RowsInUse' = RowsInUse /\ call' = call /\ faulted' = faulted
    BY <1>4 DEF vars, RowsInUse, objects, history, store
  <2>. QED
    BY <2>1 DEF NonceInv, NonceIsOld
<1>. QED
  BY <1>2, <1>3, <1>4 DEF Next

\* What the comparison found stays true until the UPDATE, unless somebody else writes.
LEMMA CompareStep ==
    TypeOK /\ PhaseInv /\ WriteInv /\ NonceInv /\ CompareInv /\ [Next]_vars => CompareInv'
<1>. SUFFICES ASSUME TypeOK, PhaseInv, WriteInv, NonceInv, CompareInv, [Next]_vars
              PROVE  CompareInv'
  OBVIOUS
<1>1. call \in [Callers -> Locals] /\ version \in Nat /\ disk \in Rows
  BY DEF TypeOK
<1>2. \A d \in Callers : call[d].since \in Nat /\ call[d].base \in Rows
  BY <1>1 DEF Locals
<1>3. CASE \E c \in Callers : Step(c)
  <2>1. PICK c \in Callers : Step(c)
    BY <1>3
  <2>2. \A d \in Callers \ {c} : call'[d] = call[d]
    BY <2>1, OthersStay, TypeParts
  <2>3. faulted \subseteq faulted'
    BY <2>1
       DEF Step, Proceed, Read, Lookup, Construct, Register, Inflate, InflateFails, Store,
           CheckGone, CheckPasses, CheckRefuses, Reload, AskShouldRetry, Update, Select,
           ConnectionLost, DeleteRow, Get, Patch, ReallyDelete, ClearCache, Fault, history
  <2>4. version' \in {version, version + 1}
    BY <2>1
       DEF Step, Proceed, Read, Lookup, Construct, Register, Inflate, InflateFails, Store,
           CheckGone, CheckPasses, CheckRefuses, Reload, AskShouldRetry, Update, Select,
           ConnectionLost, DeleteRow, Get, Patch, ReallyDelete, ClearCache, store
  <2>5. \/ disk' = disk
        \/ disk' = Gone
        \/ disk'.ver = version + 1
    BY <2>1, UpdateStep
  <2>6. Remembers(c, call'[c]) /\ (call'[c].pc = "check" => call'[c].memoryNonce = call'[c].base.nonce)
    BY <2>1, StepShape DEF Shaped
  <2>7. ASSUME NEW d \in Callers
        PROVE  call'[d].since <= version'
    <3>1. call'[d].since \in {0, version, call[d].since}
      BY <2>2, <2>6 DEF Remembers
    <3>. QED
      BY <1>1, <1>2, <2>4, <3>1 DEF CompareInv
  <2>8. ASSUME NEW d \in Callers, Compared(d), call'[d].base = call[d].base,
               call'[d].since = call[d].since
        PROVE  Compared(d)'
    <3>1. call[d].since <= version
      BY DEF CompareInv
    <3>2. disk.nonce = None \/ disk.ver = call[d].base.ver \/ disk.ver > call[d].since
      BY <2>8 DEF Compared
    <3>3. CASE disk' = disk
      BY <2>8, <3>2, <3>3 DEF Compared
    <3>4. CASE disk' = Gone
      BY <3>4 DEF Compared, Gone
    <3>5. CASE disk'.ver = version + 1
      BY <1>1, <1>2, <2>8, <3>1, <3>5 DEF Compared
    <3>. QED
      BY <2>5, <3>3, <3>4, <3>5
  <2>9. ASSUME call'[c].pc = "update", "connection" \notin faulted'
        PROVE  Compared(c)'
    <3>1. CheckPasses(c)
      BY <2>1, <2>9, StepShape DEF Shaped, ConnectionLost, Fault
    <3>2. /\ call[c].pc = "check" /\ UNCHANGED disk
          /\ disk.nonce = None \/ disk.nonce = call[c].memoryNonce
          /\ call'[c].base = call[c].base /\ call'[c].since = call[c].since
      BY <1>1, <3>1 DEF CheckPasses, At, Mismatch, Goto, store, Locals
    <3>3. "connection" \notin faulted /\ call[c].memoryNonce = call[c].base.nonce
      BY <2>3, <2>9, <3>2 DEF CompareInv
    <3>4. disk \in RowsInUse /\ call[c].base \in RowsInUse
      BY DEF RowsInUse
    <3>5. disk.nonce = None \/ disk.ver = call[c].base.ver
      BY <3>2, <3>3, <3>4 DEF NonceInv
    <3>. QED
      BY <3>2, <3>5, <2>8 DEF Compared
  <2>10. ASSUME NEW d \in Callers, call'[d].pc = "update", "connection" \notin faulted'
         PROVE  Compared(d)'
    <3>1. CASE d = c
      BY <2>9, <2>10, <3>1
    <3>2. CASE d # c
      <4>1. call'[d] = call[d] /\ "connection" \notin faulted
        BY <2>2, <2>3, <2>10, <3>2
      <4>2. Compared(d)
        BY <2>10, <4>1 DEF CompareInv
      <4>. QED
        BY <2>8, <4>1, <4>2
    <3>. QED
      BY <3>1, <3>2
  <2>11. ASSUME NEW d \in Callers, call'[d].pc = "check"
         PROVE  call'[d].memoryNonce = call'[d].base.nonce
    BY <2>2, <2>6, <2>11 DEF CompareInv
  <2>. QED
    BY <2>7, <2>10, <2>11 DEF CompareInv
<1>4. CASE Replicate
  BY <1>4 DEF Replicate, CompareInv, Compared, objects, history
<1>5. CASE UNCHANGED vars
  BY <1>5 DEF vars, store, objects, history, CompareInv, Compared
<1>. QED
  BY <1>3, <1>4, <1>5 DEF Next

-----------------------------------------------------------------------------
\* Nobody has begun anything.
LEMMA InitInv == Init => IInv
<1>. SUFFICES ASSUME Init PROVE IInv
  OBVIOUS
<1>1. NoCall \in Locals
  BY RowTypes, Bounds DEF NoCall, Locals, Phases, Outcomes, Ops
<1>2. \A c \in Callers : call[c] = NoCall
  BY DEF Init
<1>3. TypeOK
  BY <1>1, RowTypes, Bounds DEF Init, TypeOK, NoCall
<1>4. PhaseInv /\ WriteInv
  BY <1>2 DEF NoCall, PhaseInv, PhaseOf, WriteInv
<1>5. \A r \in RowsInUse : r.nonce = None
  BY <1>2 DEF RowsInUse, Init, NoCall, FirstRow, Blank, Gone
<1>6. NonceInv
  BY <1>5 DEF NonceInv, NonceIsOld
<1>7. CompareInv
  BY <1>2 DEF CompareInv, Init, NoCall
<1>. QED
  BY <1>3, <1>4, <1>6, <1>7 DEF IInv

LEMMA IInvStep == IInv /\ [Next]_vars => IInv'
  BY TypeStep, PhaseStep, NonceStep, CompareStep DEF IInv

LEMMA Invariance == Spec => []IInv
  BY InitInv, IInvStep, PTL DEF Spec

(***************************************************************************)
(* The type invariant: whoever inflates has a row, whoever patches has an  *)
(* instance.                                                               *)
(***************************************************************************)
THEOREM TypeCorrect == Spec => []TypeOK
<1>1. IInv => TypeOK
  BY DEF IInv
<1>. QED
  BY <1>1, Invariance, PTL

(***************************************************************************)
(* However often a patch is retried and its connection breaks, a call that *)
(* was refused or given up has written nothing, and only the repetition    *)
(* after a lost connection writes a second time.                           *)
(***************************************************************************)
THEOREM AppliedOnce == Spec => []PatchAppliedOnce
<1>1. IInv => PatchAppliedOnce
  BY DEF IInv, PhaseInv, PhaseOf, PatchAppliedOnce, Patches
<1>. QED
  BY <1>1, Invariance, PTL

(***************************************************************************)
(* A patch through an instance that was stale when the call began is       *)
(* refused: what an UPDATE overwrites was shown to its caller or was       *)
(* written during the call.                                                *)
(***************************************************************************)
THEOREM StaleRefused == Spec => StalePatchRefused
<1>1. ASSUME IInv, [Next]_vars, NEW c \in Callers,
             FirstUpdate(c), disk.nonce # None, "connection" \notin faulted
      PROVE  disk.ver = call[c].base.ver \/ disk.ver > call[c].since
  <2>1. call[c].writes = 0 /\ call'[c].writes = 1
    BY <1>1 DEF FirstUpdate
  <2>2. PICK d \in Callers : Step(d)
    BY <1>1, <2>1 DEF Next, Replicate, vars
  <2>3. c = d
    BY <2>1, <2>2, OthersStay, TypeParts, <1>1 DEF IInv
  <2>4. IsNext(call[c], call'[c]) \/ Kept(call[c], call'[c])
    BY <1>1, <2>2, <2>3, StepShape DEF IInv, Shaped
  <2>5. call[c].pc = "update"
    BY <2>1, <2>4 DEF IsNext, Kept
  <2>. QED
    BY <1>1, <2>5 DEF IInv, CompareInv, Compared
<1>2. IInv /\ [Next]_vars =>
        [\A c \in Callers :
            FirstUpdate(c) /\ disk.nonce # None /\ "connection" \notin faulted =>
                disk.ver = call[c].base.ver \/ disk.ver > call[c].since]_vars
  BY <1>1
<1>. QED
  BY <1>2, Invariance, PTL DEF Spec, StalePatchRefused
-----------------------------------------------------------------------------
(***************************************************************************)
(* Which instances a server knows.  Every reference in use was constructed *)
(* there; and while no entry was dropped and no first loads overlapped,    *)
(* all calls use the cached one, which exists before anything else is      *)
(* constructed, and a blank one is being loaded.                           *)
(***************************************************************************)
RefInv ==
    \A c \in Callers : \A i \in {call[c].ref, call[c].seen, Cached(c)} \ {None} :
        Built(i) /\ Home(i) = On[c]

AllUseTheCached(s) ==
    \A c \in Callers : On[c] = s =>
        /\ call[c].pc \in {"construct", "register", "store"} => call[c].seen = cache[s]
        /\ call[c].pc = "register" => cache[s] = None
        /\ call[c].pc \in {"construct", "register"} /\ cache[s] = None => Loading(c) = {}
        /\ call[c].ref # None /\ call[c].pc # "register" => call[c].ref = cache[s]

BuiltAreCached(s) ==
    \A i \in Instances : Built(i) /\ Home(i) = s =>
        \/ cache[s] = i
        \/ call[i[1]].pc = "register" /\ call[i[1]].ref = i

BlanksAreLoading(s) ==
    \A i \in Instances : Built(i) /\ Home(i) = s /\ shows[i] = Blank /\ "link" \notin faulted =>
        \E c \in Callers : call[c].ref = i /\ call[c].pc \in {"register", "inflate"}

Shared(s) == AllUseTheCached(s) /\ BuiltAreCached(s) /\ BlanksAreLoading(s)

ShareInv == \A s \in Servers : Undisturbed(s) => Shared(s)

\* What a step outside get() and inflate() does to the instances: nothing.
Quiet(c) ==
    /\ UNCHANGED <<cache, shows>>
    /\ call'[c].built = call[c].built
    /\ call'[c].ref \in {call[c].ref, Cached(c), None}
    /\ call'[c].seen \in {call[c].seen, None}
    /\ call[c].pc \notin {"register"}
    /\ call'[c].pc \notin {"construct", "register", "store"}
    /\ call[c].pc = "inflate" => "link" \in faulted'

\* clearCache(), remove() and reallyDelete() take the entry away.
Drops(c) ==
    /\ shows' = shows /\ cache' = [cache EXCEPT ![On[c]] = None]
    /\ On[c] \in dropped'
    /\ call'[c].built = call[c].built /\ call'[c].ref = call[c].ref
    /\ call'[c].seen = None

LEMMA EndedRefs ==
    ASSUME NEW c, NEW ref, NEW outcome
    PROVE  LET e == Ended(c, ref, outcome)
           IN  e.pc = "idle" /\ e.built = call[c].built /\ e.ref = ref /\ e.seen = None
  BY DEF Ended, NoCall

LEMMA BegunRefs ==
    ASSUME NEW c, NEW what, NEW phase
    PROVE  LET b == Begun(c, what, phase)
           IN  /\ b.pc = phase /\ b.built = call[c].built /\ b.ref = call[c].ref
               /\ b.seen = None
               /\ Attempt(c, b).pc = "check" /\ Attempt(c, b).built = call[c].built
               /\ Attempt(c, b).ref = call[c].ref /\ Attempt(c, b).seen = None
  BY DEF Begun, NoCall, Attempt

LEMMA QuietSteps ==
    ASSUME CallTypes, NEW c \in Callers, Step(c)
    PROVE  \/ Lookup(c) \/ Construct(c) \/ Register(c) \/ Inflate(c) \/ Store(c)
           \/ Drops(c) \/ Quiet(c)
<1>. call \in [Callers -> Locals] /\ call[c] \in Locals
  BY DEF CallTypes
<1>1. CASE Read(c) \/ Reload(c) \/ CheckPasses(c)
  BY <1>1, EndedRefs DEF Read, Reload, CheckPasses, Quiet, objects, At, Locals, Goto, End
<1>2. CASE InflateFails(c)
  BY <1>2, EndedRefs DEF InflateFails, Fault, Quiet, objects, At, End
<1>3. CASE CheckGone(c) \/ CheckRefuses(c) \/ DeleteRow(c)
  BY <1>3, EndedRefs DEF CheckGone, CheckRefuses, DeleteRow, Quiet, objects, At, Locals, Goto, End
<1>4. CASE AskShouldRetry(c)
  <2>1. CASE call' = [call EXCEPT ![c] = Attempt(c, [call[c] EXCEPT !.op = "retry"])]
    BY <1>4, <2>1 DEF AskShouldRetry, Attempt, Quiet, objects, At, Locals
  <2>. QED
    BY <1>4, <2>1, EndedRefs DEF AskShouldRetry, Quiet, objects, At, End
<1>5. CASE Update(c)
  BY <1>5 DEF Update, Quiet, objects, At, Locals
<1>6. CASE Select(c)
  BY <1>6, EndedRefs DEF Select, Quiet, objects, At, End, Locals
<1>7. CASE ConnectionLost(c)
  BY <1>7, EndedRefs DEF ConnectionLost, Quiet, objects, End, Locals
<1>8. CASE Get(c)
  <2>1. PICK what \in {"get", "link"} :
          \/ call' = [call EXCEPT ![c] =
                 [Begun(c, what, "idle") EXCEPT !.ref = Cached(c), !.outcome = "ok"]]
          \/ call' = [call EXCEPT ![c] = [Begun(c, what, "read") EXCEPT !.ref = None]]
    BY <1>8 DEF Get
  <2>2. call[c].pc = "idle" /\ UNCHANGED <<cache, shows>>
    BY <1>8 DEF Get, Ready, At, objects
  <2>3. /\ call'[c].built = call[c].built /\ call'[c].seen = None
        /\ call'[c].ref \in {Cached(c), None} /\ call'[c].pc \in {"idle", "read"}
    BY <2>1, ZenonT(60) DEF Begun, NoCall
  <2>. QED
    BY <2>2, <2>3 DEF Quiet
<1>9. CASE Patch(c)
  <2>1. PICK what \in Patches :
          /\ call[c].pc = "idle"
          /\ call' = [call EXCEPT ![c] = Attempt(c, Begun(c, what, "check"))]
          /\ IF what = "remove" THEN Drop(c) ELSE UNCHANGED <<cache, dropped>>
    BY <1>9 DEF Patch, Patches, Ready, At
  <2>2. shows' = shows
    BY <1>9 DEF Patch
  <2>. QED
    BY <2>1, <2>2, BegunRefs DEF Quiet, Drops, Drop, SetCached
<1>10. CASE ReallyDelete(c)
  BY <1>10, BegunRefs DEF ReallyDelete, Drops, Drop, SetCached
<1>11. CASE ClearCache(c)
  BY <1>11 DEF ClearCache, Drops, Drop, SetCached, Begun, NoCall
<1>. QED
  BY <1>1, <1>2, <1>3, <1>4, <1>5, <1>6, <1>7, <1>8, <1>9, <1>10, <1>11 DEF Step, Proceed

\* What inflate() does: which instance it uses, and what it copies into which.
Becomes(c, pc, ref, seen) ==
    /\ call'[c].pc = pc /\ call'[c].ref = ref /\ call'[c].seen = seen

Looks(c) ==
    /\ call[c].pc = "lookup" /\ UNCHANGED <<cache, shows, dropped>>
    /\ Becomes(c, "construct", call[c].ref, Cached(c)) /\ call'[c].built = call[c].built
    /\ On[c] \notin overlapped' /\ Cached(c) = None => Loading(c) = {}

Takes(c) ==
    /\ call[c].pc = "construct" /\ UNCHANGED <<cache, shows, dropped>>
    /\ call[c].seen # None
    /\ Becomes(c, "inflate", call[c].seen, None) /\ call'[c].built = call[c].built

Builds(c) ==
    /\ call[c].pc = "construct" /\ UNCHANGED <<cache, shows, dropped>>
    /\ call[c].seen = None /\ New(c) \in Instances /\ New(c) # None
    /\ Becomes(c, "register", New(c), Cached(c)) /\ call'[c].built = call[c].built + 1

Registers(c) ==
    /\ call[c].pc = "register" /\ call[c].ref # None /\ UNCHANGED dropped
    /\ SetCachedId(c)
    /\ Becomes(c, "inflate", call[c].ref, None) /\ call'[c].built = call[c].built

Fills(c) ==
    /\ call[c].pc = "inflate" /\ call[c].ref # None /\ UNCHANGED <<cache, dropped>>
    /\ shows' = [shows EXCEPT ![call[c].ref] = call[c].row] /\ call[c].row # Gone
    /\ Becomes(c, "store", call[c].ref, Cached(c)) /\ call'[c].built = call[c].built

Stores(c) ==
    /\ call[c].pc = "store" /\ call[c].ref # None /\ UNCHANGED dropped
    /\ SetCachedId(c)
    /\ \E pc \in {"ask", "idle"} : Becomes(c, pc, call[c].ref, None)
    /\ call'[c].built = call[c].built

Does(c) ==
    Looks(c) \/ Takes(c) \/ Builds(c) \/ Registers(c) \/ Fills(c) \/ Stores(c)
        \/ Drops(c) \/ Quiet(c)

LEMMA StepDoes ==
    ASSUME TypeOK, NEW c \in Callers, Step(c)
    PROVE  Does(c)
<1>1. call \in [Callers -> Locals] /\ call[c] \in Locals /\ CallTypes
  BY TypeParts DEF TypeOK
<1>2. On[c] \in Servers /\ overlapped \subseteq Servers
  BY HomeIsServer DEF TypeOK
<1>3. CASE Lookup(c)
  BY <1>1, <1>2, <1>3 DEF Lookup, At, objects, Does, Looks, Becomes, Locals
<1>4. CASE Construct(c)
  <2>1. call[c].built < MaxBuilt => New(c) \in Instances /\ New(c) # None
    BY <1>1, Bounds, NoneAssumption DEF New, Instances, Locals
  <2>2. call[c].seen # None => Takes(c)
    BY <1>1, <1>4 DEF Construct, At, objects, history, Takes, Becomes, Locals
  <2>3. call[c].seen = None => Builds(c)
    BY <1>1, <1>4, <2>1 DEF Construct, Constructed, At, objects, history, Builds, Becomes, Locals
  <2>. QED
    BY <2>2, <2>3 DEF Does
<1>5. CASE Register(c)
  BY <1>1, <1>5 DEF Register, At, history, CallTypes, Phases, Does, Registers, Becomes, Locals
<1>6. CASE Inflate(c)
  BY <1>1, <1>6 DEF Inflate, At, history, CallTypes, Phases, Does, Fills, Becomes, Locals
<1>7. CASE Store(c)
  <2>1. /\ call[c].pc = "store" /\ call[c].ref # None /\ UNCHANGED dropped
        /\ SetCachedId(c)
    BY <1>1, <1>7 DEF Store, At, history, CallTypes, Phases
  <2>2. \/ call' = [call EXCEPT ![c] = [call[c] EXCEPT !.seen = None, !.pc = "ask"]]
        \/ call' = [call EXCEPT ![c] = Ended(c, call[c].ref, "ok")]
    BY <1>1, <1>7 DEF Store, End
  <2>3. /\ call'[c].pc \in {"ask", "idle"} /\ call'[c].ref = call[c].ref
        /\ call'[c].seen = None /\ call'[c].built = call[c].built
    <3>1. CASE call' = [call EXCEPT ![c] = [call[c] EXCEPT !.seen = None, !.pc = "ask"]]
      BY <1>1, <3>1 DEF Locals
    <3>2. CASE call' = [call EXCEPT ![c] = Ended(c, call[c].ref, "ok")]
      BY <1>1, <3>2, EndedRefs
    <3>. QED
      BY <2>2, <3>1, <3>2
  <2>. QED
    BY <2>1, <2>3 DEF Does, Stores, Becomes
<1>. QED
  BY <1>1, <1>3, <1>4, <1>5, <1>6, <1>7, QuietSteps DEF Does

\* References stay where they were constructed.
LEMMA RefStep == ASSUME TypeOK, RefInv, NEW c \in Callers, Step(c)  PROVE  RefInv'
<1>1. /\ call \in [Callers -> Locals] /\ CallTypes
      /\ \A d \in Callers : On[d] \in Servers
      /\ cache \in [Servers -> Instances \cup {None}] /\ shows \in [Instances -> Rows]
  BY HomeIsServer, TypeParts DEF TypeOK
<1>2. \A d \in Callers : /\ call[d].ref \in Instances \cup {None}
                         /\ call[d].seen \in Instances \cup {None}
                         /\ call[d].built \in Nat
                         /\ Cached(d) \in Instances \cup {None}
  BY <1>1, Bounds DEF Locals, Cached
<1>3. \A d \in Callers \ {c} : call'[d] = call[d]
  BY <1>1, OthersStay
<1>4. /\ call'[c].built \in {call[c].built, call[c].built + 1}
      /\ \/ call'[c].ref \in {call[c].ref, call[c].seen, Cached(c), None}
         \/ call'[c].ref = New(c) /\ call'[c].built = call[c].built + 1
      /\ call'[c].seen \in {call[c].seen, Cached(c), None}
  <2>1. Does(c)
    BY StepDoes
  <2>. QED
    BY <1>2, <2>1 DEF Does, Looks, Takes, Builds, Registers, Fills, Stores, Quiet, Drops, Becomes
<1>5. cache' = cache \/ cache' = [cache EXCEPT ![On[c]] = None]
        \/ cache' = [cache EXCEPT ![On[c]] = call[c].ref]
  BY StepDoes DEF Does, Looks, Takes, Builds, Registers, Fills, Stores, Quiet, Drops,
                  SetCachedId, SetCached
<1>6. \A d \in Callers : \/ Cached(d)' \in {Cached(d), None}
                         \/ Cached(d)' = call[c].ref /\ On[d] = On[c]
  <2>1. ASSUME NEW d \in Callers, On[d] = On[c]
        PROVE  cache'[On[d]] \in {cache[On[d]], None, call[c].ref}
    BY <1>1, <1>5, <2>1
  <2>2. ASSUME NEW d \in Callers, On[d] # On[c]
        PROVE  cache'[On[d]] = cache[On[d]]
    BY <1>1, <1>5, <2>2
  <2>. QED
    BY <2>1, <2>2 DEF Cached
<1>7. ASSUME NEW i \in Instances, Built(i)  PROVE  Built(i)'
  <2>1. i[1] \in Callers /\ i[2] \in Nat
    BY Bounds DEF Instances
  <2>. QED
    BY <1>2, <1>3, <1>4, <1>7, <2>1 DEF Built
<1>8. ASSUME NEW i, i = New(c), call'[c].built = call[c].built + 1
      PROVE  Built(i)' /\ Home(i) = On[c]
  <2>1. i[1] = c /\ i[2] = call[c].built + 1
    BY <1>8 DEF New
  <2>. QED
    BY <1>2, <1>8, <2>1 DEF Built, Home
<1>9. ASSUME NEW d \in Callers, NEW i \in {call[d].ref, call[d].seen, Cached(d)}, i # None
      PROVE  i \in Instances /\ Built(i) /\ Built(i)' /\ Home(i) = On[d]
  BY <1>2, <1>7, <1>9 DEF RefInv
<1>10. ASSUME NEW d \in Callers, NEW i \in {call'[d].ref, call'[d].seen, Cached(d)'}, i # None
       PROVE  Built(i)' /\ Home(i) = On[d]
  <2>1. \/ i \in {call[d].ref, call[d].seen, Cached(d)}
        \/ i = call[c].ref /\ On[d] = On[c]
        \/ d = c /\ i = New(c) /\ i = call'[c].ref /\ call'[c].built = call[c].built + 1
    BY <1>3, <1>4, <1>6, <1>10
  <2>2. CASE i \in {call[d].ref, call[d].seen, Cached(d)}
    BY <2>2, <1>9, <1>10
  <2>3. CASE i = call[c].ref /\ On[d] = On[c]
    BY <2>3, <1>9, <1>10
  <2>4. CASE d = c /\ i = New(c) /\ i = call'[c].ref /\ call'[c].built = call[c].built + 1
    BY <2>4, <1>8
  <2>. QED
    BY <2>1, <2>2, <2>3, <2>4
<1>. QED
  BY <1>10 DEF RefInv, Home, Cached

\* The histories only grow, and a call of one server touches nothing on another.
LEMMA HistoryGrows ==
    ASSUME NEW c \in Callers, Step(c)
    PROVE  /\ dropped \subseteq dropped' /\ overlapped \subseteq overlapped'
           /\ faulted \subseteq faulted'
  BY DEF Step, Proceed, Read, Lookup, Construct, Constructed, Register, Inflate, InflateFails,
         Store, CheckGone, CheckPasses, CheckRefuses, Reload, AskShouldRetry, Update, Select,
         ConnectionLost, DeleteRow, Get, Patch, ReallyDelete, ClearCache, Fault, Drop, history

LEMMA ElsewhereStep ==
    ASSUME TypeOK, RefInv, NEW c \in Callers, Step(c),
           NEW s \in Servers, s # On[c], Shared(s)
    PROVE  Shared(s)'
<1>1. \A d \in Callers \ {c} : call'[d] = call[d]
  BY OthersStay, TypeParts
<1>2. cache'[s] = cache[s]
  BY StepDoes DEF Does, Looks, Takes, Builds, Registers, Fills, Stores, Quiet, Drops,
                  SetCachedId, SetCached, TypeOK
<1>3. \A d \in Callers : On[d] = s => d # c /\ Loading(d)' = Loading(d)
  BY <1>1 DEF Loading
<1>4. ASSUME NEW i \in Instances, Home(i) = s
      PROVE  shows'[i] = shows[i] /\ Built(i)' = Built(i) /\ i[1] \in Callers \ {c}
  <2>1. i # call[c].ref \/ call[c].ref = None
    BY <1>4 DEF RefInv
  <2>2. i # call[c].seen \/ call[c].seen = None
    BY <1>4 DEF RefInv
  <2>3. i[1] \in Callers \ {c} /\ shows \in [Instances -> Rows]
    BY <1>4 DEF Instances, Home, TypeOK
  <2>4. shows'[i] = shows[i]
    BY <2>1, <2>2, <2>3, StepDoes
       DEF Does, Looks, Takes, Builds, Registers, Fills, Stores, Quiet, Drops, SetCachedId
  <2>. QED
    BY <1>1, <2>3, <2>4 DEF Built
<1>5. AllUseTheCached(s)'
  BY <1>1, <1>2, <1>3 DEF Shared, AllUseTheCached
<1>6. BuiltAreCached(s)'
  BY <1>1, <1>2, <1>4 DEF Shared, BuiltAreCached, Home
<1>7. BlanksAreLoading(s)'
  <2>1. ASSUME NEW i \in Instances, Built(i)', Home(i)' = s, shows'[i] = Blank,
               "link" \notin faulted'
        PROVE  \E d \in Callers : call'[d].ref = i /\ call'[d].pc \in {"register", "inflate"}
    <3>1. Home(i) = s
      BY <2>1 DEF Home
    <3>2. Built(i) /\ shows[i] = Blank /\ "link" \notin faulted
      BY <2>1, <3>1, <1>4, HistoryGrows
    <3>3. PICK d \in Callers : call[d].ref = i /\ call[d].pc \in {"register", "inflate"}
      BY <3>1, <3>2 DEF Shared, BlanksAreLoading
    <3>4. i # None
      BY NoneAssumption
    <3>5. On[d] = s
      BY <3>1, <3>3, <3>4 DEF RefInv
    <3>. QED
      BY <1>1, <1>3, <3>3, <3>5
  <2>. QED
    BY <2>1 DEF BlanksAreLoading, Blank, Gone
<1>. QED
  BY <1>5, <1>6, <1>7 DEF Shared

\* Where nothing was dropped and no first loads overlapped, the caller's step keeps the order.
LEMMA HereStep ==
    ASSUME TypeOK, RefInv, NEW c \in Callers, Step(c), Shared(On[c]), Undisturbed(On[c])'
    PROVE  Shared(On[c])'
<1>. DEFINE s == On[c]
<1>1. /\ \A d \in Callers \ {c} : call'[d] = call[d]
      /\ "link" \notin faulted' => "link" \notin faulted
      /\ s \notin dropped' /\ s \notin overlapped'
  BY OthersStay, TypeParts, HistoryGrows DEF Undisturbed
<1>2. /\ s \in Servers /\ cache \in [Servers -> Instances \cup {None}]
      /\ shows \in [Instances -> Rows]
      /\ \A d \in Callers : /\ call[d].ref \in Instances \cup {None}
                            /\ call[d].seen \in Instances \cup {None}
                            /\ call[d].built \in Nat
                            /\ call[d].pc = "store" => call[d].ref # None
  BY HomeIsServer, Bounds DEF TypeOK, Locals, Phases
<1>3. \A d \in Callers : On[d] = s =>
        /\ call[d].pc \in {"construct", "register", "store"} => call[d].seen = cache[s]
        /\ call[d].pc = "register" => cache[s] = None
        /\ call[d].pc \in {"construct", "register"} /\ cache[s] = None => Loading(d) = {}
        /\ call[d].ref # None /\ call[d].pc # "register" => call[d].ref = cache[s]
  BY DEF Shared, AllUseTheCached
<1>4. \A i \in Instances : Built(i) /\ On[i[1]] = s =>
        \/ cache[s] = i
        \/ call[i[1]].pc = "register" /\ call[i[1]].ref = i
  BY DEF Shared, BuiltAreCached, Home
<1>5. \A i \in Instances : Built(i) /\ On[i[1]] = s /\ shows[i] = Blank /\ "link" \notin faulted =>
        \E d \in Callers : call[d].ref = i /\ call[d].pc \in {"register", "inflate"}
  BY DEF Shared, BlanksAreLoading, Home
<1>6. ASSUME call'[c].pc \notin {"construct", "register"}
             \/ call[c].pc \in {"construct", "register"}
      PROVE  \A d \in Callers \ {c} : Loading(d)' \subseteq Loading(d)
  BY <1>1, <1>6 DEF Loading
<1>7. Loading(c)' = Loading(c)
  BY <1>1 DEF Loading
<1>8. \A d \in Callers \ {c} :
          On[d] = s /\ call[d].pc \in {"construct", "register"} => d \in Loading(c)
  BY DEF Loading
<1>9. \A i \in Instances : i[1] \in Callers /\ i[2] \in Nat /\ i = <<i[1], i[2]>>
  BY Bounds DEF Instances
<1>10. /\ \A i \in Instances : i[1] # c => Built(i)' = Built(i)
       /\ call'[c].built = call[c].built => \A i \in Instances : Built(i)' = Built(i)
  BY <1>1, <1>9 DEF Built
<1>. HIDE DEF s
<1>11. CASE Looks(c)
  <2>1. AllUseTheCached(s)'
    BY <1>1, <1>3, <1>7, <1>8, <1>11, <1>2 DEF AllUseTheCached, Looks, Becomes, Cached, s
  <2>2. BuiltAreCached(s)'
    BY <1>1, <1>4, <1>9, <1>10, <1>11 DEF BuiltAreCached, Looks, Becomes, Home
  <2>3. BlanksAreLoading(s)'
    BY <1>1, <1>5, <1>10, <1>11 DEF BlanksAreLoading, Looks, Becomes, Home, Blank, Gone
  <2>. QED
    BY <2>1, <2>2, <2>3 DEF Shared, s
<1>12. CASE Takes(c)
  <2>1. AllUseTheCached(s)'
    BY <1>1, <1>3, <1>6, <1>12, <1>2 DEF AllUseTheCached, Takes, Becomes, s
  <2>2. BuiltAreCached(s)'
    BY <1>1, <1>4, <1>9, <1>10, <1>12 DEF BuiltAreCached, Takes, Becomes, Home
  <2>3. BlanksAreLoading(s)'
    BY <1>1, <1>5, <1>10, <1>12 DEF BlanksAreLoading, Takes, Becomes, Home, Blank, Gone
  <2>. QED
    BY <2>1, <2>2, <2>3 DEF Shared, s
<1>13. CASE Builds(c)
  <2>1. cache[s] = None /\ cache'[s] = None /\ Loading(c) = {} /\ call'[c].pc = "register"
        /\ call'[c].seen = None
    BY <1>3, <1>13 DEF Builds, Becomes, Cached, s
  <2>2. \A d \in Callers \ {c} : On[d] = s =>
            call[d].pc \notin {"construct", "register"}
    BY <2>1, <1>8
  <2>3. AllUseTheCached(s)'
    BY <1>1, <1>3, <1>7, <2>1, <2>2 DEF AllUseTheCached
  <2>4. ASSUME NEW i \in Instances, Built(i)', On[i[1]] = s
        PROVE  i = call'[c].ref /\ i[1] = c
    <3>1. ~Built(i)
      <4>1. i \in Instances /\ i # None
        BY NoneAssumption
      <4>. QED
        BY <1>4, <1>9, <2>1, <2>2, <2>4, <4>1, <1>13 DEF Builds
    <3>2. i[1] = c
      BY <1>10, <2>4, <3>1
    <3>3. i[2] = call[c].built + 1
      BY <1>2, <1>9, <1>13, <2>4, <3>1, <3>2 DEF Built, Builds
    <3>. QED
      BY <1>9, <1>13, <3>2, <3>3 DEF Builds, Becomes, New
  <2>5. BuiltAreCached(s)'
    BY <2>1, <2>4 DEF BuiltAreCached, Home
  <2>6. BlanksAreLoading(s)'
    BY <2>1, <2>4 DEF BlanksAreLoading, Home
  <2>. QED
    BY <2>3, <2>5, <2>6 DEF Shared, s
<1>14. CASE Registers(c)
  <2>1. cache[s] = None /\ call[c].seen = None /\ Loading(c) = {} /\ call[c].ref # None
    BY <1>3, <1>14 DEF Registers, s
  <2>2. cache'[s] = call[c].ref /\ shows' = shows
    BY <1>2, <1>14, <2>1 DEF Registers, SetCachedId, SetCached, s
  <2>3. \A d \in Callers \ {c} : On[d] = s =>
            call[d].pc \notin {"construct", "register", "store"} /\ call[d].ref = None
    BY <1>2, <1>3, <1>8, <2>1
  <2>4. /\ call'[c].pc = "inflate" /\ call'[c].ref = call[c].ref /\ call'[c].built = call[c].built
        /\ call[c].pc = "register"
    BY <1>14 DEF Registers, Becomes
  <2>5. AllUseTheCached(s)'
    BY <1>1, <2>2, <2>3, <2>4 DEF AllUseTheCached
  <2>6. BuiltAreCached(s)'
    <3>1. \A i \in Instances : Built(i) /\ On[i[1]] = s => i = call[c].ref
      <4>1. \A i \in Instances : i # None
        BY NoneAssumption
      <4>. QED
        BY <1>4, <1>9, <2>1, <2>3, <4>1
    <3>. QED
      BY <1>10, <2>2, <2>4, <3>1 DEF BuiltAreCached, Home
  <2>7. BlanksAreLoading(s)'
    BY <1>1, <1>5, <1>10, <2>2, <2>4 DEF BlanksAreLoading, Home, Blank, Gone
  <2>. QED
    BY <2>5, <2>6, <2>7 DEF Shared, s
<1>15. CASE Fills(c)
  <2>1. cache' = cache /\ call[c].pc = "inflate" /\ call'[c].pc = "store"
        /\ call'[c].ref = call[c].ref /\ call'[c].seen = cache[s]
        /\ call'[c].built = call[c].built
    BY <1>15 DEF Fills, Becomes, Cached, s
  <2>2. AllUseTheCached(s)'
    BY <1>1, <1>3, <1>6, <2>1 DEF AllUseTheCached
  <2>3. BuiltAreCached(s)'
    BY <1>1, <1>4, <1>9, <1>10, <2>1 DEF BuiltAreCached, Home
  <2>4. \A i \in Instances : shows'[i] = Blank => shows[i] = Blank /\ i # call[c].ref
    BY <1>2, <1>15, RowTypes DEF Fills
  <2>5. BlanksAreLoading(s)'
    BY <1>1, <1>5, <1>10, <2>1, <2>4 DEF BlanksAreLoading, Home, Blank, Gone
  <2>. QED
    BY <2>2, <2>3, <2>5 DEF Shared, s
<1>16. CASE Stores(c)
  <2>1. call[c].ref # None /\ call[c].seen = cache[s] /\ call[c].ref = cache[s]
    BY <1>3, <1>16 DEF Stores, s
  <2>2. cache' = cache /\ shows' = shows
    BY <1>2, <1>16, <2>1 DEF Stores, SetCachedId
  <2>3. /\ call[c].pc = "store" /\ call'[c].pc \in {"ask", "idle"}
        /\ call'[c].ref = call[c].ref /\ call'[c].built = call[c].built
    BY <1>16 DEF Stores, Becomes
  <2>4. AllUseTheCached(s)'
    BY <1>1, <1>3, <1>6, <2>2, <2>3 DEF AllUseTheCached
  <2>5. BuiltAreCached(s)'
    BY <1>1, <1>4, <1>9, <1>10, <2>2, <2>3 DEF BuiltAreCached, Home
  <2>6. BlanksAreLoading(s)'
    BY <1>1, <1>5, <1>10, <2>2, <2>3 DEF BlanksAreLoading, Home, Blank, Gone
  <2>. QED
    BY <2>4, <2>5, <2>6 DEF Shared, s
<1>17. CASE Drops(c)
  BY <1>1, <1>17 DEF Drops, s
<1>18. CASE Quiet(c)
  <2>1. cache' = cache /\ shows' = shows /\ call'[c].built = call[c].built
        /\ call'[c].ref \in {call[c].ref, cache[s], None} /\ call[c].pc # "register"
        /\ call'[c].pc \notin {"construct", "register", "store"}
        /\ (call[c].pc = "inflate" => "link" \in faulted')
    BY <1>18 DEF Quiet, Cached, s
  <2>2. AllUseTheCached(s)'
    BY <1>1, <1>3, <1>6, <2>1 DEF AllUseTheCached
  <2>3. BuiltAreCached(s)'
    BY <1>1, <1>4, <1>9, <1>10, <2>1 DEF BuiltAreCached, Home
  <2>4. BlanksAreLoading(s)'
    BY <1>1, <1>5, <1>10, <2>1 DEF BlanksAreLoading, Home, Blank, Gone
  <2>. QED
    BY <2>2, <2>3, <2>4 DEF Shared, s
<1>. QED
  BY StepDoes, <1>11, <1>12, <1>13, <1>14, <1>15, <1>16, <1>17, <1>18 DEF Does

LEMMA ShareStep == TypeOK /\ RefInv /\ ShareInv /\ [Next]_vars => RefInv' /\ ShareInv'
<1>. SUFFICES ASSUME TypeOK, RefInv, ShareInv, [Next]_vars PROVE RefInv' /\ ShareInv'
  OBVIOUS
<1>1. CASE \E c \in Callers : Step(c)
  <2>1. PICK c \in Callers : Step(c)
    BY <1>1
  <2>2. ASSUME NEW s \in Servers, Undisturbed(s)'  PROVE  Shared(s)'
    <3>1. Shared(s)
      BY <2>1, <2>2, HistoryGrows DEF ShareInv, Undisturbed
    <3>. QED
      BY <2>1, <2>2, <3>1, HereStep, ElsewhereStep
  <2>. QED
    BY <2>1, <2>2, RefStep DEF ShareInv
<1>2. CASE Replicate \/ UNCHANGED vars
  <2>1. UNCHANGED <<cache, shows, call, overlapped, dropped, faulted>>
    BY <1>2 DEF Replicate, vars, objects, history
  <2>. QED
    BY <2>1
       DEF RefInv, ShareInv, Shared, AllUseTheCached, BuiltAreCached, BlanksAreLoading, Built,
           Loading, Cached, Undisturbed, Home
<1>. QED
  BY <1>1, <1>2 DEF Next

LEMMA ShareInit == Init => RefInv /\ ShareInv
<1>. SUFFICES ASSUME Init PROVE RefInv /\ ShareInv
  OBVIOUS
<1>1. \A c \in Callers : call[c] = NoCall /\ cache[On[c]] = None
  BY HomeIsServer DEF Init
<1>2. \A i \in Instances : ~Built(i)
  <2>1. \A i \in Instances : i[1] \in Callers /\ i[2] \in Nat /\ i[2] > 0
    BY Bounds DEF Instances
  <2>. QED
    BY <1>1, <2>1 DEF Built, NoCall
<1>. QED
  BY <1>1, <1>2
     DEF RefInv, ShareInv, Shared, AllUseTheCached, BuiltAreCached, BlanksAreLoading, NoCall,
         Cached

(***************************************************************************)
(* Instance caching: unless an entry was dropped or first loads            *)
(* overlapped, all callers of a server share one instance of the row, and  *)
(* one that is given out blank is being filled, unless an inflation        *)
(* failed.                                                                 *)
(***************************************************************************)
THEOREM OneInstance == Spec => []OneInstancePerId
<1>1. ASSUME ShareInv  PROVE  OneInstancePerId
  <2>1. ASSUME NEW s \in Servers, Shared(s),
               NEW i \in Instances, Built(i), Home(i) = s,
               NEW j \in Instances, Built(j), Home(j) = s
        PROVE  i = j
    <3>1. i[1] \in Callers /\ j[1] \in Callers
      BY DEF Instances
    <3>2. i # None /\ j # None
      BY NoneAssumption
    <3>3. /\ \/ cache[s] = i
             \/ call[i[1]].pc = "register" /\ call[i[1]].ref = i
          /\ \/ cache[s] = j
             \/ call[j[1]].pc = "register" /\ call[j[1]].ref = j
      BY <2>1 DEF Shared, BuiltAreCached
    <3>4. \A d \in Callers : On[d] = s /\ call[d].pc = "register" =>
              cache[s] = None /\ Loading(d) = {}
      BY <2>1 DEF Shared, AllUseTheCached
    <3>. QED
      BY <2>1, <3>1, <3>2, <3>3, <3>4 DEF Home, Loading
  <2>2. ASSUME NEW s \in Servers, Shared(s), NEW i \in Instances, Built(i), Home(i) = s,
               shows[i] = Blank, "link" \notin faulted
        PROVE  \E c \in Callers : call[c].ref = i /\ call[c].pc \in {"register", "inflate"}
    BY <2>2 DEF Shared, BlanksAreLoading
  <2>3. ASSUME NEW i \in Instances, Undisturbed(Home(i))
        PROVE  Home(i) \in Servers /\ Shared(Home(i))
    <3>1. Home(i) \in Servers
      BY HomeIsServer DEF Instances, Home
    <3>. QED
      BY <1>1, <2>3, <3>1 DEF ShareInv
  <2>. QED
    BY <2>1, <2>2, <2>3 DEF OneInstancePerId
<1>2. IInv => TypeOK
  BY DEF IInv
<1>. QED
  BY <1>1, <1>2, Invariance, ShareInit, ShareStep, PTL DEF Spec

==============================================================================
