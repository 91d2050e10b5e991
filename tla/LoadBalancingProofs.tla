------------------------- MODULE LoadBalancingProofs -------------------------
(***************************************************************************)
(* Proofs about LoadBalancing, for any callers, handles, plans and faults. *)
(***************************************************************************)
EXTENDS LoadBalancing, SequenceTheorems, TLAPS

(***************************************************************************)
(* The inductive invariant.  RefsInv says what the manager's references    *)
(* point to and which phase goes with them.  CountInv counts the balancers *)
(* a manager without one may already have built.  AloneInv is the heart:   *)
(* until a change overlaps something else, at most one balancer lives or   *)
(* is being built, the manager knows it, and it is of the strategy in      *)
(* force.  TurnsInv says how the counter of round robin walks.             *)
(***************************************************************************)
StateOf(b) == balancer[b].state

RefsInv ==
    /\ active # 0 => StateOf(active) \in {"live", "destroyed"}
    /\ initOf # 0 => StateOf(initOf) = "initialising"
    /\ \A t \in Tasks : change[t] # NoChange =>
         /\ pc[t] = "changing"
         /\ change[t].to \in Strategies /\ change[t].from \in Strategies
         /\ change[t].old # 0 /\ StateOf(change[t].old) \in {"live", "destroyed"}
    /\ \A t \in Tasks : pc[t] = "changing" => change[t] # NoChange
    /\ pc["destroy"] \in {"new", "waiting", "cleaning", "settled"}
    /\ destroyed <=> pc["destroy"] # "new"

CountInv ==
    /\ BuiltOnce
    /\ ~destroyed /\ active = 0 /\ initOf = 0 => built <= updates + faults.init

AloneInv ==
    ~overlapped =>
        /\ \A b \in 1..built : /\ StateOf(b) = "initialising" => b = initOf
                               /\ StateOf(b) = "live" => b = active
        /\ initOf # 0 => active = 0 /\ balancer[initOf].strategy = strategy
        /\ active # 0 => StateOf(active) = "live" /\ balancer[active].strategy = strategy
        /\ \A t \in Changing : /\ Changing = {t} /\ ~destroyed
                               /\ active = change[t].old /\ initOf = 0
                               /\ change[t].from = strategy
        /\ pc["destroy"] = "waiting" => initOf # 0 /\ using["destroy"] = initOf
        /\ pc["destroy"] \in {"cleaning", "settled"} => initOf = 0
        /\ answer["destroy"] = "done" => pc["destroy"] = "settled" /\ active = 0

RoutesInv ==
    \A c \in Callers :
        /\ pc[c] \in {"initialising", "waiting", "routed"} => using[c] # 0
        /\ c \in Queries /\ pc[c] \notin {"new", "settled"} => Replicas[c] > 0

OneSize(p) == \A i, j \in 1..Len(p) : Replicas[p[i].query] = Replicas[p[j].query]
Wrapped(k, n) == IF k < n THEN k ELSE k - n
Turn(p, i, j) ==
    i <= j /\ j < i + Replicas[p[i].query] =>
        p[j].target = Wrapped(p[i].target + (j - i), Replicas[p[i].query])
TurnsOf(p, at) ==
    /\ \A i \in 1..Len(p) : p[i].target < Replicas[p[i].query]
    /\ at = IF Len(p) = 0 THEN 0 ELSE p[Len(p)].target
    /\ OneSize(p) => \A i, j \in 1..Len(p) : Turn(p, i, j)
TurnsInv == \A b \in 1..built : balancer[b].class = Default => TurnsOf(picks[b], cursor[b])

IInv == TypeOK /\ RefsInv /\ CountInv /\ AloneInv /\ RoutesInv /\ TurnsInv

-----------------------------------------------------------------------------
\* Append on functions over 1..n.
BalancerRecord == [strategy : Strategies, class : Strategies,
             state : {"initialising", "live", "failed", "destroyed"}]
PickRecord == [query : Queries, target : Nat]

LEMMA AppendBalancer ==
    ASSUME NEW n \in Nat, NEW f \in [1..n -> BalancerRecord], NEW e \in BalancerRecord
    PROVE  /\ Append(f, e) \in [1..n + 1 -> BalancerRecord]
           /\ \A i \in 1..n : Append(f, e)[i] = f[i]
           /\ Append(f, e)[n + 1] = e
<1>1. f \in Seq(BalancerRecord) /\ Len(f) = n
  <2>1. f \in Seq(BalancerRecord)
    OBVIOUS
  <2>2. Len(f) \in Nat /\ DOMAIN f = 1..Len(f) /\ DOMAIN f = 1..n
    BY <2>1, LenProperties
  <2>. QED  BY <2>1, <2>2
<1>2. /\ Append(f, e) \in Seq(BalancerRecord) /\ Len(Append(f, e)) = n + 1
      /\ \A i \in 1..n : Append(f, e)[i] = f[i]
      /\ Append(f, e)[n + 1] = e
  BY <1>1, AppendProperties
<1>3. Append(f, e) \in [1..Len(Append(f, e)) -> BalancerRecord]
  BY <1>2, LenProperties
<1>. QED  BY <1>2, <1>3

LEMMA AppendPicks ==
    ASSUME NEW n \in Nat, NEW f \in [1..n -> Seq(PickRecord)], NEW e \in Seq(PickRecord)
    PROVE  /\ Append(f, e) \in [1..n + 1 -> Seq(PickRecord)]
           /\ \A i \in 1..n : Append(f, e)[i] = f[i]
           /\ Append(f, e)[n + 1] = e
<1>1. f \in Seq(Seq(PickRecord)) /\ Len(f) = n
  <2>1. f \in Seq(Seq(PickRecord))
    OBVIOUS
  <2>2. Len(f) \in Nat /\ DOMAIN f = 1..Len(f) /\ DOMAIN f = 1..n
    BY <2>1, LenProperties
  <2>. QED  BY <2>1, <2>2
<1>2. /\ Append(f, e) \in Seq(Seq(PickRecord)) /\ Len(Append(f, e)) = n + 1
      /\ \A i \in 1..n : Append(f, e)[i] = f[i]
      /\ Append(f, e)[n + 1] = e
  BY <1>1, AppendProperties
<1>3. Append(f, e) \in [1..Len(Append(f, e)) -> Seq(PickRecord)]
  BY <1>2, LenProperties
<1>. QED  BY <1>2, <1>3

LEMMA AppendZero ==
    ASSUME NEW n \in Nat, NEW f \in [1..n -> Nat]
    PROVE  /\ Append(f, 0) \in [1..n + 1 -> Nat]
           /\ \A i \in 1..n : Append(f, 0)[i] = f[i]
           /\ Append(f, 0)[n + 1] = 0
<1>1. f \in Seq(Nat) /\ Len(f) = n
  <2>1. f \in Seq(Nat)
    OBVIOUS
  <2>2. Len(f) \in Nat /\ DOMAIN f = 1..Len(f) /\ DOMAIN f = 1..n
    BY <2>1, LenProperties
  <2>. QED  BY <2>1, <2>2
<1>2. /\ Append(f, 0) \in Seq(Nat) /\ Len(Append(f, 0)) = n + 1
      /\ \A i \in 1..n : Append(f, 0)[i] = f[i]
      /\ Append(f, 0)[n + 1] = 0
  BY <1>1, AppendProperties
<1>3. Append(f, 0) \in [1..Len(Append(f, 0)) -> Nat]
  BY <1>2, LenProperties
<1>. QED  BY <1>2, <1>3

\* What a step that only moves queries leaves alone.
CoreStays ==
    /\ UNCHANGED <<strategy, active, initOf, destroyed, built, balancer, change, updates, overlapped>>
    /\ faults'.init = faults.init
    /\ pc'["destroy"] = pc["destroy"] /\ using'["destroy"] = using["destroy"]
    /\ answer'["destroy"] = answer["destroy"]
    /\ \A t \in Tasks : pc'[t] = "changing" <=> pc[t] = "changing"

LEMMA CoreFrame ==
    ASSUME IInv, CoreStays
    PROVE  RefsInv' /\ CountInv' /\ AloneInv'
<1>1. RefsInv'
  BY DEF IInv, CoreStays, RefsInv, StateOf
<1>2. CountInv'
  BY DEF IInv, CoreStays, CountInv, BuiltOnce
<1>3. AloneInv'
  BY DEF IInv, CoreStays, AloneInv, StateOf, Changing
<1>. QED  BY <1>1, <1>2, <1>3

LEMMA ClassIsStrategy ==
    ASSUME NEW s \in Strategies
    PROVE  ClassOf(s) \in Strategies
BY DEF ClassOf, Strategies, Default

LEMMA Callers1 ==
    /\ Callers \subseteq Tasks /\ Queries \subseteq Callers /\ "destroy" \notin Tasks
    /\ Tasks = Callers \cup Switchers
BY CallersAssumption DEF Callers, Tasks

-----------------------------------------------------------------------------
LEMMA InitIInv == Init => IInv
<1>. SUFFICES ASSUME Init PROVE IInv
  OBVIOUS
<1>1. TypeOK
  <2>1. ManagerType
    <3>1. strategy \in Strategies /\ custom \in BOOLEAN /\ destroyed \in BOOLEAN /\ overlapped \in BOOLEAN
      BY DEF Init, Strategies
    <3>2. built \in Nat /\ active \in 0..built /\ initOf \in 0..built /\ updates \in Nat
      BY DEF Init
    <3>3. plan \in Plans /\ faults \in [init : Nat, destroy : Nat, replica : Nat]
      BY DEF Init
    <3>. QED  BY <3>1, <3>2, <3>3 DEF ManagerType
  <2>2. \A X : <<>> \in [1..0 -> X]
    BY EmptySeq, LenProperties
  <2>3. BalancerType
    BY <2>2 DEF Init, BalancerType
  <2>4. CallType
    BY DEF Init, CallType, Phases, Answers, NoChange
  <2>. QED  BY <2>1, <2>3, <2>4 DEF TypeOK
<1>2. RefsInv /\ CountInv /\ RoutesInv /\ TurnsInv
  BY Callers1 DEF Init, RefsInv, CountInv, BuiltOnce, RoutesInv, TurnsInv
<1>3. AloneInv
  BY DEF Init, AloneInv, Changing
<1>. QED  BY <1>1, <1>2, <1>3 DEF IInv

\* A caller gets the balancer there is, waits for the one being built, or builds one.
LEMMA GetIInv ==
    ASSUME IInv, NEW c \in Callers, ~destroyed, pc[c] \in {"new", "again"},
           c \in Queries => Replicas[c] > 0, GetLoadBalancer(c),
           UNCHANGED <<plan, strategy, custom, active, destroyed, retried, answer, change, updates,
                       overlapped, faults>>
    PROVE  IInv'
<1>. USE Callers1
<1>1. ASSUME NEW b \in 1..built, NEW to \in {"routed", "waiting"}, b # 0,
             using' = [using EXCEPT ![c] = b], pc' = [pc EXCEPT ![c] = to],
             UNCHANGED <<initOf, built, balancer, cursor, picks>>
      PROVE  IInv'
  <2>1. TypeOK'
    <3>1. ManagerType' /\ BalancerType'
      BY <1>1 DEF IInv, TypeOK, ManagerType, BalancerType
    <3>2. CallType'
      BY <1>1 DEF IInv, TypeOK, CallType, Phases
    <3>. QED  BY <3>1, <3>2 DEF TypeOK
  <2>2. CoreStays
    BY <1>1 DEF CoreStays, IInv, TypeOK, CallType
  <2>3. RoutesInv'
    BY <1>1 DEF IInv, TypeOK, CallType, RoutesInv
  <2>4. TurnsInv'
    <3>1. \A b1 \in 1..built' : balancer'[b1].class = Default => TurnsOf(picks'[b1], cursor'[b1])
      BY <1>1 DEF IInv, TurnsInv
    <3>. QED  BY <3>1 DEF TurnsInv, TurnsOf, Turn, OneSize
  <2>. QED  BY <2>1, <2>2, <2>3, <2>4, CoreFrame DEF IInv
<1>2. CASE active # 0
  <2>1. using' = [using EXCEPT ![c] = active] /\ pc' = [pc EXCEPT ![c] = "routed"]
        /\ UNCHANGED <<initOf, built, balancer, cursor, picks>>
    BY <1>2 DEF GetLoadBalancer
  <2>2. active \in 1..built
    BY <1>2 DEF IInv, TypeOK, ManagerType
  <2>. QED  BY <1>1, <1>2, <2>1, <2>2
<1>3. CASE active = 0 /\ initOf # 0
  <2>1. using' = [using EXCEPT ![c] = initOf] /\ pc' = [pc EXCEPT ![c] = "waiting"]
        /\ UNCHANGED <<initOf, built, balancer, cursor, picks>>
    BY <1>3 DEF GetLoadBalancer
  <2>2. initOf \in 1..built
    BY <1>3 DEF IInv, TypeOK, ManagerType
  <2>. QED  BY <1>1, <1>3, <2>1, <2>2
<1>4. CASE active = 0 /\ initOf = 0
  <2>. DEFINE new == [strategy |-> strategy, class |-> ClassOf(strategy), state |-> "initialising"]
  <2>1. /\ built' = built + 1 /\ initOf' = built + 1
        /\ balancer' = Append(balancer, new)
        /\ cursor' = Append(cursor, 0) /\ picks' = Append(picks, <<>>)
        /\ using' = [using EXCEPT ![c] = built + 1]
        /\ pc' = [pc EXCEPT ![c] = "initialising"]
    BY <1>4 DEF GetLoadBalancer, StartInitialising, Remember
  <2>2. built \in Nat /\ balancer \in [1..built -> BalancerRecord] /\ new \in BalancerRecord
    BY ClassIsStrategy DEF IInv, TypeOK, ManagerType, BalancerType, BalancerRecord
  <2>. HIDE DEF new
  <2>3. /\ balancer' \in [1..built + 1 -> BalancerRecord]
        /\ \A b \in 1..built : balancer'[b] = balancer[b]
        /\ balancer'[built + 1] = new
    <3>1. /\ Append(balancer, new) \in [1..built + 1 -> BalancerRecord]
          /\ \A b \in 1..built : Append(balancer, new)[b] = balancer[b]
          /\ Append(balancer, new)[built + 1] = new
      BY <2>2, AppendBalancer
    <3>. QED  BY <2>1, <3>1
  <2>4. /\ cursor' \in [1..built + 1 -> Nat] /\ cursor'[built + 1] = 0
        /\ \A b \in 1..built : cursor'[b] = cursor[b]
    BY <2>1, <2>2, AppendZero, ZenonT(60) DEF IInv, TypeOK, BalancerType
  <2>5. /\ picks' \in [1..built + 1 -> Seq([query : Queries, target : Nat])]
        /\ picks'[built + 1] = <<>>
        /\ \A b \in 1..built : picks'[b] = picks[b]
    <3>. DEFINE none == <<>>
    <3>1. none \in Seq(PickRecord)
      BY EmptySeq
    <3>2. picks \in [1..built -> Seq(PickRecord)] /\ built \in Nat
      BY <2>2 DEF IInv, TypeOK, BalancerType, PickRecord
    <3>. HIDE DEF none
    <3>3. /\ Append(picks, none) \in [1..built + 1 -> Seq(PickRecord)]
          /\ \A b \in 1..built : Append(picks, none)[b] = picks[b]
          /\ Append(picks, none)[built + 1] = none
      BY <3>1, <3>2, AppendPicks, ZenonT(60)
    <3>. QED  BY <2>1, <3>3 DEF PickRecord, none
  <2>6. \A b \in 1..built + 1 : b \in 1..built \/ b = built + 1
    BY <2>2
  <2>7. TypeOK'
    <3>1. /\ active' \in 0..built' /\ initOf' \in 0..built' /\ built' \in Nat
          /\ using' \in [Callers \cup {"destroy"} -> 0..built']
          /\ change' \in [Tasks -> [to : Strategies \cup {"none"}, from : Strategies \cup {"none"}, old : 0..built']]
      BY <2>1, <2>2 DEF IInv, TypeOK, ManagerType, CallType
    <3>2. pc' \in [Tasks \cup {"destroy"} -> Phases]
      BY <2>1 DEF IInv, TypeOK, CallType, Phases
    <3>3. ManagerType' /\ CallType'
      BY <3>1, <3>2 DEF IInv, TypeOK, ManagerType, CallType
    <3>4. BalancerType'
      BY <2>1, <2>3, <2>4, <2>5 DEF BalancerType, BalancerRecord
    <3>. QED  BY <3>3, <3>4 DEF TypeOK
  <2>8. pc'["destroy"] = pc["destroy"] /\ using'["destroy"] = using["destroy"]
        /\ \A t \in Tasks : pc'[t] = "changing" <=> pc[t] = "changing"
    BY <2>1 DEF IInv, TypeOK, CallType
  <2>9. new.strategy = strategy /\ new.state = "initialising"
    BY DEF new
  <2>10. RefsInv'
    <3>1. initOf' = built + 1 /\ StateOf(initOf)' = "initialising" /\ active' = 0
      BY <2>1, <2>3, <2>9, <1>4 DEF StateOf
    <3>2. \A t \in Tasks : change[t].old # 0 => change[t].old \in 1..built
      BY DEF IInv, TypeOK, CallType
    <3>. QED  BY <2>3, <2>8, <3>1, <3>2 DEF IInv, RefsInv, StateOf
  <2>11. CountInv'
    BY <1>4, <2>1, <2>2 DEF IInv, TypeOK, ManagerType, CountInv, BuiltOnce
  <2>12. AloneInv'
    <3>. SUFFICES ASSUME ~overlapped PROVE AloneInv'
      BY DEF AloneInv
    <3>1. AloneInv!2
      BY DEF IInv, AloneInv
    <3>2. \A b \in 1..built : StateOf(b) # "initialising" /\ StateOf(b) # "live"
      BY <3>1, <1>4
    <3>3. Changing = {}
      <4>1. ASSUME NEW t \in Changing PROVE FALSE
        <5>1. active = change[t].old
          BY <3>1, <4>1
        <5>2. change[t].old # 0
          BY <4>1 DEF Changing, IInv, RefsInv
        <5>. QED  BY <5>1, <5>2, <1>4
      <4>. QED  BY <4>1
    <3>4. Changing' = {}
      BY <3>3 DEF Changing
    <3>5. pc["destroy"] = "new" /\ answer["destroy"] # "done"
      BY <3>1 DEF IInv, RefsInv
    <3>6. \A b \in 1..built + 1 : StateOf(b)' = "initialising" => b = built + 1
      BY <3>2, <2>3, <2>6 DEF StateOf
    <3>7. \A b \in 1..built + 1 : StateOf(b)' # "live"
      BY <3>2, <2>3, <2>6, <2>9 DEF StateOf
    <3>8. initOf' # 0 /\ balancer'[initOf'].strategy = strategy' /\ active' = 0
      BY <1>4, <2>1, <2>2, <2>3, <2>9
    <3>. QED  BY <2>1, <2>8, <3>4, <3>5, <3>6, <3>7, <3>8 DEF AloneInv
  <2>13. RoutesInv'
    BY <2>1, <2>2 DEF IInv, TypeOK, CallType, RoutesInv
  <2>14. TurnsInv'
    <3>1. TurnsOf(picks'[built + 1], cursor'[built + 1])
      BY <2>4, <2>5 DEF TurnsOf
    <3>2. ASSUME NEW b \in 1..built, balancer'[b].class = Default
          PROVE  TurnsOf(picks'[b], cursor'[b])
      BY <3>2, <2>3, <2>4, <2>5 DEF IInv, TurnsInv
    <3>3. \A b \in 1..built' : balancer'[b].class = Default => TurnsOf(picks'[b], cursor'[b])
      BY <2>1, <2>6, <3>1, <3>2
    <3>. QED  BY <3>3 DEF TurnsInv, TurnsOf, Turn, OneSize
  <2>. QED  BY <2>7, <2>10, <2>11, <2>12, <2>13, <2>14 DEF IInv
<1>. QED  BY <1>2, <1>3, <1>4

-----------------------------------------------------------------------------
\* Where nobody picks a replica, the turns stay as they are.
LEMMA TurnsFrame ==
    ASSUME IInv, UNCHANGED <<built, cursor, picks>>,
           \A b \in 1..built : balancer'[b].class = balancer[b].class
    PROVE  TurnsInv'
<1>1. \A b \in 1..built' : balancer'[b].class = Default => TurnsOf(picks'[b], cursor'[b])
  BY DEF IInv, TurnsInv
<1>. QED  BY <1>1 DEF TurnsInv, TurnsOf, Turn, OneSize

\* A caller goes on, and nothing else happens to the manager.
LEMMA MoveIInv ==
    ASSUME IInv, NEW c \in Callers, NEW to \in {"settled", "failed", "running"}, NEW a \in Answers,
           pc[c] # "changing", to # "settled" => pc[c] \notin {"new", "settled"},
           pc' = [pc EXCEPT ![c] = to],
           answer' = answer \/ answer' = [answer EXCEPT ![c] = a],
           UNCHANGED <<plan, manager, built, balancer, using, retried, change, updates, overlapped>>,
           faults' \in [init : Nat, destroy : Nat, replica : Nat], faults'.init = faults.init,
           BalancerType', TurnsInv'
    PROVE  IInv'
<1>. USE Callers1
<1>1. UNCHANGED <<strategy, custom, active, initOf, destroyed>>
  BY DEF manager
<1>2. ManagerType'
  BY <1>1 DEF IInv, TypeOK, ManagerType
<1>3. CallType'
  BY <1>1 DEF IInv, TypeOK, CallType, Phases
<1>4. CoreStays
  BY <1>1 DEF CoreStays, IInv, TypeOK, CallType
<1>5. RoutesInv'
  BY <1>1 DEF IInv, TypeOK, CallType, RoutesInv
<1>. QED  BY <1>2, <1>3, <1>4, <1>5, CoreFrame DEF IInv, TypeOK

LEMMA CallIInv ==
    ASSUME IInv, NEW c \in Callers, Call(c)
    PROVE  IInv'
<1>. USE Callers1
<1>1. /\ pc[c] = "new"
      /\ UNCHANGED <<plan, strategy, custom, active, destroyed, retried, change, updates, overlapped, faults>>
  BY DEF Call
<1>2. ASSUME NEW a \in Answers, Settles(c, a), UNCHANGED <<using, initOf, built, balancer, cursor, picks>>
      PROVE  IInv'
  <2>1. BalancerType' /\ TurnsInv'
    BY <1>2, TurnsFrame DEF IInv, TypeOK, BalancerType
  <2>2. /\ pc' = [pc EXCEPT ![c] = "settled"]
        /\ answer' = [answer EXCEPT ![c] = a]
    BY <1>2 DEF Settles
  <2>3. faults' \in [init : Nat, destroy : Nat, replica : Nat] /\ faults'.init = faults.init
    BY <1>1 DEF IInv, TypeOK, ManagerType
  <2>4. UNCHANGED <<plan, manager, built, balancer, using, retried, change, updates, overlapped>>
    BY <1>1, <1>2 DEF manager
  <2>. QED  BY <1>1, <2>1, <2>2, <2>3, <2>4, MoveIInv
<1>3. CASE c \in Queries /\ Replicas[c] = 0
  <2>1. Settles(c, "primary") /\ UNCHANGED <<using, initOf, built, balancer, cursor, picks>>
    BY <1>3 DEF Call
  <2>. QED  BY <1>2, <2>1 DEF Answers
<1>4. CASE destroyed /\ ~(c \in Queries /\ Replicas[c] = 0)
  <2>1. /\ Settles(c, IF c \in Queries THEN "rejected" ELSE "unhealthy")
        /\ UNCHANGED <<using, initOf, built, balancer, cursor, picks>>
    BY <1>4 DEF Call
  <2>. QED  BY <1>2, <2>1 DEF Answers
<1>5. CASE ~destroyed /\ ~(c \in Queries /\ Replicas[c] = 0)
  <2>1. GetLoadBalancer(c) /\ UNCHANGED answer
    BY <1>5 DEF Call
  <2>2. c \in Queries => Replicas[c] > 0
    BY <1>5, CallersAssumption
  <2>. QED  BY <1>1, <1>5, <2>1, <2>2, GetIInv
<1>. QED  BY <1>3, <1>4, <1>5

LEMMA AgainIInv ==
    ASSUME IInv, NEW q \in Queries, Again(q)
    PROVE  IInv'
<1>. USE Callers1
<1>1. /\ pc[q] = "again" /\ q \in Callers
      /\ UNCHANGED <<plan, strategy, custom, active, destroyed, retried, change, updates, overlapped, faults>>
  BY DEF Again
<1>2. CASE destroyed
  <2>1. /\ pc' = [pc EXCEPT ![q] = "settled"]
        /\ answer' = [answer EXCEPT ![q] = "rejected"]
        /\ UNCHANGED <<using, initOf, built, balancer, cursor, picks>>
    BY <1>2 DEF Again, Settles
  <2>2. BalancerType' /\ TurnsInv'
    BY <2>1, TurnsFrame DEF IInv, TypeOK, BalancerType
  <2>3. faults' \in [init : Nat, destroy : Nat, replica : Nat] /\ faults'.init = faults.init
    BY <1>1 DEF IInv, TypeOK, ManagerType
  <2>4. UNCHANGED <<plan, manager, built, balancer, using, retried, change, updates, overlapped>>
    BY <1>1, <2>1 DEF manager
  <2>. QED  BY <1>1, <2>1, <2>2, <2>3, <2>4, MoveIInv DEF Answers
<1>3. CASE ~destroyed
  <2>1. GetLoadBalancer(q) /\ UNCHANGED answer
    BY <1>3 DEF Again
  <2>2. Replicas[q] > 0
    BY <1>1 DEF IInv, RoutesInv
  <2>. QED  BY <1>1, <1>3, <2>1, <2>2, GetIInv
<1>. QED  BY <1>2, <1>3

LEMMA AnswersIInv ==
    ASSUME IInv, NEW q \in Queries, ReplicaAnswers(q)
    PROVE  IInv'
<1>. USE Callers1
<1>1. /\ pc[q] = "running" /\ q \in Callers
      /\ UNCHANGED <<plan, manager, built, balancer, cursor, picks, using, retried, change, updates, overlapped>>
  BY DEF ReplicaAnswers
<1>2. BalancerType' /\ TurnsInv'
  BY <1>1, TurnsFrame DEF IInv, TypeOK, BalancerType
<1>3. faults' \in [init : Nat, destroy : Nat, replica : Nat] /\ faults'.init = faults.init
  BY DEF ReplicaAnswers, Fails, IInv, TypeOK, ManagerType
<1>4. CASE Settles(q, "rows")
  BY <1>1, <1>2, <1>3, <1>4, MoveIInv DEF Settles, Answers
<1>5. CASE pc' = [pc EXCEPT ![q] = "failed"] /\ UNCHANGED answer
  BY <1>1, <1>2, <1>3, <1>5, MoveIInv DEF Answers
<1>. QED  BY <1>4, <1>5 DEF ReplicaAnswers

-----------------------------------------------------------------------------
\* Round robin takes the next turn.
LEMMA NextTurn ==
    ASSUME NEW p \in Seq([query : Queries, target : Nat]), NEW at \in Nat, TurnsOf(p, at),
           NEW q \in Queries, Replicas[q] > 0,
           NEW k, k = IF at + 1 >= Replicas[q] THEN 0 ELSE at + 1
    PROVE  TurnsOf(Append(p, [query |-> q, target |-> k]), k)
<1>. DEFINE e == [query |-> q, target |-> k]
            r == Append(p, e)
            Pick == [query : Queries, target : Nat]
<1>1. k \in Nat /\ k < Replicas[q] /\ Replicas[q] \in Nat
  BY CallersAssumption
<1>2. e \in Pick /\ e.query = q /\ e.target = k
  BY <1>1
<1>. HIDE DEF e
<1>3. /\ r \in Seq(Pick) /\ Len(r) = Len(p) + 1 /\ Len(p) \in Nat
      /\ \A i \in 1..Len(p) : r[i] = p[i]
      /\ r[Len(p) + 1] = e
  BY <1>2, AppendProperties, LenProperties
<1>. HIDE DEF r
<1>4. \A i \in 1..Len(r) : i \in 1..Len(p) \/ i = Len(p) + 1
  BY <1>3
<1>5. \A i \in 1..Len(p) : p[i].query \in Queries /\ p[i].target \in Nat /\ Replicas[p[i].query] \in Nat
  <2>. SUFFICES ASSUME NEW i \in 1..Len(p)
                PROVE  p[i].query \in Queries /\ p[i].target \in Nat /\ Replicas[p[i].query] \in Nat
    OBVIOUS
  <2>1. p[i] \in Pick
    BY LenProperties
  <2>. QED  BY <2>1, CallersAssumption
<1>6. \A i \in 1..Len(r) : r[i].target < Replicas[r[i].query]
  BY <1>1, <1>2, <1>3, <1>4 DEF TurnsOf
<1>7. k = IF Len(r) = 0 THEN 0 ELSE r[Len(r)].target
  BY <1>2, <1>3
<1>8. ASSUME OneSize(r), NEW i \in 1..Len(r), NEW j \in 1..Len(r)
      PROVE  Turn(r, i, j)
  <2>. SUFFICES ASSUME i <= j, j < i + Replicas[r[i].query]
                PROVE  r[j].target = Wrapped(r[i].target + (j - i), Replicas[r[i].query])
    BY DEF Turn
  <2>1. OneSize(p)
    <3>. SUFFICES ASSUME NEW a \in 1..Len(p), NEW b \in 1..Len(p)
                  PROVE  Replicas[p[a].query] = Replicas[p[b].query]
      BY DEF OneSize
    <3>1. a \in 1..Len(r) /\ b \in 1..Len(r) /\ r[a] = p[a] /\ r[b] = p[b]
      BY <1>3
    <3>. QED  BY <1>8, <3>1 DEF OneSize
  <2>2. Replicas[r[i].query] = Replicas[q]
    <3>1. Len(p) + 1 \in 1..Len(r) /\ r[Len(p) + 1].query = q
      BY <1>2, <1>3
    <3>. QED  BY <1>8, <3>1 DEF OneSize
  <2>3. CASE j \in 1..Len(p)
    <3>1. i \in 1..Len(p)
      BY <1>3, <2>3
    <3>2. r[i] = p[i] /\ r[j] = p[j]
      BY <1>3, <2>3, <3>1
    <3>3. Turn(p, i, j)
      BY <2>1, <2>3, <3>1 DEF TurnsOf
    <3>. QED  BY <3>2, <3>3 DEF Turn
  <2>4. CASE j = Len(p) + 1 /\ i = j
    BY <1>1, <1>2, <1>3, <2>2, <2>4 DEF Wrapped
  <2>5. CASE j = Len(p) + 1 /\ i # j
    <3>1. i \in 1..Len(p) /\ Len(p) \in 1..Len(p) /\ Len(p) # 0
      BY <1>3, <2>5
    <3>2. r[i] = p[i] /\ r[j].target = k
      BY <1>2, <1>3, <2>5, <3>1
    <3>3. at = p[Len(p)].target
      BY <3>1 DEF TurnsOf
    <3>4. Turn(p, i, Len(p))
      BY <2>1, <3>1 DEF TurnsOf
    <3>5. p[i].target \in Nat /\ p[i].target < Replicas[p[i].query] /\ Replicas[p[i].query] = Replicas[q]
      BY <1>5, <2>2, <3>1, <3>2 DEF TurnsOf
    <3>. DEFINE x == p[i].target
                n == Replicas[q]
                m == Len(p)
    <3>6. i <= m /\ m < i + n /\ m \in Nat /\ i \in Nat /\ n \in Nat
      BY <1>1, <1>3, <2>2, <2>5, <3>1
    <3>7. at = Wrapped(x + (m - i), n)
      BY <3>3, <3>4, <3>5, <3>6 DEF Turn
    <3>8. x \in Nat /\ x < n /\ j = m + 1 /\ j < i + n /\ k = IF at + 1 >= n THEN 0 ELSE at + 1
      BY <2>2, <2>5, <3>5
    <3>. HIDE DEF x, n, m
    <3>9. k = Wrapped(x + (j - i), n)
      BY <3>6, <3>7, <3>8 DEF Wrapped
    <3>. QED  BY <2>2, <3>2, <3>9 DEF x, n
  <2>. QED  BY <1>4, <2>3, <2>4, <2>5
<1>9. TurnsOf(r, k)
  BY <1>6, <1>7, <1>8 DEF TurnsOf
<1>. QED  BY <1>9 DEF r, e

LEMMA RouteIInv ==
    ASSUME IInv, NEW c \in Callers, Route(c)
    PROVE  IInv'
<1>. USE Callers1
<1>1. /\ pc[c] = "routed"
      /\ UNCHANGED <<plan, manager, built, balancer, using, retried, change, updates, overlapped, faults>>
  BY DEF Route
<1>2. faults' \in [init : Nat, destroy : Nat, replica : Nat] /\ faults'.init = faults.init
  BY <1>1 DEF IInv, TypeOK, ManagerType
<1>3. CASE c \in Probes
  <2>1. Settles(c, "report") /\ UNCHANGED <<cursor, picks>>
    BY <1>3 DEF Route
  <2>2. BalancerType' /\ TurnsInv'
    BY <1>1, <2>1, TurnsFrame DEF IInv, TypeOK, BalancerType
  <2>. QED  BY <1>1, <1>2, <2>1, <2>2, MoveIInv DEF Settles, Answers
<1>4. CASE c \notin Probes
  <2>1. c \in Queries
    BY <1>4 DEF Callers
  <2>. DEFINE u == using[c]
              pick(k) == [query |-> c, target |-> k]
  <2>2. PICK k \in PickNext(u, Replicas[c]) :
          /\ cursor' = [cursor EXCEPT ![u] = k]
          /\ picks' = [picks EXCEPT ![u] = Append(@, pick(k))]
          /\ pc' = [pc EXCEPT ![c] = IF k < Replicas[c] THEN "running" ELSE "failed"]
          /\ UNCHANGED answer
    BY <1>4 DEF Route
  <2>3. u \in 1..built /\ built \in Nat /\ Replicas[c] \in Nat /\ Replicas[c] > 0
    BY <1>1, <2>1, CallersAssumption DEF IInv, RoutesInv, TypeOK, ManagerType, CallType
  <2>4. cursor[u] \in Nat /\ picks[u] \in Seq([query : Queries, target : Nat])
    BY <2>3 DEF IInv, TypeOK, BalancerType
  <2>5. k \in Nat
    BY <2>2, <2>3, <2>4 DEF PickNext
  <2>6. Append(picks[u], pick(k)) \in Seq([query : Queries, target : Nat])
    <3>1. pick(k) \in [query : Queries, target : Nat]
      BY <2>1, <2>5
    <3>. HIDE DEF pick
    <3>. QED  BY <2>4, <3>1, AppendProperties
  <2>7. BalancerType'
    <3>1. cursor' \in [1..built -> Nat]
      BY <2>2, <2>5 DEF IInv, TypeOK, BalancerType
    <3>2. picks' \in [1..built -> Seq([query : Queries, target : Nat])]
      BY <2>2, <2>6 DEF IInv, TypeOK, BalancerType
    <3>. QED  BY <1>1, <3>1, <3>2 DEF IInv, TypeOK, BalancerType
  <2>8. cursor'[u] = k /\ picks'[u] = Append(picks[u], pick(k))
        /\ \A b \in 1..built : b # u => cursor'[b] = cursor[b] /\ picks'[b] = picks[b]
    BY <2>2, <2>3 DEF IInv, TypeOK, BalancerType
  <2>9. \A b \in 1..built : balancer[b].class = Default => TurnsOf(picks'[b], cursor'[b])
    <3>. SUFFICES ASSUME NEW b \in 1..built, balancer[b].class = Default
                  PROVE  TurnsOf(picks'[b], cursor'[b])
      OBVIOUS
    <3>1. TurnsOf(picks[b], cursor[b])
      BY DEF IInv, TurnsInv
    <3>2. CASE b = u
      <4>1. k = IF cursor[u] + 1 >= Replicas[c] THEN 0 ELSE cursor[u] + 1
        BY <2>2, <3>2 DEF PickNext
      <4>2. TurnsOf(Append(picks[u], pick(k)), k)
        BY <2>1, <2>3, <2>4, <3>1, <3>2, <4>1, NextTurn
      <4>. QED  BY <2>8, <3>2, <4>2
    <3>3. CASE b # u
      BY <2>8, <3>1, <3>3
    <3>. QED  BY <3>2, <3>3
  <2>10. TurnsInv'
    <3>1. \A b \in 1..built' : balancer'[b].class = Default => TurnsOf(picks'[b], cursor'[b])
      BY <1>1, <2>9
    <3>. QED  BY <3>1 DEF TurnsInv, TurnsOf, Turn, OneSize
  <2>11. (IF k < Replicas[c] THEN "running" ELSE "failed") \in {"settled", "failed", "running"}
    OBVIOUS
  <2>. QED  BY <1>1, <1>2, <2>2, <2>7, <2>10, <2>11, MoveIInv DEF Answers
<1>. QED  BY <1>3, <1>4

-----------------------------------------------------------------------------
\* A balancer that is being built changes only its own state.
LEMMA StateType ==
    ASSUME IInv, NEW b \in 1..built, NEW s \in {"initialising", "live", "failed", "destroyed"},
           balancer' = [balancer EXCEPT ![b].state = s], UNCHANGED <<built, cursor, picks>>
    PROVE  /\ BalancerType' /\ TurnsInv'
           /\ balancer'[b].state = s
           /\ \A x \in 1..built : balancer'[x].strategy = balancer[x].strategy
           /\ \A x \in 1..built : x # b => balancer'[x] = balancer[x]
<1>1. /\ balancer'[b].state = s
      /\ \A x \in 1..built : balancer'[x].strategy = balancer[x].strategy
      /\ \A x \in 1..built : balancer'[x].class = balancer[x].class
      /\ \A x \in 1..built : x # b => balancer'[x] = balancer[x]
  BY DEF IInv, TypeOK, BalancerType
<1>2. BalancerType'
  BY DEF IInv, TypeOK, BalancerType
<1>3. TurnsInv'
  BY <1>1, TurnsFrame
<1>. QED  BY <1>1, <1>2, <1>3

\* Until a change overlaps something, an initialisation meets no change and no
\* balancer that lives, and a destroy() under way waits for it.
LEMMA InitIsAlone ==
    ASSUME IInv, ~overlapped, NEW b \in 1..built, StateOf(b) = "initialising"
    PROVE  /\ b = initOf /\ active = 0 /\ Changing = {}
           /\ balancer[b].strategy = strategy
           /\ \A x \in 1..built : StateOf(x) # "live" /\ (StateOf(x) = "initialising" => x = b)
           /\ pc["destroy"] = "new" \/ (pc["destroy"] = "waiting" /\ using["destroy"] = b)
           /\ answer["destroy"] # "done"
<1>1. b = initOf /\ b # 0
  BY DEF IInv, AloneInv, TypeOK, ManagerType
<1>2. active = 0 /\ balancer[b].strategy = strategy
  BY <1>1 DEF IInv, AloneInv
<1>3. Changing = {}
  BY <1>1 DEF IInv, AloneInv
<1>4. \A x \in 1..built : StateOf(x) # "live" /\ (StateOf(x) = "initialising" => x = b)
  BY <1>1, <1>2 DEF IInv, AloneInv
<1>5. pc["destroy"] = "new" \/ (pc["destroy"] = "waiting" /\ using["destroy"] = b)
  BY <1>1 DEF IInv, AloneInv, RefsInv
<1>6. answer["destroy"] # "done"
  BY <1>1 DEF IInv, AloneInv
<1>. QED  BY <1>1, <1>2, <1>3, <1>4, <1>5, <1>6

LEMMA InitSucceedsIInv ==
    ASSUME IInv, NEW b \in Balancers, InitSucceeds(b)
    PROVE  IInv'
<1>. USE Callers1
<1>1. /\ b \in 1..built /\ StateOf(b) = "initialising"
      /\ balancer' = [balancer EXCEPT ![b].state = "live"]
      /\ active' = b /\ initOf' = 0
      /\ UNCHANGED <<plan, strategy, custom, destroyed, built, cursor, picks, using, retried, answer,
                     change, updates, overlapped, faults>>
  BY DEF InitSucceeds, Initialising, StateOf
<1>2. pc' = [c \in Tasks \cup {"destroy"} |->
               IF c \notin Awaiting(b) THEN pc[c] ELSE IF c = "destroy" THEN "cleaning" ELSE "routed"]
  BY DEF InitSucceeds, GoOn, IInv, TypeOK, CallType
<1>3. \A c \in Awaiting(b) : using[c] = b /\ pc[c] \in {"initialising", "waiting"}
  BY DEF Awaiting
<1>4. /\ BalancerType' /\ TurnsInv' /\ StateOf(b)' = "live"
      /\ \A x \in 1..built : balancer'[x].strategy = balancer[x].strategy
      /\ \A x \in 1..built : x # b => StateOf(x)' = StateOf(x)
  BY <1>1, StateType DEF StateOf
<1>5. \A t \in Tasks : pc'[t] = "changing" <=> pc[t] = "changing"
  BY <1>2, <1>3
<1>6. built \in Nat /\ b # 0
  BY <1>1 DEF IInv, TypeOK, ManagerType
<1>7. TypeOK'
  <2>1. ManagerType'
    BY <1>1, <1>6 DEF IInv, TypeOK, ManagerType
  <2>2. pc' \in [Tasks \cup {"destroy"} -> Phases]
    BY <1>2 DEF IInv, TypeOK, CallType, Phases
  <2>3. CallType'
    BY <1>1, <2>2 DEF IInv, TypeOK, CallType
  <2>. QED  BY <1>4, <2>1, <2>3 DEF TypeOK
<1>8. RefsInv'
  <2>1. \A x \in 1..built : StateOf(x) \in {"live", "destroyed"} => StateOf(x)' = StateOf(x)
    BY <1>1, <1>4
  <2>2. \A t \in Tasks : change[t].old # 0 => change[t].old \in 1..built
    BY <1>6 DEF IInv, TypeOK, CallType
  <2>3. \A t \in Tasks : change'[t] # NoChange =>
           /\ pc'[t] = "changing"
           /\ change'[t].to \in Strategies /\ change'[t].from \in Strategies
           /\ change'[t].old # 0 /\ balancer'[change'[t].old].state \in {"live", "destroyed"}
    BY <1>1, <1>5, <2>1, <2>2 DEF IInv, RefsInv, StateOf
  <2>4. \A t \in Tasks : pc'[t] = "changing" => change'[t] # NoChange
    BY <1>1, <1>5 DEF IInv, RefsInv
  <2>5. /\ pc'["destroy"] \in {"new", "waiting", "cleaning", "settled"}
        /\ destroyed' <=> pc'["destroy"] # "new"
    BY <1>1, <1>2, <1>3 DEF IInv, RefsInv
  <2>6. active' # 0 => balancer'[active'].state \in {"live", "destroyed"}
    BY <1>1, <1>4 DEF StateOf
  <2>. QED  BY <1>1, <2>3, <2>4, <2>5, <2>6 DEF RefsInv, StateOf
<1>9. CountInv'
  BY <1>1, <1>6 DEF IInv, CountInv, BuiltOnce
<1>10. AloneInv'
  <2>. SUFFICES ASSUME ~overlapped PROVE AloneInv'
    BY <1>1 DEF AloneInv
  <2>1. /\ b = initOf /\ active = 0 /\ Changing = {}
        /\ balancer[b].strategy = strategy
        /\ \A x \in 1..built : StateOf(x) # "live" /\ (StateOf(x) = "initialising" => x = b)
        /\ pc["destroy"] = "new" \/ (pc["destroy"] = "waiting" /\ using["destroy"] = b)
        /\ answer["destroy"] # "done"
    BY <1>1, InitIsAlone
  <2>2. \A x \in 1..built : StateOf(x)' # "initialising" /\ (StateOf(x)' = "live" => x = b)
    BY <1>4, <2>1
  <2>3. Changing' = {}
    BY <1>1, <2>1 DEF Changing
  <2>4. pc'["destroy"] \in {"new", "cleaning"}
    BY <1>2, <2>1 DEF Awaiting
  <2>5. active' = b /\ balancer'[active'].state = "live" /\ balancer'[active'].strategy = strategy'
    BY <1>1, <1>4, <2>1 DEF StateOf
  <2>. QED  BY <1>1, <2>1, <2>2, <2>3, <2>4, <2>5 DEF AloneInv, StateOf
<1>11. RoutesInv'
  <2>1. ASSUME NEW c \in Callers
        PROVE  /\ pc'[c] \in {"initialising", "waiting", "routed"} => using'[c] # 0
               /\ c \in Queries /\ pc'[c] \notin {"new", "settled"} => Replicas[c] > 0
    <3>1. CASE c \in Awaiting(b)
      BY <1>1, <1>3, <1>6, <3>1 DEF IInv, RoutesInv
    <3>2. CASE c \notin Awaiting(b)
      BY <1>1, <1>2, <3>2 DEF IInv, RoutesInv
    <3>. QED  BY <3>1, <3>2
  <2>. QED  BY <2>1 DEF RoutesInv
<1>. QED  BY <1>4, <1>7, <1>8, <1>9, <1>10, <1>11 DEF IInv

LEMMA InitFailsIInv ==
    ASSUME IInv, NEW b \in Balancers, InitFails(b)
    PROVE  IInv'
<1>. USE Callers1
<1>1. /\ b \in 1..built /\ StateOf(b) = "initialising"
      /\ balancer' = [balancer EXCEPT ![b].state = "failed"]
      /\ initOf' = 0 /\ faults' = [faults EXCEPT !["init"] = @ + 1]
      /\ UNCHANGED <<plan, strategy, custom, active, destroyed, built, cursor, picks, using, retried,
                     change, updates, overlapped>>
  BY DEF InitFails, Initialising, StateOf, Fails
<1>2. /\ pc' = [c \in Tasks \cup {"destroy"} |->
                  IF c \notin Awaiting(b) THEN pc[c] ELSE IF c = "destroy" THEN "settled" ELSE "failed"]
      /\ answer' = answer \/ answer' = [answer EXCEPT !["destroy"] = "rejected"]
  BY DEF InitFails, IInv, TypeOK, CallType
<1>3. \A c \in Awaiting(b) : using[c] = b /\ pc[c] \in {"initialising", "waiting"}
  BY DEF Awaiting
<1>4. /\ BalancerType' /\ TurnsInv' /\ StateOf(b)' = "failed"
      /\ \A x \in 1..built : balancer'[x].strategy = balancer[x].strategy
      /\ \A x \in 1..built : x # b => StateOf(x)' = StateOf(x)
  BY <1>1, StateType DEF StateOf
<1>5. \A t \in Tasks : pc'[t] = "changing" <=> pc[t] = "changing"
  BY <1>2, <1>3
<1>6. built \in Nat /\ b # 0
  BY <1>1 DEF IInv, TypeOK, ManagerType
<1>7. TypeOK'
  <2>1. ManagerType'
    BY <1>1, <1>6 DEF IInv, TypeOK, ManagerType
  <2>2. pc' \in [Tasks \cup {"destroy"} -> Phases]
    BY <1>2 DEF IInv, TypeOK, CallType, Phases
  <2>3. answer' \in [Tasks \cup {"destroy"} -> Answers]
    BY <1>2 DEF IInv, TypeOK, CallType, Answers
  <2>4. CallType'
    BY <1>1, <2>2, <2>3 DEF IInv, TypeOK, CallType
  <2>. QED  BY <1>4, <2>1, <2>4 DEF TypeOK
<1>8. RefsInv'
  <2>1. \A x \in 1..built : StateOf(x) \in {"live", "destroyed"} => StateOf(x)' = StateOf(x)
    BY <1>1, <1>4
  <2>2. \A t \in Tasks : change[t].old # 0 => change[t].old \in 1..built
    BY <1>6 DEF IInv, TypeOK, CallType
  <2>3. \A t \in Tasks : change'[t] # NoChange =>
           /\ pc'[t] = "changing"
           /\ change'[t].to \in Strategies /\ change'[t].from \in Strategies
           /\ change'[t].old # 0 /\ balancer'[change'[t].old].state \in {"live", "destroyed"}
    BY <1>1, <1>5, <2>1, <2>2 DEF IInv, RefsInv, StateOf
  <2>4. \A t \in Tasks : pc'[t] = "changing" => change'[t] # NoChange
    BY <1>1, <1>5 DEF IInv, RefsInv
  <2>5. /\ pc'["destroy"] \in {"new", "waiting", "cleaning", "settled"}
        /\ destroyed' <=> pc'["destroy"] # "new"
    BY <1>1, <1>2, <1>3 DEF IInv, RefsInv
  <2>6. active' # 0 => balancer'[active'].state \in {"live", "destroyed"}
    <3>1. active # 0 => active \in 1..built
      BY <1>6 DEF IInv, TypeOK, ManagerType
    <3>. QED  BY <1>1, <2>1, <3>1 DEF IInv, RefsInv, StateOf
  <2>. QED  BY <1>1, <2>3, <2>4, <2>5, <2>6 DEF RefsInv, StateOf
<1>9. CountInv'
  BY <1>1, <1>6 DEF IInv, TypeOK, ManagerType, CountInv, BuiltOnce
<1>10. AloneInv'
  <2>. SUFFICES ASSUME ~overlapped PROVE AloneInv'
    BY <1>1 DEF AloneInv
  <2>1. /\ b = initOf /\ active = 0 /\ Changing = {}
        /\ balancer[b].strategy = strategy
        /\ \A x \in 1..built : StateOf(x) # "live" /\ (StateOf(x) = "initialising" => x = b)
        /\ pc["destroy"] = "new" \/ (pc["destroy"] = "waiting" /\ using["destroy"] = b)
        /\ answer["destroy"] # "done"
    BY <1>1, InitIsAlone
  <2>2. \A x \in 1..built : StateOf(x)' # "initialising" /\ StateOf(x)' # "live"
    BY <1>4, <2>1
  <2>3. Changing' = {}
    BY <1>1, <2>1 DEF Changing
  <2>4. pc'["destroy"] \in {"new", "settled"}
    BY <1>2, <2>1 DEF Awaiting
  <2>5. answer'["destroy"] # "done"
    BY <1>2, <2>1 DEF IInv, TypeOK, CallType
  <2>. QED  BY <1>1, <2>1, <2>2, <2>3, <2>4, <2>5 DEF AloneInv, StateOf
<1>11. RoutesInv'
  <2>1. ASSUME NEW c \in Callers
        PROVE  /\ pc'[c] \in {"initialising", "waiting", "routed"} => using'[c] # 0
               /\ c \in Queries /\ pc'[c] \notin {"new", "settled"} => Replicas[c] > 0
    <3>1. CASE c \in Awaiting(b)
      BY <1>1, <1>2, <1>3, <3>1 DEF IInv, RoutesInv
    <3>2. CASE c \notin Awaiting(b)
      BY <1>1, <1>2, <3>2 DEF IInv, RoutesInv
    <3>. QED  BY <3>1, <3>2
  <2>. QED  BY <2>1 DEF RoutesInv
<1>. QED  BY <1>4, <1>7, <1>8, <1>9, <1>10, <1>11 DEF IInv

-----------------------------------------------------------------------------
\* setStrategy begins, for a caller of it or for a query in its fallback.
LEMMA BeginIInv ==
    ASSUME IInv, NEW t \in Queries \cup Switchers, ~destroyed, NEW s, BeginChange(t, s),
           pc[t] \in {"new", "failed"}, t \in Queries => pc[t] = "failed",
           custom' \in BOOLEAN, retried' \subseteq Queries, answer' = answer,
           UNCHANGED <<plan, destroyed, built, balancer, cursor, picks, using, faults>>
    PROVE  IInv'
<1>. USE Callers1
<1>1. t \in Tasks /\ change[t] = NoChange /\ pc["destroy"] = "new"
  BY DEF IInv, RefsInv
<1>2. Validated(s) \in Strategies
  BY DEF Validated, Strategies, Default
<1>3. BalancerType' /\ TurnsInv'
  BY TurnsFrame DEF IInv, TypeOK, BalancerType
<1>4. overlapped' = (overlapped \/ Meets(t))
  BY DEF BeginChange
<1>5. ~overlapped' => ~overlapped /\ Initialising = {} /\ Changing \ {t} = {}
  BY <1>4 DEF Meets
<1>6. built \in Nat /\ active \in 0..built /\ updates \in Nat /\ overlapped' \in BOOLEAN
  BY <1>4 DEF IInv, TypeOK, ManagerType
<1>7. Changing \ {t} = Changing
  BY <1>1 DEF Changing
<1>8. CASE active # 0
  <2>1. /\ change' = [change EXCEPT ![t] = [to |-> Validated(s), from |-> strategy, old |-> active]]
        /\ pc' = [pc EXCEPT ![t] = "changing"]
        /\ UNCHANGED <<plan, strategy, active, initOf, updates>>
    BY <1>8 DEF BeginChange
  <2>. DEFINE ch == [to |-> Validated(s), from |-> strategy, old |-> active]
  <2>2. change'[t] = ch /\ ch # NoChange /\ ch.to \in Strategies /\ ch.from \in Strategies
        /\ ch.old = active /\ ch.from = strategy
        /\ \A o \in Tasks \ {t} : change'[o] = change[o]
    BY <1>1, <1>2, <1>8, <2>1 DEF IInv, TypeOK, CallType, ManagerType, NoChange
  <2>3. pc'[t] = "changing" /\ \A o \in (Tasks \cup {"destroy"}) \ {t} : pc'[o] = pc[o]
    BY <1>1, <2>1 DEF IInv, TypeOK, CallType
  <2>4. TypeOK'
    <3>1. ManagerType'
      BY <1>6, <2>1 DEF IInv, TypeOK, ManagerType
    <3>2. ch \in [to : Strategies \cup {"none"}, from : Strategies \cup {"none"}, old : 0..built]
      BY <1>2, <1>6 DEF IInv, TypeOK, ManagerType
    <3>. HIDE DEF ch
    <3>3. change' \in [Tasks -> [to : Strategies \cup {"none"}, from : Strategies \cup {"none"}, old : 0..built]]
      <4>1. change' = [change EXCEPT ![t] = ch]
        BY <2>1 DEF ch
      <4>. QED  BY <3>2, <4>1 DEF IInv, TypeOK, CallType
    <3>4. pc' \in [Tasks \cup {"destroy"} -> Phases]
      BY <2>1 DEF IInv, TypeOK, CallType, Phases
    <3>5. CallType'
      BY <3>3, <3>4 DEF IInv, TypeOK, CallType
    <3>. QED  BY <1>3, <3>1, <3>5 DEF TypeOK
  <2>. HIDE DEF ch
  <2>5. RefsInv'
    <3>1. StateOf(active) \in {"live", "destroyed"}
      BY <1>8 DEF IInv, RefsInv
    <3>2. \A o \in Tasks : o = t \/ (change'[o] = change[o] /\ pc'[o] = pc[o])
      BY <2>2, <2>3
    <3>3. pc'["destroy"] = pc["destroy"]
      BY <1>1, <2>3
    <3>. QED  BY <1>8, <2>1, <2>2, <2>3, <3>1, <3>2, <3>3 DEF IInv, RefsInv, StateOf
  <2>6. CountInv'
    BY <1>8, <2>1 DEF IInv, CountInv, BuiltOnce
  <2>7. AloneInv'
    <3>. SUFFICES ASSUME ~overlapped' PROVE AloneInv'
      BY DEF AloneInv
    <3>1. ~overlapped /\ Initialising = {} /\ Changing = {}
      BY <1>5, <1>7
    <3>2. Changing' = {t}
      BY <1>1, <2>2, <3>1 DEF Changing
    <3>3. initOf = 0
      BY <1>8, <3>1 DEF IInv, AloneInv
    <3>4. pc'["destroy"] = "new"
      BY <1>1, <2>3
    <3>5. /\ \A b \in 1..built : (StateOf(b) = "initialising" => b = initOf) /\ (StateOf(b) = "live" => b = active)
          /\ StateOf(active) = "live" /\ balancer[active].strategy = strategy
          /\ answer["destroy"] # "done"
      BY <1>1, <1>8, <3>1 DEF IInv, AloneInv
    <3>. QED  BY <2>1, <2>2, <3>2, <3>3, <3>4, <3>5 DEF AloneInv, StateOf
  <2>8. RoutesInv'
    BY <2>3 DEF IInv, RoutesInv
  <2>. QED  BY <1>3, <2>4, <2>5, <2>6, <2>7, <2>8 DEF IInv
<1>9. CASE active = 0
  <2>1. /\ strategy' = Validated(s) /\ active' = 0 /\ initOf' = 0 /\ updates' = updates + 1
        /\ pc' = [pc EXCEPT ![t] = IF t \in Queries THEN "again" ELSE "settled"]
        /\ UNCHANGED change
    BY <1>9 DEF BeginChange, Update, AfterChange
  <2>2. pc'[t] \in {"again", "settled"} /\ \A o \in (Tasks \cup {"destroy"}) \ {t} : pc'[o] = pc[o]
    BY <1>1, <2>1 DEF IInv, TypeOK, CallType
  <2>3. TypeOK'
    <3>1. ManagerType'
      BY <1>2, <1>6, <2>1 DEF IInv, TypeOK, ManagerType
    <3>2. pc' \in [Tasks \cup {"destroy"} -> Phases]
      BY <2>1 DEF IInv, TypeOK, CallType, Phases
    <3>3. CallType'
      BY <2>1, <3>2 DEF IInv, TypeOK, CallType
    <3>. QED  BY <1>3, <3>1, <3>3 DEF TypeOK
  <2>4. RefsInv'
    <3>1. \A o \in Tasks : pc'[o] = "changing" <=> pc[o] = "changing"
      BY <2>2
    <3>2. pc'["destroy"] = pc["destroy"]
      BY <1>1, <2>2
    <3>. QED  BY <2>1, <3>1, <3>2 DEF IInv, RefsInv, StateOf
  <2>5. CountInv'
    BY <1>6, <2>1 DEF IInv, TypeOK, ManagerType, CountInv, BuiltOnce
  <2>6. AloneInv'
    <3>. SUFFICES ASSUME ~overlapped' PROVE AloneInv'
      BY DEF AloneInv
    <3>1. ~overlapped /\ Initialising = {} /\ Changing = {}
      BY <1>5, <1>7
    <3>2. Changing' = {}
      BY <2>1, <3>1 DEF Changing
    <3>3. pc'["destroy"] = "new"
      BY <1>1, <2>2
    <3>4. \A b \in 1..built : StateOf(b) # "initialising" /\ StateOf(b) # "live"
      BY <1>9, <3>1 DEF IInv, AloneInv, Initialising, StateOf
    <3>5. answer["destroy"] # "done"
      BY <1>1, <3>1 DEF IInv, AloneInv
    <3>. QED  BY <2>1, <3>2, <3>3, <3>4, <3>5 DEF AloneInv, StateOf
  <2>7. RoutesInv'
    <3>1. t \in Queries => Replicas[t] > 0
      BY DEF IInv, RoutesInv
    <3>. QED  BY <2>2, <3>1 DEF IInv, RoutesInv
  <2>. QED  BY <1>3, <2>3, <2>4, <2>5, <2>6, <2>7 DEF IInv
<1>. QED  BY <1>8, <1>9

LEMMA SwitchIInv ==
    ASSUME IInv, NEW t \in Switchers, Switch(t)
    PROVE  IInv'
<1>. USE Callers1
<1>1. PICK s \in Requests :
        /\ custom' = (CASE s = "custom" -> TRUE [] s = "uncustom" -> FALSE [] OTHER -> custom)
        /\ IF destroyed
           THEN /\ Settles(t, "rejected")
                /\ UNCHANGED <<plan, strategy, active, initOf, change, updates, overlapped>>
           ELSE BeginChange(t, s) /\ UNCHANGED answer
  BY DEF Switch
<1>2. /\ pc[t] = "new" /\ t \notin Queries
      /\ UNCHANGED <<plan, destroyed, built, balancer, cursor, picks, using, retried, faults>>
  BY CallersAssumption DEF Switch, Callers
<1>3. custom' \in BOOLEAN
  BY <1>1 DEF IInv, TypeOK, ManagerType
<1>4. CASE destroyed
  <2>1. /\ pc' = [pc EXCEPT ![t] = "settled"] /\ answer' = [answer EXCEPT ![t] = "rejected"]
        /\ UNCHANGED <<strategy, active, initOf, change, updates, overlapped>>
    BY <1>1, <1>4 DEF Settles
  <2>2. BalancerType' /\ TurnsInv'
    BY <1>2, TurnsFrame DEF IInv, TypeOK, BalancerType
  <2>3. ManagerType'
    BY <1>2, <1>3, <2>1 DEF IInv, TypeOK, ManagerType
  <2>4. CallType'
    BY <1>2, <2>1 DEF IInv, TypeOK, CallType, Phases, Answers
  <2>5. CoreStays
    BY <1>2, <2>1 DEF CoreStays, IInv, TypeOK, CallType
  <2>6. RoutesInv'
    BY <1>2, <2>1 DEF IInv, TypeOK, CallType, RoutesInv
  <2>. QED  BY <2>2, <2>3, <2>4, <2>5, <2>6, CoreFrame DEF IInv, TypeOK
<1>5. CASE ~destroyed
  <2>1. BeginChange(t, s) /\ answer' = answer
    BY <1>1, <1>5
  <2>2. retried' \subseteq Queries
    BY <1>2 DEF IInv, TypeOK, CallType
  <2>. QED  BY <1>2, <1>3, <1>5, <2>1, <2>2, BeginIInv
<1>. QED  BY <1>4, <1>5

LEMMA CatchIInv ==
    ASSUME IInv, NEW c \in Callers, Catch(c)
    PROVE  IInv'
<1>. USE Callers1
<1>1. pc[c] = "failed" /\ UNCHANGED <<plan, destroyed, built, balancer, cursor, picks, using, faults>>
  BY DEF Catch
<1>2. CASE c \in Queries /\ c \notin retried /\ Fallback /\ strategy # Default /\ ~destroyed
  <2>1. /\ retried' = retried \cup {c} /\ custom' = custom
        /\ BeginChange(c, Default) /\ answer' = answer
    BY <1>2 DEF Catch
  <2>2. custom' \in BOOLEAN /\ retried' \subseteq Queries
    BY <1>2, <2>1 DEF IInv, TypeOK, ManagerType, CallType
  <2>. QED  BY <1>1, <1>2, <2>1, <2>2, BeginIInv
<1>3. CASE ~(c \in Queries /\ c \notin retried /\ Fallback /\ strategy # Default /\ ~destroyed)
  <2>1. /\ Settles(c, IF c \in Queries THEN "rejected" ELSE "unhealthy")
        /\ UNCHANGED <<plan, strategy, custom, active, initOf, change, updates, overlapped, retried>>
    BY <1>3 DEF Catch
  <2>2. BalancerType' /\ TurnsInv'
    BY <1>1, TurnsFrame DEF IInv, TypeOK, BalancerType
  <2>3. faults' \in [init : Nat, destroy : Nat, replica : Nat] /\ faults'.init = faults.init
    BY <1>1 DEF IInv, TypeOK, ManagerType
  <2>4. UNCHANGED <<plan, manager, built, balancer, using, retried, change, updates, overlapped>>
    BY <1>1, <2>1 DEF manager
  <2>5. PICK a \in Answers : answer' = [answer EXCEPT ![c] = a] /\ pc' = [pc EXCEPT ![c] = "settled"]
    BY <2>1 DEF Settles, Answers
  <2>. QED  BY <1>1, <2>2, <2>3, <2>4, <2>5, MoveIInv
<1>. QED  BY <1>2, <1>3

\* The change under way, if nothing overlaps it, is of the balancer that serves.
LEMMA ChangeIsAlone ==
    ASSUME IInv, NEW t \in Tasks, pc[t] = "changing"
    PROVE  /\ change[t].to \in Strategies /\ change[t].from \in Strategies
           /\ change[t].old \in 1..built /\ StateOf(change[t].old) \in {"live", "destroyed"}
           /\ t \in Changing
           /\ ~overlapped => /\ Changing = {t} /\ ~destroyed /\ active = change[t].old /\ initOf = 0
                             /\ change[t].from = strategy
<1>1. change[t] # NoChange
  BY DEF IInv, RefsInv
<1>2. t \in Changing
  BY <1>1 DEF Changing
<1>3. /\ change[t].to \in Strategies /\ change[t].from \in Strategies
      /\ change[t].old # 0 /\ StateOf(change[t].old) \in {"live", "destroyed"}
  BY <1>1 DEF IInv, RefsInv
<1>4. change[t].old \in 1..built
  BY <1>3 DEF IInv, TypeOK, CallType, ManagerType
<1>. QED  BY <1>2, <1>3, <1>4 DEF IInv, AloneInv

LEMMA OldDestroyedIInv ==
    ASSUME IInv, NEW t \in Queries \cup Switchers, OldDestroyed(t)
    PROVE  IInv'
<1>. USE Callers1
<1>. DEFINE old == change[t].old
<1>1. /\ pc[t] = "changing" /\ t \in Tasks
      /\ balancer' = [balancer EXCEPT ![old].state = "destroyed"]
      /\ strategy' = change[t].to /\ active' = 0 /\ initOf' = 0 /\ updates' = updates + 1
      /\ overlapped' = (overlapped \/ Meets(t))
      /\ change' = [change EXCEPT ![t] = NoChange]
      /\ pc' = [pc EXCEPT ![t] = IF t \in Queries THEN "again" ELSE "settled"]
      /\ UNCHANGED <<plan, custom, destroyed, built, cursor, picks, using, retried, answer, faults>>
  BY DEF OldDestroyed, Update, AfterChange
<1>2. /\ change[t].to \in Strategies /\ old \in 1..built /\ t \in Changing
      /\ ~overlapped => Changing = {t} /\ ~destroyed /\ active = old /\ initOf = 0
  BY <1>1, ChangeIsAlone
<1>. HIDE DEF old
<1>3. /\ BalancerType' /\ TurnsInv'
      /\ balancer'[old].state = "destroyed"
      /\ \A x \in 1..built : x # old => balancer'[x] = balancer[x]
  BY <1>1, <1>2, StateType
<1>4. /\ pc'[t] \in {"again", "settled"} /\ change'[t] = NoChange
      /\ \A o \in (Tasks \cup {"destroy"}) \ {t} : pc'[o] = pc[o]
      /\ \A o \in Tasks \ {t} : change'[o] = change[o]
  BY <1>1 DEF IInv, TypeOK, CallType
<1>5. built \in Nat /\ overlapped' \in BOOLEAN
  BY <1>1 DEF IInv, TypeOK, ManagerType
<1>6. TypeOK'
  <2>1. ManagerType'
    BY <1>1, <1>2, <1>5 DEF IInv, TypeOK, ManagerType
  <2>2. pc' \in [Tasks \cup {"destroy"} -> Phases]
    BY <1>1 DEF IInv, TypeOK, CallType, Phases
  <2>3. change' \in [Tasks -> [to : Strategies \cup {"none"}, from : Strategies \cup {"none"}, old : 0..built]]
    <3>1. NoChange \in [to : Strategies \cup {"none"}, from : Strategies \cup {"none"}, old : 0..built]
      BY <1>5 DEF NoChange
    <3>. QED  BY <1>1, <3>1 DEF IInv, TypeOK, CallType
  <2>4. CallType'
    BY <1>1, <2>2, <2>3 DEF IInv, TypeOK, CallType
  <2>. QED  BY <1>3, <2>1, <2>4 DEF TypeOK
<1>7. RefsInv'
  <2>1. \A o \in Tasks : change'[o] # NoChange =>
          /\ pc'[o] = "changing"
          /\ change'[o].to \in Strategies /\ change'[o].from \in Strategies
          /\ change'[o].old # 0 /\ balancer'[change'[o].old].state \in {"live", "destroyed"}
    <3>. SUFFICES ASSUME NEW o \in Tasks, change'[o] # NoChange
                  PROVE  /\ pc'[o] = "changing"
                         /\ change'[o].to \in Strategies /\ change'[o].from \in Strategies
                         /\ change'[o].old # 0 /\ balancer'[change'[o].old].state \in {"live", "destroyed"}
      OBVIOUS
    <3>1. o # t /\ change'[o] = change[o] /\ pc'[o] = pc[o] /\ pc[o] = "changing"
      BY <1>4 DEF IInv, RefsInv
    <3>2. /\ change[o].to \in Strategies /\ change[o].from \in Strategies
          /\ change[o].old \in 1..built /\ balancer[change[o].old].state \in {"live", "destroyed"}
      BY <3>1, ChangeIsAlone DEF StateOf
    <3>3. balancer'[change[o].old].state \in {"live", "destroyed"}
      BY <1>3, <3>2
    <3>. QED  BY <3>1, <3>2, <3>3
  <2>2. \A o \in Tasks : pc'[o] = "changing" => change'[o] # NoChange
    BY <1>4 DEF IInv, RefsInv
  <2>3. pc'["destroy"] = pc["destroy"]
    BY <1>1, <1>4
  <2>. QED  BY <1>1, <2>1, <2>2, <2>3 DEF IInv, RefsInv, StateOf
<1>8. CountInv'
  BY <1>1, <1>5 DEF IInv, TypeOK, ManagerType, CountInv, BuiltOnce
<1>9. AloneInv'
  <2>. SUFFICES ASSUME ~overlapped' PROVE AloneInv'
    BY DEF AloneInv
  <2>1. ~overlapped /\ Initialising = {} /\ pc["destroy"] = "new"
    BY <1>1 DEF Meets
  <2>2. Changing' = {}
    BY <1>2, <1>4, <2>1 DEF Changing
  <2>3. \A x \in 1..built : balancer'[x].state # "initialising" /\ balancer'[x].state # "live"
    <3>. SUFFICES ASSUME NEW x \in 1..built
                  PROVE  balancer'[x].state # "initialising" /\ balancer'[x].state # "live"
      OBVIOUS
    <3>1. balancer[x].state # "initialising"
      BY <2>1 DEF Initialising
    <3>2. balancer[x].state = "live" => x = old
      BY <1>2, <2>1 DEF IInv, AloneInv, StateOf
    <3>. QED  BY <1>3, <3>1, <3>2
  <2>4. pc'["destroy"] = "new" /\ answer'["destroy"] # "done"
    BY <1>1, <1>4, <2>1 DEF IInv, AloneInv
  <2>. QED  BY <1>1, <2>2, <2>3, <2>4 DEF AloneInv, StateOf
<1>10. RoutesInv'
  <2>1. t \in Queries => Replicas[t] > 0
    BY <1>1 DEF IInv, RoutesInv
  <2>. QED  BY <1>1, <1>4, <2>1 DEF IInv, RoutesInv
<1>. QED  BY <1>3, <1>6, <1>7, <1>8, <1>9, <1>10 DEF IInv

LEMMA OldNotDestroyedIInv ==
    ASSUME IInv, NEW t \in Queries \cup Switchers, OldNotDestroyed(t)
    PROVE  IInv'
<1>. USE Callers1
<1>1. /\ pc[t] = "changing" /\ t \in Tasks
      /\ strategy' = change[t].from /\ active' = change[t].old
      /\ overlapped' = (overlapped \/ Meets(t))
      /\ faults' = [faults EXCEPT !["destroy"] = @ + 1]
      /\ change' = [change EXCEPT ![t] = NoChange]
      /\ pc' = [pc EXCEPT ![t] = "settled"] /\ answer' = [answer EXCEPT ![t] = "rejected"]
      /\ UNCHANGED <<plan, custom, initOf, destroyed, built, balancer, cursor, picks, using, retried, updates>>
  BY DEF OldNotDestroyed, Settles, Fails
<1>2. /\ change[t].from \in Strategies /\ change[t].old \in 1..built /\ t \in Changing
      /\ StateOf(change[t].old) \in {"live", "destroyed"}
      /\ ~overlapped => /\ Changing = {t} /\ ~destroyed /\ active = change[t].old /\ initOf = 0
                        /\ change[t].from = strategy
  BY <1>1, ChangeIsAlone
<1>3. BalancerType' /\ TurnsInv'
  BY <1>1, TurnsFrame DEF IInv, TypeOK, BalancerType
<1>4. /\ pc'[t] = "settled" /\ change'[t] = NoChange
      /\ \A o \in (Tasks \cup {"destroy"}) \ {t} : pc'[o] = pc[o] /\ answer'[o] = answer[o]
      /\ \A o \in Tasks \ {t} : change'[o] = change[o]
  BY <1>1 DEF IInv, TypeOK, CallType
<1>5. built \in Nat /\ overlapped' \in BOOLEAN /\ faults'.init = faults.init
  BY <1>1 DEF IInv, TypeOK, ManagerType
<1>6. TypeOK'
  <2>1. ManagerType'
    BY <1>1, <1>2, <1>5 DEF IInv, TypeOK, ManagerType
  <2>2. pc' \in [Tasks \cup {"destroy"} -> Phases] /\ answer' \in [Tasks \cup {"destroy"} -> Answers]
    BY <1>1 DEF IInv, TypeOK, CallType, Phases, Answers
  <2>3. change' \in [Tasks -> [to : Strategies \cup {"none"}, from : Strategies \cup {"none"}, old : 0..built]]
    <3>1. NoChange \in [to : Strategies \cup {"none"}, from : Strategies \cup {"none"}, old : 0..built]
      BY <1>5 DEF NoChange
    <3>. QED  BY <1>1, <3>1 DEF IInv, TypeOK, CallType
  <2>4. CallType'
    BY <1>1, <2>2, <2>3 DEF IInv, TypeOK, CallType
  <2>. QED  BY <1>3, <2>1, <2>4 DEF TypeOK
<1>7. RefsInv'
  <2>1. \A o \in Tasks : o = t \/ (change'[o] = change[o] /\ pc'[o] = pc[o])
    BY <1>4
  <2>2. pc'["destroy"] = pc["destroy"]
    BY <1>1, <1>4
  <2>. QED  BY <1>1, <1>2, <1>4, <2>1, <2>2 DEF IInv, RefsInv, StateOf
<1>8. CountInv'
  BY <1>1, <1>2, <1>5 DEF IInv, CountInv, BuiltOnce
<1>9. AloneInv'
  <2>. SUFFICES ASSUME ~overlapped' PROVE AloneInv'
    BY DEF AloneInv
  <2>1. ~overlapped /\ pc["destroy"] = "new"
    BY <1>1 DEF Meets
  <2>2. Changing' = {}
    BY <1>2, <1>4, <2>1 DEF Changing
  <2>3. active' = active /\ strategy' = strategy /\ initOf' = initOf /\ balancer' = balancer
    BY <1>1, <1>2, <2>1
  <2>4. pc'["destroy"] = "new" /\ answer'["destroy"] # "done"
    BY <1>1, <1>4, <2>1 DEF IInv, AloneInv
  <2>5. /\ \A b \in 1..built : /\ StateOf(b) = "initialising" => b = initOf
                               /\ StateOf(b) = "live" => b = active
        /\ initOf # 0 => active = 0 /\ balancer[initOf].strategy = strategy
        /\ active # 0 => StateOf(active) = "live" /\ balancer[active].strategy = strategy
    BY <2>1 DEF IInv, AloneInv
  <2>. QED  BY <1>1, <2>2, <2>3, <2>4, <2>5 DEF AloneInv, StateOf
<1>10. RoutesInv'
  BY <1>1, <1>4 DEF IInv, RoutesInv
<1>. QED  BY <1>3, <1>6, <1>7, <1>8, <1>9, <1>10 DEF IInv

-----------------------------------------------------------------------------
LEMMA DestroyIInv == IInv /\ Destroy => IInv'
<1>. SUFFICES ASSUME IInv, Destroy PROVE IInv'
  OBVIOUS
<1>. USE Callers1
<1>1. /\ pc["destroy"] = "new" /\ destroyed' = TRUE
      /\ using' = [using EXCEPT !["destroy"] = initOf]
      /\ pc' = [pc EXCEPT !["destroy"] = IF initOf # 0 THEN "waiting" ELSE "cleaning"]
      /\ overlapped' = (overlapped \/ Changing # {} \/ Initialising \ {initOf} # {})
      /\ UNCHANGED <<plan, strategy, custom, active, initOf, built, balancer, cursor, picks, retried,
                     answer, change, updates, faults>>
  BY DEF Destroy
<1>2. BalancerType' /\ TurnsInv'
  BY <1>1, TurnsFrame DEF IInv, TypeOK, BalancerType
<1>3. /\ pc'["destroy"] = (IF initOf # 0 THEN "waiting" ELSE "cleaning") /\ using'["destroy"] = initOf
      /\ \A t \in Tasks : pc'[t] = pc[t]
      /\ \A c \in Callers : using'[c] = using[c]
  BY <1>1 DEF IInv, TypeOK, CallType
<1>4. TypeOK'
  <2>1. ManagerType'
    BY <1>1 DEF IInv, TypeOK, ManagerType
  <2>2. initOf \in 0..built
    BY DEF IInv, TypeOK, ManagerType
  <2>3. CallType'
    BY <1>1, <2>2 DEF IInv, TypeOK, CallType, Phases
  <2>. QED  BY <1>2, <2>1, <2>3 DEF TypeOK
<1>5. RefsInv'
  BY <1>1, <1>3 DEF IInv, RefsInv, StateOf
<1>6. CountInv'
  BY <1>1 DEF IInv, CountInv, BuiltOnce
<1>7. AloneInv'
  <2>. SUFFICES ASSUME ~overlapped' PROVE AloneInv'
    BY DEF AloneInv
  <2>1. ~overlapped /\ Changing = {}
    BY <1>1
  <2>2. Changing' = {}
    BY <1>1, <2>1 DEF Changing
  <2>3. answer["destroy"] # "done"
    BY <1>1, <2>1 DEF IInv, AloneInv
  <2>4. /\ \A b \in 1..built : /\ StateOf(b) = "initialising" => b = initOf
                               /\ StateOf(b) = "live" => b = active
        /\ initOf # 0 => active = 0 /\ balancer[initOf].strategy = strategy
        /\ active # 0 => StateOf(active) = "live" /\ balancer[active].strategy = strategy
    BY <2>1 DEF IInv, AloneInv
  <2>. QED  BY <1>1, <1>3, <2>2, <2>3, <2>4 DEF AloneInv, StateOf
<1>8. RoutesInv'
  BY <1>3 DEF IInv, RoutesInv
<1>. QED  BY <1>2, <1>4, <1>5, <1>6, <1>7, <1>8 DEF IInv

LEMMA CleanIInv == IInv /\ Clean => IInv'
<1>. SUFFICES ASSUME IInv, Clean PROVE IInv'
  OBVIOUS
<1>. USE Callers1
<1>1. /\ pc["destroy"] = "cleaning" /\ destroyed
      /\ pc' = [pc EXCEPT !["destroy"] = "settled"]
      /\ UNCHANGED <<plan, strategy, custom, destroyed, built, cursor, picks, using, retried, change,
                     updates, overlapped>>
  BY DEF Clean, Settles, IInv, RefsInv
<1>2. pc'["destroy"] = "settled" /\ \A t \in Tasks : pc'[t] = pc[t]
  BY <1>1 DEF IInv, TypeOK, CallType
<1>3. \A t \in Tasks : change[t] # NoChange => change[t].old \in 1..built
  BY ChangeIsAlone DEF IInv, RefsInv
<1>4. ~overlapped => Changing = {} /\ initOf = 0
  BY <1>1 DEF IInv, AloneInv
<1>5. Changing' = Changing
  BY <1>1 DEF Changing
<1>6. RoutesInv'
  BY <1>1, <1>2 DEF IInv, RoutesInv
<1>7. built \in Nat /\ active \in 0..built
  BY DEF IInv, TypeOK, ManagerType
<1>8. CASE /\ balancer' = IF active = 0 THEN balancer ELSE [balancer EXCEPT ![active].state = "destroyed"]
           /\ active' = 0 /\ initOf' = 0
           /\ answer' = [answer EXCEPT !["destroy"] = "done"] /\ UNCHANGED faults
  <2>1. /\ BalancerType' /\ TurnsInv'
        /\ active # 0 => balancer'[active].state = "destroyed"
        /\ \A x \in 1..built : x # active => balancer'[x] = balancer[x]
    <3>1. CASE active = 0
      <4>1. balancer' = balancer
        BY <1>8, <3>1
      <4>. QED  BY <1>1, <3>1, <4>1, TurnsFrame DEF IInv, TypeOK, BalancerType
    <3>2. CASE active # 0
      <4>1. active \in 1..built /\ balancer' = [balancer EXCEPT ![active].state = "destroyed"]
        BY <1>7, <1>8, <3>2
      <4>. QED  BY <1>1, <4>1, StateType
    <3>. QED  BY <3>1, <3>2
  <2>2. TypeOK'
    <3>1. ManagerType'
      BY <1>1, <1>7, <1>8 DEF IInv, TypeOK, ManagerType
    <3>2. CallType'
      BY <1>1, <1>8 DEF IInv, TypeOK, CallType, Phases, Answers
    <3>. QED  BY <2>1, <3>1, <3>2 DEF TypeOK
  <2>3. RefsInv'
    <3>1. \A t \in Tasks : change'[t] # NoChange =>
             /\ pc'[t] = "changing"
             /\ change'[t].to \in Strategies /\ change'[t].from \in Strategies
             /\ change'[t].old # 0 /\ balancer'[change'[t].old].state \in {"live", "destroyed"}
      BY <1>1, <1>2, <1>3, <2>1 DEF IInv, RefsInv, StateOf
    <3>2. \A t \in Tasks : pc'[t] = "changing" => change'[t] # NoChange
      BY <1>1, <1>2 DEF IInv, RefsInv
    <3>. QED  BY <1>1, <1>2, <1>8, <3>1, <3>2 DEF RefsInv, StateOf
  <2>4. CountInv'
    BY <1>1, <1>8 DEF IInv, CountInv, BuiltOnce
  <2>5. AloneInv'
    <3>. SUFFICES ASSUME ~overlapped PROVE AloneInv'
      BY <1>1 DEF AloneInv
    <3>1. Changing' = {}
      BY <1>4, <1>5
    <3>2. \A x \in 1..built : balancer'[x].state # "initialising" /\ balancer'[x].state # "live"
      <4>. SUFFICES ASSUME NEW x \in 1..built
                    PROVE  balancer'[x].state # "initialising" /\ balancer'[x].state # "live"
        OBVIOUS
      <4>1. balancer[x].state # "initialising"
        BY <1>4, <1>7 DEF IInv, AloneInv, StateOf
      <4>2. balancer[x].state = "live" => x = active
        BY DEF IInv, AloneInv, StateOf
      <4>. QED  BY <1>7, <2>1, <4>1, <4>2
    <3>. QED  BY <1>1, <1>2, <1>8, <3>1, <3>2 DEF AloneInv, StateOf
  <2>. QED  BY <1>6, <2>1, <2>2, <2>3, <2>4, <2>5 DEF IInv
<1>9. CASE /\ faults' = [faults EXCEPT !["destroy"] = @ + 1]
           /\ answer' = [answer EXCEPT !["destroy"] = "rejected"]
           /\ UNCHANGED <<balancer, active, initOf>>
  <2>1. BalancerType' /\ TurnsInv'
    BY <1>1, <1>9, TurnsFrame DEF IInv, TypeOK, BalancerType
  <2>2. TypeOK'
    <3>1. ManagerType'
      BY <1>1, <1>9 DEF IInv, TypeOK, ManagerType
    <3>2. CallType'
      BY <1>1, <1>9 DEF IInv, TypeOK, CallType, Phases, Answers
    <3>. QED  BY <2>1, <3>1, <3>2 DEF TypeOK
  <2>3. RefsInv'
    BY <1>1, <1>2, <1>9 DEF IInv, RefsInv, StateOf
  <2>4. CountInv'
    <3>1. faults'.init = faults.init
      BY <1>9 DEF IInv, TypeOK, ManagerType
    <3>. QED  BY <1>1, <1>9, <3>1 DEF IInv, CountInv, BuiltOnce
  <2>5. AloneInv'
    <3>. SUFFICES ASSUME ~overlapped PROVE AloneInv'
      BY <1>1 DEF AloneInv
    <3>1. Changing' = {} /\ initOf' = 0
      BY <1>4, <1>5, <1>9
    <3>2. answer'["destroy"] # "done"
      BY <1>9 DEF IInv, TypeOK, CallType
    <3>. QED  BY <1>1, <1>2, <1>9, <3>1, <3>2 DEF IInv, AloneInv, StateOf
  <2>. QED  BY <1>6, <2>1, <2>2, <2>3, <2>4, <2>5 DEF IInv
<1>. QED  BY <1>8, <1>9 DEF Clean, Settles, Fails

LEMMA NextIInv == IInv /\ [Next]_vars => IInv'
<1>. SUFFICES ASSUME IInv, [Next]_vars PROVE IInv'
  OBVIOUS
<1>1. ASSUME NEW c \in Callers, Call(c) \/ CallStep(c)
      PROVE  IInv'
  BY <1>1, CallIInv, RouteIInv, CatchIInv, AnswersIInv, AgainIInv DEF CallStep
<1>2. ASSUME NEW b \in Balancers, BalancerStep(b)
      PROVE  IInv'
  BY <1>2, InitSucceedsIInv, InitFailsIInv DEF BalancerStep
<1>3. ASSUME NEW t \in Switchers, Switch(t)
      PROVE  IInv'
  BY <1>3, SwitchIInv
<1>4. ASSUME NEW t \in Queries \cup Switchers, ChangeStep(t)
      PROVE  IInv'
  BY <1>4, OldDestroyedIInv, OldNotDestroyedIInv DEF ChangeStep
<1>5. CASE Destroy \/ Clean
  BY <1>5, DestroyIInv, CleanIInv
<1>6. CASE UNCHANGED vars
  <2>1. UNCHANGED <<plan, strategy, custom, active, initOf, destroyed, built, balancer, cursor, picks,
                    pc, using, retried, answer, change, updates, overlapped, faults>>
    BY <1>6 DEF vars, manager, calls
  <2>2. TypeOK'
    BY <2>1 DEF IInv, TypeOK, ManagerType, BalancerType, CallType
  <2>3. CoreStays
    BY <2>1 DEF CoreStays
  <2>4. RoutesInv'
    BY <2>1 DEF IInv, RoutesInv
  <2>5. TurnsInv'
    BY <2>1, TurnsFrame
  <2>. QED  BY <2>2, <2>3, <2>4, <2>5, CoreFrame DEF IInv
<1>. QED  BY <1>1, <1>2, <1>3, <1>4, <1>5, <1>6 DEF Next

THEOREM Invariant == Spec => []IInv
BY InitIInv, NextIInv, PTL DEF Spec

-----------------------------------------------------------------------------
\* Every variable of the manager keeps its type, for any callers, handles and faults.
THEOREM TypeCorrect == Spec => []TypeOK
BY Invariant, PTL DEF IInv

\* However many callers arrive together, one balancer is built, and another only
\* after a change of strategy or a failed initialisation.
THEOREM OneBalancer == Spec => []BuiltOnce
BY Invariant, PTL DEF IInv, CountInv

\* Until a change overlaps something else, the balancer that serves lives and is of
\* the strategy in force.
THEOREM InForce == Spec => []StrategyInForce
<1>1. IInv => StrategyInForce
  BY DEF IInv, AloneInv, StrategyInForce, StateOf
<1>. QED  BY <1>1, Invariant, PTL

\* Under the same condition a destroy() that resolves leaves no balancer behind.
THEOREM NothingLeft == Spec => []DestroyLeavesNothing
<1>1. IInv => DestroyLeavesNothing
  <2>. SUFFICES ASSUME IInv, ~overlapped, answer["destroy"] = "done", NEW b \in 1..built
                PROVE  balancer[b].state \in {"failed", "destroyed"}
    BY DEF DestroyLeavesNothing
  <2>1. active = 0 /\ initOf = 0
    BY DEF IInv, AloneInv
  <2>2. b # 0 /\ balancer[b].state \in {"initialising", "live", "failed", "destroyed"}
    BY DEF IInv, TypeOK, ManagerType, BalancerType
  <2>. QED  BY <2>1, <2>2 DEF IInv, AloneInv, StateOf
<1>. QED  BY <1>1, Invariant, PTL

\* Round robin never points past the replicas of the handle at hand, and while
\* handles of n replicas alone use it, n picks in a row are n replicas.
THEOREM EveryReplica == Spec => []EveryReplicaServes
<1>1. IInv => EveryReplicaServes
  <2>. SUFFICES ASSUME IInv, NEW b \in 1..built, balancer[b].class = Default
                PROVE  /\ \A i \in 1..Len(picks[b]) : picks[b][i].target < Replicas[picks[b][i].query]
                       /\ OneSize(picks[b]) =>
                            \A i, j \in 1..Len(picks[b]) :
                              i < j /\ j < i + Replicas[picks[b][i].query] =>
                                picks[b][i].target # picks[b][j].target
    BY DEF EveryReplicaServes, OneSize
  <2>. DEFINE p == picks[b]
  <2>1. TurnsOf(p, cursor[b])
    BY DEF IInv, TurnsInv
  <2>2. p \in Seq([query : Queries, target : Nat])
    BY DEF IInv, TypeOK, BalancerType
  <2>. HIDE DEF p
  <2>3. ASSUME OneSize(p), NEW i \in 1..Len(p), NEW j \in 1..Len(p),
               i < j, j < i + Replicas[p[i].query]
        PROVE  p[i].target # p[j].target
    <3>1. p[i] \in [query : Queries, target : Nat]
      BY <2>2, LenProperties
    <3>2. p[i].target \in Nat /\ Replicas[p[i].query] \in Nat /\ Len(p) \in Nat
      BY <2>2, <3>1, LenProperties, CallersAssumption
    <3>3. p[i].target < Replicas[p[i].query]
      BY <2>1 DEF TurnsOf
    <3>4. Turn(p, i, j)
      BY <2>1, <2>3 DEF TurnsOf
    <3>5. p[j].target = Wrapped(p[i].target + (j - i), Replicas[p[i].query])
      BY <2>3, <3>2, <3>4 DEF Turn
    <3>. DEFINE x == p[i].target
                n == Replicas[p[i].query]
    <3>6. x \in Nat /\ n \in Nat /\ x < n /\ i \in Nat /\ j \in Nat /\ i < j /\ j < i + n
      BY <2>3, <3>2, <3>3
    <3>. HIDE DEF x, n
    <3>7. x # Wrapped(x + (j - i), n)
      BY <3>6 DEF Wrapped
    <3>. QED  BY <3>5, <3>7 DEF x, n
  <2>4. \A i \in 1..Len(p) : p[i].target < Replicas[p[i].query]
    BY <2>1 DEF TurnsOf
  <2>. QED  BY <2>3, <2>4 DEF p
<1>. QED  BY <1>1, Invariant, PTL

=============================================================================
