--------------------------- MODULE LoadBalancing ---------------------------
(***************************************************************************)
(* Read-only queries and the load balancer (lib/load-balancing,            *)
(* conn.roQuery in lib/dbh.js).  One LoadBalancerManager serves every      *)
(* handle of the process: it builds a balancer on first use, changes       *)
(* strategy on request, and is destroyed at the end.  A step is the code   *)
(* between two awaits.  Balancers are numbered in the order they are built.*)
(***************************************************************************)
EXTENDS Naturals, Sequences, FiniteSets

CONSTANTS
    Queries,      \* calls of roQuery
    Probes,       \* calls of getStats and healthCheck
    Switchers,    \* calls of setStrategy, set- and removeCustomLoadBalancer
    Replicas,     \* per query: how many replicas the handle it goes through has
    Requests,     \* strategies that may be asked for
    Fallback,     \* options.enableFallback
    Plans,        \* which calls are made in one run; "destroy" is destroy()
    MaxFaults     \* bound: failures of init, destroy and replicas together

Callers == Queries \cup Probes
Tasks == Callers \cup Switchers
Balancers == 1..(Cardinality(Callers) + Cardinality(Queries))
Default == "roundRobin"

ASSUME CallersAssumption ==
    /\ Queries \cap Probes = {} /\ Callers \cap Switchers = {}
    /\ Replicas \in [Queries -> Nat] /\ Fallback \in BOOLEAN
    /\ Plans \subseteq SUBSET (Tasks \cup {"destroy"}) /\ "destroy" \notin Tasks

VARIABLES
    plan,       \* the calls of this run
    strategy,   \* this.strategy
    custom,     \* loadBalancerStrategies.custom is a class
    active,     \* this.activeLoadBalancer; 0 is null
    initOf,     \* this.initializationPromise: of the balancer it builds; 0 is null
    destroyed,  \* this.isDestroyed
    built,      \* balancers built so far
    balancer,   \* per balancer: the strategy it was built for, its class and state
    cursor,     \* per balancer: lastReadConn
    picks,      \* per balancer: the queries routed and the replica each was given
    pc,         \* per call: where it stands
    using,      \* per call: the balancer it was handed, or whose init it awaits
    retried,    \* queries in the fallback of executeQuery
    answer,     \* per call: what it settled with
    change,     \* per task: the setStrategy under way
    updates,    \* strategy changes that went through
    overlapped, \* a change met an initialisation, a destruction or another change
    faults      \* per kind: how often it failed

manager == <<strategy, custom, active, initOf, destroyed>>
calls == <<pc, using, retried, answer>>
vars == <<plan, manager, built, balancer, cursor, picks, calls, change, updates, overlapped, faults>>

NoChange == [to |-> "none", from |-> "none", old |-> 0]
Changing == {t \in Tasks : change[t] # NoChange}
Initialising == {b \in 1..built : balancer[b].state = "initialising"}

Init ==
    /\ plan \in Plans
    /\ strategy = Default /\ custom = FALSE
    /\ active = 0 /\ initOf = 0 /\ destroyed = FALSE
    /\ built = 0 /\ balancer = <<>> /\ cursor = <<>> /\ picks = <<>>
    /\ pc = [t \in Tasks \cup {"destroy"} |-> "new"]
    /\ using = [c \in Callers \cup {"destroy"} |-> 0]
    /\ retried = {}
    /\ answer = [t \in Tasks \cup {"destroy"} |-> "none"]
    /\ change = [t \in Tasks |-> NoChange]
    /\ updates = 0 /\ overlapped = FALSE
    /\ faults = [init |-> 0, destroy |-> 0, replica |-> 0]

Fails(kind) ==
    /\ faults.init + faults.destroy + faults.replica < MaxFaults
    /\ faults' = [faults EXCEPT ![kind] = @ + 1]

Settles(t, with) ==
    /\ pc' = [pc EXCEPT ![t] = "settled"]
    /\ answer' = [answer EXCEPT ![t] = with]

-----------------------------------------------------------------------------
\* _initializeLoadBalancer: an unavailable class is replaced by round robin.
ClassOf(s) == IF s = "random" \/ (s = "custom" /\ custom) THEN s ELSE Default

\* setStrategy's validation of the strategy it is given.
Validated(s) == IF s = "random" \/ (s = "custom" /\ custom') THEN s ELSE Default

\* Mutant: the promise of the initialisation is not kept.
RememberNothing(b) == UNCHANGED initOf

\* The promise of the initialisation under way.
Remember(b) == initOf' = b

StartInitialising(c) ==
    /\ built' = built + 1
    /\ balancer' = Append(balancer,
           [strategy |-> strategy, class |-> ClassOf(strategy), state |-> "initialising"])
    /\ cursor' = Append(cursor, 0) /\ picks' = Append(picks, <<>>)
    /\ Remember(built + 1)
    /\ using' = [using EXCEPT ![c] = built + 1]
    /\ pc' = [pc EXCEPT ![c] = "initialising"]

\* getLoadBalancer up to its first await, in a manager that is not destroyed.
GetLoadBalancer(c) ==
    CASE active # 0 ->
             /\ using' = [using EXCEPT ![c] = active]
             /\ pc' = [pc EXCEPT ![c] = "routed"]
             /\ UNCHANGED <<initOf, built, balancer, cursor, picks>>
      [] active = 0 /\ initOf # 0 ->
             /\ using' = [using EXCEPT ![c] = initOf]
             /\ pc' = [pc EXCEPT ![c] = "waiting"]
             /\ UNCHANGED <<initOf, built, balancer, cursor, picks>>
      [] OTHER -> StartInitialising(c)

\* roQuery and executeQuery, getStats, healthCheck.
Call(c) ==
    /\ c \in plan /\ pc[c] = "new"
    /\ CASE c \in Queries /\ Replicas[c] = 0 ->
                Settles(c, "primary") /\ UNCHANGED <<using, initOf, built, balancer, cursor, picks>>
         [] destroyed /\ ~(c \in Queries /\ Replicas[c] = 0) ->
                /\ Settles(c, IF c \in Queries THEN "rejected" ELSE "unhealthy")
                /\ UNCHANGED <<using, initOf, built, balancer, cursor, picks>>
         [] OTHER -> GetLoadBalancer(c) /\ UNCHANGED answer
    /\ UNCHANGED <<plan, strategy, custom, active, destroyed, retried, change, updates, overlapped, faults>>

(***************************************************************************)
(* init() settles: the caller that started it installs the balancer and    *)
(* clears the promise, then those that awaited the same promise go on.     *)
(***************************************************************************)
Awaiting(b) == {c \in Callers \cup {"destroy"} : using[c] = b /\ pc[c] \in {"initialising", "waiting"}}
\* Mutant: only the caller that started the initialisation is told.
GoOnAlone(b, to) == pc' = [c \in DOMAIN pc |->
    IF c \in Awaiting(b) /\ pc[c] = "initialising" THEN to ELSE pc[c]]
GoOn(b, to) == pc' = [c \in DOMAIN pc |->
    IF c \notin Awaiting(b) THEN pc[c] ELSE IF c = "destroy" THEN "cleaning" ELSE to]

InitSucceeds(b) ==
    /\ b \in Initialising
    /\ balancer' = [balancer EXCEPT ![b].state = "live"]
    /\ active' = b /\ initOf' = 0
    /\ GoOn(b, "routed")
    /\ UNCHANGED <<plan, strategy, custom, destroyed, built, cursor, picks, using, retried, answer,
                   change, updates, overlapped, faults>>

\* Only a custom class has an init that can fail.  destroy() rejects with it.
InitFails(b) ==
    /\ b \in Initialising /\ balancer[b].class = "custom"
    /\ Fails("init")
    /\ balancer' = [balancer EXCEPT ![b].state = "failed"]
    /\ initOf' = 0
    /\ pc' = [c \in DOMAIN pc |->
          IF c \notin Awaiting(b) THEN pc[c] ELSE IF c = "destroy" THEN "settled" ELSE "failed"]
    /\ answer' = IF "destroy" \in Awaiting(b) THEN [answer EXCEPT !["destroy"] = "rejected"] ELSE answer
    /\ UNCHANGED <<plan, strategy, custom, active, destroyed, built, cursor, picks, using, retried,
                   change, updates, overlapped>>

-----------------------------------------------------------------------------
\* Mutant: a wrap-around that tests for equality.
PickNextWhenEqual(b, n) ==
    {IF cursor[b] + 1 = n THEN 0 ELSE cursor[b] + 1}

\* getNextReadConn: one counter per balancer, whatever the handle's targets.
PickNext(b, n) ==
    IF balancer[b].class = Default
    THEN {IF cursor[b] + 1 >= n THEN 0 ELSE cursor[b] + 1}
    ELSE 0..n - 1

\* LoadBalancer.executeQuery up to the query on the replica; a probe is answered.
Route(c) ==
    /\ pc[c] = "routed"
    /\ IF c \in Probes
       THEN Settles(c, "report") /\ UNCHANGED <<cursor, picks>>
       ELSE \E k \in PickNext(using[c], Replicas[c]) :
              /\ cursor' = [cursor EXCEPT ![using[c]] = k]
              /\ picks' = [picks EXCEPT ![using[c]] = Append(@, [query |-> c, target |-> k])]
              /\ pc' = [pc EXCEPT ![c] = IF k < Replicas[c] THEN "running" ELSE "failed"]
              /\ UNCHANGED answer
    /\ UNCHANGED <<plan, manager, built, balancer, using, retried, change, updates, overlapped, faults>>

ReplicaAnswers(q) ==
    /\ pc[q] = "running"
    /\ \/ Settles(q, "rows") /\ UNCHANGED faults
       \/ Fails("replica") /\ pc' = [pc EXCEPT ![q] = "failed"] /\ UNCHANGED answer
    /\ UNCHANGED <<plan, manager, built, balancer, cursor, picks, using, retried, change, updates, overlapped>>

-----------------------------------------------------------------------------
\* Mutant: the old balancer stays the active one.
UpdateButKeep(s) == strategy' = s /\ UNCHANGED active /\ initOf' = 0

\* setStrategy once the old balancer is destroyed, or at once if there is none.
Update(s) == strategy' = s /\ active' = 0 /\ initOf' = 0

Meets(t) == Initialising # {} \/ Changing \ {t} # {} \/ pc["destroy"] # "new"

\* After the change: a query in its fallback asks for the new balancer next.
AfterChange(t) == [pc EXCEPT ![t] = IF t \in Queries THEN "again" ELSE "settled"]

\* setStrategy up to its first await, in a manager that is not destroyed.
BeginChange(t, s) ==
    /\ overlapped' = (overlapped \/ Meets(t))
    /\ IF active # 0
       THEN /\ change' = [change EXCEPT ![t] = [to |-> Validated(s), from |-> strategy, old |-> active]]
            /\ pc' = [pc EXCEPT ![t] = "changing"]
            /\ UNCHANGED <<plan, strategy, active, initOf, updates>>
       ELSE /\ Update(Validated(s)) /\ updates' = updates + 1
            /\ pc' = AfterChange(t)
            /\ UNCHANGED change

\* setStrategy, setCustomLoadBalancer and removeCustomLoadBalancer.
Switch(t) ==
    /\ t \in plan /\ pc[t] = "new"
    /\ \E s \in Requests :
         /\ custom' = (CASE s = "custom" -> TRUE [] s = "uncustom" -> FALSE [] OTHER -> custom)
         /\ IF destroyed
            THEN /\ Settles(t, "rejected")
                 /\ UNCHANGED <<plan, strategy, active, initOf, change, updates, overlapped>>
            ELSE BeginChange(t, s) /\ UNCHANGED answer
    /\ UNCHANGED <<plan, destroyed, built, balancer, cursor, picks, using, retried, faults>>

OldDestroyed(t) ==
    /\ pc[t] = "changing"
    /\ LET ch == change[t] IN
         /\ balancer' = [balancer EXCEPT ![ch.old].state = "destroyed"]
         /\ Update(ch.to) /\ updates' = updates + 1
         /\ overlapped' = (overlapped \/ Meets(t))
    /\ change' = [change EXCEPT ![t] = NoChange]
    /\ pc' = AfterChange(t)
    /\ UNCHANGED <<plan, custom, destroyed, built, cursor, picks, using, retried, answer, faults>>

\* A destroy() that throws: the old configuration is put back.
OldNotDestroyed(t) ==
    /\ pc[t] = "changing"
    /\ LET ch == change[t] IN
         /\ balancer[ch.old].class = "custom"
         /\ strategy' = ch.from /\ active' = ch.old
         /\ overlapped' = (overlapped \/ Meets(t))
    /\ Fails("destroy")
    /\ change' = [change EXCEPT ![t] = NoChange]
    /\ Settles(t, "rejected")
    /\ UNCHANGED <<plan, custom, initOf, destroyed, built, balancer, cursor, picks, using, retried, updates>>

(***************************************************************************)
(* The catch of executeQuery: fall back to round robin once, if enabled.   *)
(* roQuery has returned the promise, so its own catch never runs.          *)
(***************************************************************************)
Catch(c) ==
    /\ pc[c] = "failed"
    /\ IF c \in Queries /\ c \notin retried /\ Fallback /\ strategy # Default /\ ~destroyed
       THEN /\ retried' = retried \cup {c}
            /\ custom' = custom
            /\ BeginChange(c, Default) /\ UNCHANGED answer
       ELSE /\ Settles(c, IF c \in Queries THEN "rejected" ELSE "unhealthy")
            /\ UNCHANGED <<plan, strategy, custom, active, initOf, change, updates, overlapped, retried>>
    /\ UNCHANGED <<plan, destroyed, built, balancer, cursor, picks, using, faults>>

Again(q) ==
    /\ pc[q] = "again"
    /\ IF destroyed
       THEN Settles(q, "rejected") /\ UNCHANGED <<using, initOf, built, balancer, cursor, picks>>
       ELSE GetLoadBalancer(q) /\ UNCHANGED answer
    /\ UNCHANGED <<plan, strategy, custom, active, destroyed, retried, change, updates, overlapped, faults>>

-----------------------------------------------------------------------------
\* Mutant: destroy() does not wait for an initialisation under way.
DestroyAtOnce ==
    /\ "destroy" \in plan /\ pc["destroy"] = "new"
    /\ destroyed' = TRUE
    /\ pc' = [pc EXCEPT !["destroy"] = "cleaning"]
    /\ UNCHANGED <<plan, strategy, custom, active, initOf, built, balancer, cursor, picks, using,
                   retried, answer, change, updates, overlapped, faults>>

\* destroy() up to its first await.
Destroy ==
    /\ "destroy" \in plan /\ pc["destroy"] = "new"
    /\ destroyed' = TRUE
    /\ using' = [using EXCEPT !["destroy"] = initOf]
    /\ pc' = [pc EXCEPT !["destroy"] = IF initOf # 0 THEN "waiting" ELSE "cleaning"]
    /\ overlapped' = (overlapped \/ Changing # {} \/ Initialising \ {initOf} # {})
    /\ UNCHANGED <<plan, strategy, custom, active, initOf, built, balancer, cursor, picks, retried,
                   answer, change, updates, faults>>

\* The rest of destroy(); a custom class may fail to be destroyed.
Clean ==
    /\ pc["destroy"] = "cleaning"
    /\ \/ /\ balancer' = IF active = 0 THEN balancer ELSE [balancer EXCEPT ![active].state = "destroyed"]
          /\ active' = 0 /\ initOf' = 0
          /\ Settles("destroy", "done") /\ UNCHANGED faults
       \/ /\ active # 0 /\ balancer[active].class = "custom"
          /\ Fails("destroy") /\ Settles("destroy", "rejected")
          /\ UNCHANGED <<balancer, active, initOf>>
    /\ UNCHANGED <<plan, strategy, custom, destroyed, built, cursor, picks, using, retried, change,
                   updates, overlapped>>

BalancerStep(b) == InitSucceeds(b) \/ InitFails(b)
CallStep(c) == Route(c) \/ Catch(c) \/ (c \in Queries /\ (ReplicaAnswers(c) \/ Again(c)))
ChangeStep(t) == OldDestroyed(t) \/ OldNotDestroyed(t)

Next ==
    \/ \E c \in Callers : Call(c) \/ CallStep(c)
    \/ \E b \in Balancers : BalancerStep(b)
    \/ \E t \in Switchers : Switch(t)
    \/ \E t \in Queries \cup Switchers : ChangeStep(t)
    \/ Destroy \/ Clean

(***************************************************************************)
(* Calls come when they come; once begun, the event loop continues them,   *)
(* and init(), destroy() and a replica's query settle.                     *)
(***************************************************************************)
Spec == Init /\ [][Next]_vars
FairSpec ==
    /\ Spec
    /\ \A c \in Callers : WF_vars(CallStep(c))
    /\ \A b \in Balancers : WF_vars(BalancerStep(b))
    /\ \A t \in Queries \cup Switchers : WF_vars(ChangeStep(t))
    /\ WF_vars(Clean)

-----------------------------------------------------------------------------
Strategies == {Default, "random", "custom"}
Phases == {"new", "initialising", "waiting", "routed", "running", "failed", "changing", "again",
           "cleaning", "settled"}

Answers == {"none", "rows", "report", "primary", "unhealthy", "rejected", "done"}

ManagerType ==
    /\ plan \in Plans
    /\ strategy \in Strategies /\ custom \in BOOLEAN /\ destroyed \in BOOLEAN
    /\ built \in Nat /\ active \in 0..built /\ initOf \in 0..built
    /\ updates \in Nat /\ overlapped \in BOOLEAN
    /\ faults \in [init : Nat, destroy : Nat, replica : Nat]

BalancerType ==
    /\ balancer \in [1..built -> [strategy : Strategies, class : Strategies,
                                  state : {"initialising", "live", "failed", "destroyed"}]]
    /\ cursor \in [1..built -> Nat]
    /\ picks \in [1..built -> Seq([query : Queries, target : Nat])]

CallType ==
    /\ pc \in [Tasks \cup {"destroy"} -> Phases]
    /\ using \in [Callers \cup {"destroy"} -> 0..built]
    /\ retried \subseteq Queries
    /\ answer \in [Tasks \cup {"destroy"} -> Answers]
    /\ change \in [Tasks -> [to : Strategies \cup {"none"}, from : Strategies \cup {"none"}, old : 0..built]]

\* Type invariant.
TypeOK == ManagerType /\ BalancerType /\ CallType

(***************************************************************************)
(* Round robin gives every query a replica of its own handle, also when    *)
(* handles with different numbers of replicas share the counter; and while *)
(* handles of n replicas alone use it, n picks in a row are n replicas.    *)
(***************************************************************************)
EveryReplicaServes ==
    \A b \in 1..built : balancer[b].class = Default =>
        LET p == picks[b] IN
        /\ \A i \in 1..Len(p) : p[i].target < Replicas[p[i].query]
        /\ (\A i, j \in 1..Len(p) : Replicas[p[i].query] = Replicas[p[j].query]) =>
               \A i, j \in 1..Len(p) :
                   i < j /\ j < i + Replicas[p[i].query] => p[i].target # p[j].target

(***************************************************************************)
(* However many queries arrive together, one balancer is built, and one    *)
(* more only after a change of strategy or a failed initialisation.        *)
(***************************************************************************)
BuiltOnce == built <= 1 + updates + faults.init

(***************************************************************************)
(* Unless a change of strategy overlapped something else, the balancer     *)
(* that serves is the one of the strategy in force, and is not destroyed.  *)
(***************************************************************************)
StrategyInForce ==
    ~overlapped /\ Changing = {} /\ active # 0 =>
        balancer[active].strategy = strategy /\ balancer[active].state = "live"

(***************************************************************************)
(* Under the same condition, a manager whose destroy() resolved leaves no  *)
(* balancer behind with its timers, also when one was being built.         *)
(***************************************************************************)
DestroyLeavesNothing ==
    ~overlapped /\ answer["destroy"] = "done" =>
        \A b \in 1..built : balancer[b].state \in {"failed", "destroyed"}

(***************************************************************************)
(* Every call is answered, whatever happens to balancers meanwhile.        *)
(***************************************************************************)
EveryCallIsAnswered ==
    \A t \in Tasks : pc[t] # "new" ~> pc[t] = "settled"

(***************************************************************************)
(* dbh.js:681: a query the load balancer cannot execute is executed on the *)
(* primary.                                                                *)
(***************************************************************************)
FailedQueriesUseThePrimary == \A q \in Queries : answer[q] # "rejected"

=============================================================================
