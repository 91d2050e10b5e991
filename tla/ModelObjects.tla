---------------------------- MODULE ModelObjects ----------------------------
(***************************************************************************)
(* Instances of a model in the application servers that share its table    *)
(* (lib/obj.js): get() and inflate() with the identity cache, patch() with *)
(* its nonce, patchWithNonceRetry(), remove() and reallyDelete(), about    *)
(* one row.                                                                *)
(*                                                                         *)
(* A step is one segment between awaits; getCachedId() may be overridden   *)
(* to take any time, and reads the cache when it is called.  An instance   *)
(* is abstracted to the version of the row its fields show.  The database  *)
(* is external: get() reads where the row may be older than what patch()   *)
(* reads and writes.                                                       *)
(***************************************************************************)
EXTENDS Naturals, FiniteSets, Sequences

CONSTANTS
    Callers,
    Servers,     \* processes, each with an identity cache of its own
    On,          \* the server each caller runs on
    Plans,       \* per history: the calls each caller may make, one after another
    MaxCalls,    \* bound on the calls of one caller
    MaxBuilt,    \* bound on the instances its calls construct
    MaxFaults,   \* bound on lost connections and failed reads of linked rows
    Lagging,     \* whether the replica that get() reads may lag
    None

Instances == Callers \X (1 .. MaxBuilt)
Nonces == Callers \X (1 .. MaxCalls)
Rows == [ver : Nat, nonce : Nonces \cup {None}]
Gone == [ver |-> 0, nonce |-> None]       \* no row
Blank == Gone                             \* an instance with nothing but its id
FirstRow == [ver |-> 1, nonce |-> None]   \* created, never patched

Ops == {"get", "link", "patch", "retry", "remove", "delete", "clear"}

ASSUME OnAssumption == On \in [Callers -> Servers]
ASSUME PlansAssumption ==
    \A p \in Plans : \A c \in Callers :
        p[c] \in Seq(SUBSET Ops) /\ Len(p[c]) <= MaxCalls
ASSUME BoundsAssumption == {MaxCalls, MaxBuilt, MaxFaults} \subseteq Nat
ASSUME LaggingAssumption == Lagging \in BOOLEAN
ASSUME NoneAssumption == None \notin Instances \cup Nonces

VARIABLES
    plan,        \* the calls each caller may make
    disk,        \* the row on the primary
    replica,     \* the row where get() reads
    version,     \* history: writes so far
    cache,       \* OBJECT_INSTANCE_CACHE[className][id] per server
    shows,       \* what the fields of each instance hold
    call,        \* per caller: its current or last call
    overlapped,  \* history: servers on which two first loads overlapped
    dropped,     \* history: servers whose cache entry was removed
    faulted,     \* history: what has failed, "link" reads or "connection"s
    faults

store   == <<disk, replica, version>>
objects == <<cache, shows>>
history == <<overlapped, dropped, faulted>>
vars    == <<plan, store, objects, call, history, faults>>

(***************************************************************************)
(* The local variables of a call.  The last four are history: what ref     *)
(* showed and `version` when patch() began, the UPDATEs applied for the    *)
(* call, and how it ended.                                                 *)
(***************************************************************************)
NoCall ==
    [pc |-> "idle", op |-> "get", made |-> 0, built |-> 0, ref |-> None, row |-> Blank,
     seen |-> None, memoryNonce |-> None, reconnected |-> FALSE,
     base |-> Blank, since |-> 0, writes |-> 0, outcome |-> "none"]

Init ==
    /\ plan \in Plans
    /\ disk = FirstRow /\ replica = FirstRow /\ version = 1
    /\ cache = [s \in Servers |-> None]
    /\ shows = [i \in Instances |-> Blank]
    /\ call = [c \in Callers |-> NoCall]
    /\ overlapped = {} /\ dropped = {} /\ faulted = {}
    /\ faults = 0

At(c, phase) == call[c].pc = phase
Goto(c, phase) == call' = [call EXCEPT ![c].pc = phase]
Cached(c) == cache[On[c]]
SetCached(c, i) == cache' = [cache EXCEPT ![On[c]] = i]
Fault(what) ==
    faults < MaxFaults /\ faults' = faults + 1 /\ faulted' = faulted \cup {what}

\* A call ends; what its local variables held is forgotten.
Ended(c, ref, outcome) ==
    [NoCall EXCEPT !.op = call[c].op, !.made = call[c].made,
                   !.built = call[c].built, !.ref = ref, !.reconnected = call[c].reconnected,
                   !.writes = call[c].writes, !.outcome = outcome]

End(c, ref, outcome) == call' = [call EXCEPT ![c] = Ended(c, ref, outcome)]

\* A caller may make its next call.
Ready(c, what) ==
    At(c, "idle") /\ call[c].made < Len(plan[c]) /\ what \in plan[c][call[c].made + 1]

Begun(c, what, phase) ==
    [NoCall EXCEPT !.pc = phase, !.op = what, !.made = call[c].made + 1,
                   !.built = call[c].built, !.ref = call[c].ref]

-----------------------------------------------------------------------------
(***************************************************************************)
(* get(): with allowCached, as for a linked row, the cached instance if    *)
(* there is one; otherwise the row is read and inflated.                   *)
(***************************************************************************)
Get(c) ==
    /\ \E what \in {"get", "link"} :
         /\ Ready(c, what)
         /\ IF what = "link" /\ Cached(c) # None
            THEN call' = [call EXCEPT ![c] =
                            [Begun(c, what, "idle") EXCEPT !.ref = Cached(c), !.outcome = "ok"]]
            ELSE call' = [call EXCEPT ![c] = [Begun(c, what, "read") EXCEPT !.ref = None]]
    /\ UNCHANGED <<plan, store, objects, history, faults>>

\* The row arrives; there is none: null, on which patchWithNonceRetry throws.
Read(c) ==
    /\ At(c, "read")
    /\ IF replica = Gone
       THEN End(c, None, "null")
       ELSE call' = [call EXCEPT ![c].row = replica, ![c].pc = "lookup"]
    /\ UNCHANGED <<plan, store, objects, history, faults>>

Loading(c) == {d \in Callers \ {c} : On[d] = On[c] /\ call[d].pc \in {"construct", "register"}}

\* inflate() asks for the cached instance ...
Lookup(c) ==
    /\ At(c, "lookup")
    /\ call' = [call EXCEPT ![c].seen = Cached(c), ![c].pc = "construct"]
    /\ overlapped' = IF Cached(c) = None /\ Loading(c) # {}
                     THEN overlapped \cup {On[c]} ELSE overlapped
    /\ UNCHANGED <<plan, store, objects, dropped, faulted, faults>>

\* The instances that have been constructed, and where.
Built(i) == i[2] <= call[i[1]].built
Home(i) == On[i[1]]

\* `new this(...)`: an instance with blank fields.
New(c) == <<c, call[c].built + 1>>
Constructed(c) ==
    /\ call[c].built < MaxBuilt
    /\ call' = [call EXCEPT ![c].built = @ + 1, ![c].ref = New(c), ![c].seen = Cached(c),
                            ![c].pc = "register"]

\* Mutant: every load constructs an instance of its own.
ConstructAnew(c) ==
    /\ At(c, "construct")
    /\ Constructed(c)
    /\ UNCHANGED <<plan, store, objects, history, faults>>

\* ... and constructs one if there was none, which it is about to register.
Construct(c) ==
    /\ At(c, "construct")
    /\ IF call[c].seen # None
       THEN call' = [call EXCEPT ![c].ref = call[c].seen, ![c].seen = None, ![c].pc = "inflate"]
       ELSE Constructed(c)
    /\ UNCHANGED <<plan, store, objects, history, faults>>

(***************************************************************************)
(* setCachedId(): the fields are copied into the instance that was cached  *)
(* when it looked, otherwise the instance becomes the cached one.          *)
(***************************************************************************)
SetCachedId(c) ==
    IF call[c].seen # None
    THEN /\ shows' = [shows EXCEPT ![call[c].seen] = shows[call[c].ref]]
         /\ UNCHANGED cache
    ELSE SetCached(c, call[c].ref) /\ UNCHANGED shows

Register(c) ==
    /\ At(c, "register")
    /\ SetCachedId(c)
    /\ call' = [call EXCEPT ![c].seen = None, ![c].pc = "inflate"]
    /\ UNCHANGED <<plan, store, history, faults>>

\* inflateValues() answers: the fields are assigned, the cache is looked up again.
Inflate(c) ==
    /\ At(c, "inflate")
    /\ shows' = [shows EXCEPT ![call[c].ref] = call[c].row]
    /\ call' = [call EXCEPT ![c].seen = Cached(c), ![c].row = Blank, ![c].pc = "store"]
    /\ UNCHANGED <<plan, store, cache, history, faults>>

\* Reading a linked row fails: inflateValues() rejects, and so does the call.
InflateFails(c) ==
    /\ At(c, "inflate") /\ Fault("link")
    /\ End(c, IF call[c].op \in {"get", "link"} THEN None ELSE call[c].ref, "failed")
    /\ UNCHANGED <<plan, store, objects, overlapped, dropped>>

\* The freshened instance is back in the cache.
Store(c) ==
    /\ At(c, "store")
    /\ SetCachedId(c)
    /\ IF call[c].op = "reload"
       THEN call' = [call EXCEPT ![c].seen = None, ![c].pc = "ask"]
       ELSE End(c, call[c].ref, "ok")
    /\ UNCHANGED <<plan, store, history, faults>>

-----------------------------------------------------------------------------
\* patch() captures the nonce in memory before it asks for the one on disk.
Attempt(c, begun) ==
    [begun EXCEPT !.pc = "check", !.memoryNonce = shows[call[c].ref].nonce,
                  !.base = shows[call[c].ref], !.since = version]

Drop(c) == SetCached(c, None) /\ dropped' = dropped \cup {On[c]}

\* patch(), patchWithNonceRetry(); remove() first takes the id out of the cache.
Patch(c) ==
    /\ call[c].ref # None
    /\ \E what \in {"patch", "retry", "remove"} :
         /\ Ready(c, what)
         /\ call' = [call EXCEPT ![c] = Attempt(c, Begun(c, what, "check"))]
         /\ IF what = "remove" THEN Drop(c) ELSE UNCHANGED <<cache, dropped>>
    /\ UNCHANGED <<plan, store, shows, overlapped, faulted, faults>>

\* Mutant: an instance without a nonce is not compared.
MismatchIfBoth(c) ==
    /\ disk.nonce # None /\ call[c].memoryNonce # None
    /\ disk.nonce # call[c].memoryNonce

\* The nonces differ; a row that has none yet matches any.
Mismatch(c) == disk.nonce # None /\ disk.nonce # call[c].memoryNonce

\* No row: destructuring the empty answer throws.
CheckGone(c) ==
    /\ At(c, "check") /\ disk = Gone
    /\ End(c, call[c].ref, "failed")
    /\ UNCHANGED <<plan, store, objects, history, faults>>

CheckPasses(c) ==
    /\ At(c, "check") /\ disk # Gone /\ ~Mismatch(c)
    /\ Goto(c, "update")
    /\ UNCHANGED <<plan, store, objects, history, faults>>

\* ERR_NONCE: patchWithNonceRetry waits, unless its time is up.
CheckRefuses(c) ==
    /\ At(c, "check") /\ disk # Gone /\ Mismatch(c)
    /\ \/ call[c].op = "retry" /\ Goto(c, "delay")
       \/ End(c, call[c].ref, "refused")
    /\ UNCHANGED <<plan, store, objects, history, faults>>

\* Mutant: ... then takes the instance from the cache ...
ReloadCached(c) ==
    /\ At(c, "delay")
    /\ call' = [call EXCEPT ![c].op = "reload",
                   ![c].ref = IF Cached(c) = None THEN @ ELSE Cached(c), ![c].pc = "ask"]
    /\ UNCHANGED <<plan, store, objects, history, faults>>

\* ... then loads fresh data with get() ...
Reload(c) ==
    /\ At(c, "delay")
    /\ call' = [call EXCEPT ![c].op = "reload", ![c].ref = None, ![c].pc = "read"]
    /\ UNCHANGED <<plan, store, objects, history, faults>>

\* ... and, if shouldRetry() agrees, patches what it got.
AskShouldRetry(c) ==
    /\ At(c, "ask")
    /\ \/ call' = [call EXCEPT ![c] = Attempt(c, [call[c] EXCEPT !.op = "retry"])]
       \/ End(c, call[c].ref, "abandoned")
    /\ UNCHANGED <<plan, store, objects, history, faults>>

\* dbh.patch(): the UPDATE, which touches nothing when the row is gone ...
Update(c) ==
    LET nonce == <<c, call[c].made>> IN
    /\ At(c, "update")
    /\ IF disk = Gone \/ disk.nonce = nonce
       THEN UNCHANGED store
       ELSE /\ version' = version + 1
            /\ disk' = [ver |-> version', nonce |-> nonce]
            /\ replica' = IF Lagging THEN replica ELSE disk'
    /\ call' = [call EXCEPT ![c].pc = "select", ![c].writes = IF disk = Gone THEN @ ELSE @ + 1]
    /\ UNCHANGED <<plan, objects, history, faults>>

\* ... and the row as it then is, from which _updateProperties() takes the fields.
Select(c) ==
    /\ At(c, "select")
    /\ IF disk = Gone
       THEN End(c, call[c].ref, "gone")
       ELSE call' = [call EXCEPT ![c].row = disk, ![c].pc = "inflate"]
    /\ UNCHANGED <<plan, store, objects, history, faults>>

\* Mutant: patchWithNonceRetry takes a lost connection for a failed comparison.
LostIsRefused(c) ==
    /\ call[c].pc \in {"update", "select"} /\ Fault("connection")
    /\ IF call[c].op = "retry"
       THEN Goto(c, "delay")
       ELSE End(c, call[c].ref, "failed")
    /\ UNCHANGED <<plan, store, objects, overlapped, dropped>>

(***************************************************************************)
(* The connection is lost before or behind the UPDATE: retryIfConnection-  *)
(* Lost makes the same dbh.patch() once more, without the comparison.      *)
(***************************************************************************)
ConnectionLost(c) ==
    /\ call[c].pc \in {"update", "select"} /\ Fault("connection")
    /\ IF call[c].reconnected
       THEN End(c, call[c].ref, "failed")
       ELSE call' = [call EXCEPT ![c].reconnected = TRUE, ![c].pc = "update"]
    /\ UNCHANGED <<plan, store, objects, overlapped, dropped>>

-----------------------------------------------------------------------------
\* reallyDelete() takes the id out of the cache, then deletes the row.
ReallyDelete(c) ==
    /\ Ready(c, "delete") /\ call[c].ref # None
    /\ call' = [call EXCEPT ![c] = Begun(c, "delete", "delete")]
    /\ Drop(c)
    /\ UNCHANGED <<plan, store, shows, overlapped, faulted, faults>>

DeleteRow(c) ==
    /\ At(c, "delete")
    /\ disk' = Gone /\ replica' = (IF Lagging THEN replica ELSE Gone)
    /\ End(c, call[c].ref, "ok")
    /\ UNCHANGED <<plan, version, objects, history, faults>>

\* clearCache()
ClearCache(c) ==
    /\ Ready(c, "clear")
    /\ call' = [call EXCEPT ![c] = [Begun(c, "clear", "idle") EXCEPT !.outcome = "ok"]]
    /\ Drop(c)
    /\ UNCHANGED <<plan, store, shows, overlapped, faulted, faults>>

\* The replica catches up.
Replicate ==
    /\ replica # disk
    /\ replica' = disk
    /\ UNCHANGED <<plan, disk, version, objects, call, history, faults>>

-----------------------------------------------------------------------------
\* What a call does once it has begun.
Proceed(c) ==
    \/ Read(c)
    \/ Lookup(c)
    \/ Construct(c)
    \/ Register(c)
    \/ Inflate(c)
    \/ InflateFails(c)
    \/ Store(c)
    \/ CheckGone(c)
    \/ CheckPasses(c)
    \/ CheckRefuses(c)
    \/ Reload(c)
    \/ AskShouldRetry(c)
    \/ Update(c)
    \/ Select(c)
    \/ ConnectionLost(c)
    \/ DeleteRow(c)

Step(c) ==
    \/ Proceed(c)
    \/ Get(c)
    \/ Patch(c)
    \/ ReallyDelete(c)
    \/ ClearCache(c)

Next == Replicate \/ \E c \in Callers : Step(c)

Spec == Init /\ [][Next]_vars

(***************************************************************************)
(* Statements are answered or fail, timers fire, callbacks settle; the     *)
(* replica catches up.                                                     *)
(***************************************************************************)
Fairness == WF_vars(Replicate) /\ \A c \in Callers : WF_vars(Proceed(c))

FairSpec == Spec /\ Fairness

-----------------------------------------------------------------------------

Phases == {"idle", "read", "lookup", "construct", "register", "inflate", "store",
           "check", "delay", "ask", "update", "select", "delete"}
Outcomes == {"none", "ok", "null", "failed", "refused", "abandoned", "gone"}
Locals ==
    [pc : Phases, op : Ops \cup {"reload"}, made : 0 .. MaxCalls, built : 0 .. MaxBuilt,
     ref : Instances \cup {None}, row : Rows, seen : Instances \cup {None},
     memoryNonce : Nonces \cup {None}, reconnected : BOOLEAN,
     base : Rows, since : Nat, writes : Nat, outcome : Outcomes]

(***************************************************************************)
(* The variables hold what the code can store in them; whoever inflates    *)
(* has a row, and whoever patches an instance.                             *)
(***************************************************************************)
TypeOK ==
    /\ plan \in Plans
    /\ disk \in Rows /\ replica \in Rows
    /\ version \in Nat
    /\ cache \in [Servers -> Instances \cup {None}]
    /\ shows \in [Instances -> Rows]
    /\ call \in [Callers -> Locals]
    /\ \A c \in Callers :
         /\ call[c].pc \in {"lookup", "construct", "register", "inflate"} => call[c].row # Gone
         /\ call[c].pc \in Phases \ {"idle", "read", "lookup", "construct"} => call[c].ref # None
    /\ overlapped \subseteq Servers /\ dropped \subseteq Servers
    /\ faulted \subseteq {"link", "connection"}
    /\ faults \in 0 .. MaxFaults

\* In this step the UPDATE of c's patch is applied for the first time.
FirstUpdate(c) == call[c].writes = 0 /\ call'[c].writes = 1

(***************************************************************************)
(* README.md, 1167: a patch through an instance that did not show the      *)
(* current row when the call began, because another server wrote, a        *)
(* replica lagged or an older read arrived late, is refused: what it       *)
(* overwrites was shown to it or was written during the call.  A patch     *)
(* repeated after a lost connection can bring an old nonce back.           *)
(***************************************************************************)
StalePatchRefused ==
    [][\A c \in Callers :
          FirstUpdate(c) /\ disk.nonce # None /\ "connection" \notin faulted =>
              disk.ver = call[c].base.ver \/ disk.ver > call[c].since]_vars

(***************************************************************************)
(* README.md, 1167: when a patch is applied, the nonce in memory equals    *)
(* the one stored on disk.  (Not so for two patches at once: README.)      *)
(***************************************************************************)
NonceEqualsDisk ==
    [][\A c \in Callers :
          FirstUpdate(c) /\ disk.nonce # None => disk.nonce = call[c].memoryNonce]_vars

(***************************************************************************)
(* lib/obj.js, 80-82: instance caching.  All callers of one server share   *)
(* one instance of the row, unless the id was taken out of the cache or    *)
(* two loads overlapped before the first was registered; and the reference *)
(* that is given out while its row is being inflated "will eventually get  *)
(* filled in" (641-644): some load is about to fill every blank instance,  *)
(* unless an inflation has failed or one of several instances was copied   *)
(* over another.                                                           *)
(***************************************************************************)
Undisturbed(s) == s \notin dropped \cup overlapped
OneInstancePerId ==
    \A i \in {k \in Instances : Built(k) /\ Undisturbed(Home(k))} :
        /\ \A j \in Instances : Built(j) /\ Home(i) = Home(j) => i = j
        /\ shows[i] = Blank /\ "link" \notin faulted =>
              \E c \in Callers : call[c].ref = i /\ call[c].pc \in {"register", "inflate"}

(***************************************************************************)
(* lib/obj.js, 1651-1662: however often patchWithNonceRetry tries and the  *)
(* connection breaks, a call that reports ERR_NONCE or that shouldRetry    *)
(* stopped has written nothing, one that succeeded has written, and only   *)
(* retryIfConnectionLost writes a second time.                             *)
(***************************************************************************)
PatchAppliedOnce ==
    \A c \in Callers :
        /\ call[c].writes > 1 => call[c].reconnected
        /\ call[c].outcome \in {"refused", "abandoned"} => call[c].writes = 0
        /\ call[c].outcome = "ok" /\ call[c].op \in {"patch", "retry", "remove"} =>
               call[c].writes > 0

(***************************************************************************)
(* Every call ends, even one that retries without a time limit: as soon as *)
(* the others stop writing, the freshly loaded nonce matches.              *)
(***************************************************************************)
EveryCallEnds == \A c \in Callers : ~At(c, "idle") ~> At(c, "idle")

=============================================================================
