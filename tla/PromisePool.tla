---------------------------- MODULE PromisePool ----------------------------
(***************************************************************************)
(* promisePoolMap (lib/promiseMap.js): a callback is applied to the items  *)
(* of a list by a fixed number of chains that draw from one counter.  Its  *)
(* sequential sibling promiseMap is the pool of one chain that throws.     *)
(* Callbacks are asynchronous: a chain's code between two awaits is a step.*)
(***************************************************************************)
EXTENDS Naturals, Sequences, FiniteSets

CONSTANTS
    Total,    \* list.length
    Options   \* the options a call may carry

ASSUME TotalAssumption == Total \in Nat
ASSUME OptionsAssumption ==
    Options \subseteq [concurrency : Nat, throwErrors : BOOLEAN, yieldEvery : Nat]

VARIABLES
    opts,            \* the options of this call
    nextIndex,       \* the next item nobody has drawn
    completedCount,  \* callbacks that returned
    chain,           \* per chain: what it awaits
    drawn,           \* per chain: the item it last drew
    results,         \* items whose result is stored
    poolErrors,          \* items whose callback threw, in the order they threw
    calls,           \* how often the callback was called on each item
    answer           \* what the caller has been told

poolVars == <<opts, nextIndex, completedCount, chain, drawn, results, poolErrors, calls, answer>>

Items == 0..Total - 1
Chains == 1..Total

\* promiseMap: in sequence, and the first error ends it.
Sequential(yieldEvery) == [concurrency |-> 1, throwErrors |-> TRUE, yieldEvery |-> yieldEvery]

Started == {c \in Chains : c <= opts.concurrency}

Pending == [is |-> "pending"]
Fulfilled == [is |-> "fulfilled"]
Rejected(i) == [is |-> "rejected", item |-> i]

PoolInit ==
    /\ opts \in Options
    /\ nextIndex = 0 /\ completedCount = 0
    /\ chain = [c \in Chains |-> "new"]
    /\ drawn = [c \in Chains |-> 0]
    /\ results = {} /\ poolErrors = <<>>
    /\ calls = [i \in Items |-> 0]
    /\ answer = Pending

\* Mutant: the counter moves only after the callback's first await.
DrawLate(c) ==
    IF nextIndex < Total
    THEN /\ nextIndex' = IF \E o \in Chains \ {c} : chain[o] = "new" /\ o \in Started
                         THEN nextIndex ELSE nextIndex + 1
         /\ chain' = [chain EXCEPT ![c] = "calling"]
         /\ drawn' = [drawn EXCEPT ![c] = nextIndex]
         /\ calls' = [calls EXCEPT ![nextIndex] = @ + 1]
    ELSE /\ chain' = [chain EXCEPT ![c] = "returned"]
         /\ UNCHANGED <<nextIndex, drawn, calls>>

\* `while (nextIndex < list.length)`: draw the next item and call, or return.
Draw(c) ==
    IF nextIndex < Total
    THEN /\ nextIndex' = nextIndex + 1
         /\ chain' = [chain EXCEPT ![c] = "calling"]
         /\ drawn' = [drawn EXCEPT ![c] = nextIndex]
         /\ calls' = [calls EXCEPT ![nextIndex] = @ + 1]
    ELSE /\ chain' = [chain EXCEPT ![c] = "returned"]
         /\ UNCHANGED <<nextIndex, drawn, calls>>

\* Array(min(concurrency, length)).map(() => executeNext()).
Start(c) ==
    /\ c \in Started /\ chain[c] = "new"
    /\ \A o \in Chains : o < c => chain[o] # "new"
    /\ Draw(c)
    /\ UNCHANGED <<opts, completedCount, results, poolErrors, answer>>

\* The end of an iteration: give way to the event loop now and then.
YieldOrDraw(c, done) ==
    IF opts.yieldEvery > 0 /\ done % opts.yieldEvery = 0
    THEN /\ chain' = [chain EXCEPT ![c] = "yielding"]
         /\ UNCHANGED <<nextIndex, drawn, calls>>
    ELSE Draw(c)

AllStarted == \A c \in Started : chain[c] # "new"

CallbackReturns(c) ==
    /\ AllStarted /\ chain[c] = "calling"
    /\ results' = results \cup {drawn[c]}
    /\ completedCount' = completedCount + 1
    /\ YieldOrDraw(c, completedCount + 1)
    /\ UNCHANGED <<opts, poolErrors, answer>>

\* Mutant: an error ends its chain in the collecting mode too.
CallbackThrowsAndStops(c) ==
    /\ AllStarted /\ chain[c] = "calling"
    /\ poolErrors' = Append(poolErrors, drawn[c])
    /\ chain' = [chain EXCEPT ![c] = IF opts.throwErrors THEN "threw" ELSE "returned"]
    /\ answer' = IF opts.throwErrors /\ answer = Pending THEN Rejected(drawn[c]) ELSE answer
    /\ UNCHANGED <<opts, nextIndex, completedCount, drawn, results, calls>>

\* Promise.all settles with the first chain that rejects; the others go on.
CallbackThrows(c) ==
    /\ AllStarted /\ chain[c] = "calling"
    /\ poolErrors' = Append(poolErrors, drawn[c])
    /\ IF opts.throwErrors
       THEN /\ chain' = [chain EXCEPT ![c] = "threw"]
            /\ answer' = IF answer = Pending THEN Rejected(drawn[c]) ELSE answer
            /\ UNCHANGED <<nextIndex, drawn, calls>>
       ELSE YieldOrDraw(c, completedCount) /\ UNCHANGED answer
    /\ UNCHANGED <<opts, completedCount, results>>

Resume(c) ==
    /\ AllStarted /\ chain[c] = "yielding"
    /\ Draw(c)
    /\ UNCHANGED <<opts, completedCount, results, poolErrors, answer>>

\* Mutant: Promise.race instead of Promise.all.
AChainReturned == Started = {} \/ \E c \in Started : chain[c] = "returned"

\* Every chain returned: the first error collected is thrown, if there is one.
ChainsReturned == \A c \in Started : chain[c] = "returned"

Settle ==
    /\ answer = Pending /\ ChainsReturned
    /\ answer' = IF poolErrors # <<>> THEN Rejected(Head(poolErrors)) ELSE Fulfilled
    /\ UNCHANGED <<opts, nextIndex, completedCount, chain, drawn, results, poolErrors, calls>>

PoolNext ==
    \/ Settle
    \/ \E c \in Chains : Start(c) \/ CallbackReturns(c) \/ CallbackThrows(c) \/ Resume(c)

(***************************************************************************)
(* The event loop runs every chain that can go on, and every callback      *)
(* settles (queries have a driver timeout).                                *)
(***************************************************************************)
PoolSpec == PoolInit /\ [][PoolNext]_poolVars
PoolFairSpec ==
    /\ PoolSpec
    /\ WF_poolVars(Settle)
    /\ \A c \in Chains :
         WF_poolVars(Start(c)) /\ WF_poolVars(Resume(c)) /\ WF_poolVars(CallbackReturns(c) \/ CallbackThrows(c))

-----------------------------------------------------------------------------
Thrown == {poolErrors[k] : k \in 1..Len(poolErrors)}
Running == {c \in Chains : chain[c] \in {"calling", "yielding"}}

\* Type invariant.
PoolTypeOK ==
    /\ opts \in Options
    /\ nextIndex \in 0..Total /\ completedCount \in Nat
    /\ chain \in [Chains -> {"new", "calling", "yielding", "returned", "threw"}]
    /\ drawn \in [Chains -> Nat]
    /\ results \subseteq Items /\ poolErrors \in Seq(Items)
    /\ calls \in [Items -> Nat]
    /\ answer \in {Pending, Fulfilled} \cup {Rejected(i) : i \in Items}

(***************************************************************************)
(* The callback is called at most once on an item, on the items drawn so   *)
(* far and on no other, whichever chains draw them and whenever they yield:*)
(* inflation never runs a row twice.                                       *)
(***************************************************************************)
EachItemOnce == \A i \in Items : calls[i] = IF i < nextIndex THEN 1 ELSE 0

(***************************************************************************)
(* What the caller is told.  A list it receives has a result at every      *)
(* place; an error is of an item that did throw, and the first that did;   *)
(* and unless errors are thrown at once, no callback runs any more and     *)
(* none was left out.  A pool of no chains is the exception: it resolves   *)
(* an unfilled list without calling anything.                              *)
(***************************************************************************)
AnswerIsComplete ==
    /\ answer = Fulfilled /\ opts.concurrency > 0 => results = Items /\ poolErrors = <<>>
    /\ answer.is = "rejected" => poolErrors # <<>> /\ answer.item = Head(poolErrors)
    /\ answer # Pending /\ ~opts.throwErrors =>
         /\ Running = {}
         /\ opts.concurrency > 0 => results \cup Thrown = Items

(***************************************************************************)
(* Every item is tried, errors or not, unless every chain was ended by an  *)
(* error of its own; and the caller always hears an answer.                *)
(***************************************************************************)
EveryItemIsTried ==
    <>[](/\ answer # Pending
         /\ \/ results \cup Thrown = Items
            \/ \A c \in Started : chain[c] = "threw")

=============================================================================
