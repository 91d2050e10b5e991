------------------------------ MODULE SyncProofs ------------------------------
(***************************************************************************)
(* Proofs about SchemaSync, for any definitions, rows, servers, syncs and  *)
(* faults, and about PromisePool, the pool that the scripts and the sync   *)
(* run their lists through.                                                *)
(***************************************************************************)
EXTENDS SchemaSync, PromisePool, FiniteSetTheorems, SequenceTheorems, TLAPS

-----------------------------------------------------------------------------
(* Lists and finite sets                                                   *)

\* A set of natural numbers that is not empty has a least element.
LEMMA LeastNumber ==
    ASSUME NEW S, S \subseteq Nat, S # {}
    PROVE  \E c \in S : \A d \in S : c <= d
<1>1. PICK c \in S : \A d \in S : <<d, c>> \notin OpToRel(<, Nat)
  BY WFMin, NatLessThanWellFounded, Zenon
<1>2. \A d \in S : ~(d < c)
  BY <1>1, Zenon DEF OpToRel
<1>. QED
  BY <1>2

\* The lists that flattenings are made of.
Flattened(s, m, g) == g = [i \in 1 .. m |-> IF i = 1 THEN s[i] ELSE g[i - 1] \o s[i]]

\* The recursion of FlattenSeq has a solution up to every length.
LEMMA FlattenedExists ==
    ASSUME NEW T, NEW s, NEW n \in Nat, \A i \in 1 .. n : s[i] \in Seq(T)
    PROVE  \A m \in 1 .. n : \E g \in [1 .. m -> Seq(T)] : Flattened(s, m, g)
<1> DEFINE B == {m \in 1 .. n : ~\E g \in [1 .. m -> Seq(T)] : Flattened(s, m, g)}
<1>1. SUFFICES ASSUME B # {} PROVE FALSE
  OBVIOUS
<1>2. B \subseteq Nat
  OBVIOUS
<1> HIDE DEF B
<1>3. PICK m \in B : \A d \in B : m <= d
  BY <1>1, <1>2, LeastNumber
<1>4. /\ m \in 1 .. n
      /\ ~\E g \in [1 .. m -> Seq(T)] : Flattened(s, m, g)
  BY DEF B
<1>5. m \in Nat /\ 1 <= m
  BY <1>4
<1>6. CASE m = 1
  <2> DEFINE g == [i \in 1 .. 1 |-> s[i]]
  <2>1. g \in [1 .. 1 -> Seq(T)]
    BY <1>4
  <2>2. Flattened(s, 1, g)
    BY DEF Flattened
  <2>. QED
    BY <1>4, <1>6, <2>1, <2>2
<1>7. CASE m # 1
  <2>1. m - 1 \in 1 .. n /\ m - 1 \notin B
    BY <1>2, <1>3, <1>4, <1>5, <1>7
  <2>2. PICK h \in [1 .. m - 1 -> Seq(T)] : Flattened(s, m - 1, h)
    BY <2>1 DEF B
  <2> DEFINE joined == h[m - 1] \o s[m]
             g == [i \in 1 .. m |-> IF i = m THEN joined ELSE h[i]]
  <2>3. joined \in Seq(T)
    <3>1. h[m - 1] \in Seq(T) /\ s[m] \in Seq(T)
      BY <1>4, <2>1, <2>2
    <3>. QED
      BY <3>1
  <2>3a. joined = h[m - 1] \o s[m]
    OBVIOUS
  <2> HIDE DEF joined
  <2>4. g \in [1 .. m -> Seq(T)]
    BY <1>4, <2>2, <2>3
  <2>5. \A i \in 1 .. m : g[i] = IF i = 1 THEN s[i] ELSE g[i - 1] \o s[i]
    <3>1. \A i \in 1 .. m - 1 : h[i] = IF i = 1 THEN s[i] ELSE h[i - 1] \o s[i]
      BY <2>2 DEF Flattened
    <3>2. \A i \in 1 .. m - 1 : g[i] = h[i]
      BY <1>5
    <3>3. \A i \in 1 .. m - 1 : i # 1 => i - 1 \in 1 .. m - 1
      BY <1>5
    <3>4. \A i \in 1 .. m - 1 : g[i] = IF i = 1 THEN s[i] ELSE g[i - 1] \o s[i]
      <4>1. SUFFICES ASSUME NEW i \in 1 .. m - 1
                     PROVE  g[i] = IF i = 1 THEN s[i] ELSE g[i - 1] \o s[i]
        OBVIOUS
      <4>2. CASE i = 1
        BY <3>1, <3>2, <4>2, Zenon
      <4>3. CASE i # 1
        <5>1. g[i - 1] = h[i - 1] /\ g[i] = h[i]
          BY <3>2, <3>3, <4>3, Zenon
        <5>. QED
          BY <3>1, <4>3, <5>1, Zenon
      <4>. QED
        BY <4>2, <4>3
    <3>5. g[m] = g[m - 1] \o s[m]
      <4>1. g[m] = joined
        BY <1>5
      <4>2. g[m - 1] = h[m - 1]
        BY <1>5, <1>7, <3>2
      <4>. QED
        BY <2>3a, <4>1, <4>2, Zenon
    <3> HIDE DEF g
    <3>. QED
      <4>1. \A i \in 1 .. m : i = m \/ i \in 1 .. m - 1
        BY <1>5
      <4>. QED
        BY <1>7, <3>4, <3>5, <4>1, Zenon
  <2>6. Flattened(s, m, g)
    BY <2>4, <2>5 DEF Flattened
  <2>. QED
    BY <1>4, <2>4, <2>6
<1>. QED
  BY <1>6, <1>7

\* FlattenSeq is the last of these lists.
LEMMA FlattenSeqSteps ==
    ASSUME NEW T, NEW s \in Seq(Seq(T)), s # <<>>
    PROVE  /\ Len(s) \in Nat /\ 1 <= Len(s)
           /\ \E f \in [1 .. Len(s) -> Seq(T)] : Flattened(s, Len(s), f) /\ FlattenSeq(s) = f[Len(s)]
<1> DEFINE n == Len(s)
           f == CHOOSE g : g = [i \in 1 .. n |-> IF i = 1 THEN s[i] ELSE g[i - 1] \o s[i]]
<1>1. n \in Nat /\ 1 <= n /\ \A i \in 1 .. n : s[i] \in Seq(T)
  OBVIOUS
<1>2. PICK g \in [1 .. n -> Seq(T)] : Flattened(s, n, g)
  <2>1. n \in 1 .. n
    BY <1>1
  <2>. QED
    BY <1>1, <2>1, FlattenedExists
<1>3. f = [i \in 1 .. n |-> IF i = 1 THEN s[i] ELSE f[i - 1] \o s[i]]
  BY <1>2, Zenon DEF Flattened
<1>4. FlattenSeq(s) = f[n]
  <2>1. Len(s) # 0
    BY <1>1
  <2>. QED
    BY <2>1, Zenon DEF FlattenSeq
<1> HIDE DEF f
<1> DEFINE B == {i \in 1 .. n : f[i] \notin Seq(T)}
<1>5. B = {}
  <2>1. SUFFICES ASSUME B # {} PROVE FALSE
    OBVIOUS
  <2>2. B \subseteq Nat
    BY <1>1
  <2> HIDE DEF B
  <2>3. PICK m \in B : \A d \in B : m <= d
    BY <2>1, <2>2, LeastNumber
  <2>4. m \in 1 .. n /\ f[m] \notin Seq(T)
    BY DEF B
  <2>5. m # 1
    BY <1>1, <1>3, <2>4
  <2>6. m - 1 \in 1 .. n /\ m - 1 \notin B
    BY <1>1, <2>2, <2>3, <2>4, <2>5
  <2>7. f[m - 1] \in Seq(T)
    BY <2>6 DEF B
  <2>8. f[m] = f[m - 1] \o s[m]
    BY <1>3, <2>4, <2>5
  <2>. QED
    BY <1>1, <2>4, <2>7, <2>8
<1>6. f \in [1 .. n -> Seq(T)]
  <2>1. \A i \in 1 .. n : f[i] \in Seq(T)
    BY <1>5
  <2>. QED
    BY <1>3, <2>1
<1>. QED
  BY <1>1, <1>3, <1>4, <1>6 DEF Flattened

LEMMA FlattenSeqOfNone ==
    ASSUME NEW s, s = <<>>
    PROVE  FlattenSeq(s) = <<>>
  BY DEF FlattenSeq

\* What <<>> and the parts satisfy and joining preserves, FlattenSeq satisfies.
LEMMA FlattenSeqIn ==
    ASSUME NEW T, NEW Q, Q \subseteq Seq(T), <<>> \in Q, \A a, b \in Q : a \o b \in Q,
           NEW s \in Seq(Q)
    PROVE  FlattenSeq(s) \in Q
<1>1. CASE s = <<>>
  BY <1>1, FlattenSeqOfNone
<1>2. CASE s # <<>>
  <2>1. s \in Seq(Seq(T)) /\ \A i \in 1 .. Len(s) : s[i] \in Q
    <3>1. s \in Seq(Seq(T))
      BY SeqMonotonic
    <3>. QED
      BY <3>1
  <2>2. Len(s) \in Nat /\ 1 <= Len(s)
    BY <1>2, <2>1, FlattenSeqSteps
  <2>3. PICK f \in [1 .. Len(s) -> Seq(T)] : Flattened(s, Len(s), f) /\ FlattenSeq(s) = f[Len(s)]
    BY <1>2, <2>1, FlattenSeqSteps
  <2>4. \A i \in 1 .. Len(s) : f[i] = IF i = 1 THEN s[i] ELSE f[i - 1] \o s[i]
    BY <2>3 DEF Flattened
  <2> DEFINE B == {i \in 1 .. Len(s) : f[i] \notin Q}
  <2>5. B = {}
    <3>1. SUFFICES ASSUME B # {} PROVE FALSE
      OBVIOUS
    <3>2. B \subseteq Nat
      BY <2>2
    <3> HIDE DEF B
    <3>3. PICK m \in B : \A d \in B : m <= d
      BY <3>1, <3>2, LeastNumber
    <3>4. m \in 1 .. Len(s) /\ f[m] \notin Q
      BY DEF B
    <3>5. m # 1
      BY <2>1, <2>4, <3>4
    <3>6. m - 1 \in 1 .. Len(s) /\ m - 1 \notin B
      BY <2>2, <3>2, <3>3, <3>4, <3>5
    <3>7. f[m - 1] \in Q
      BY <3>6 DEF B
    <3>8. f[m] = f[m - 1] \o s[m]
      BY <2>4, <3>4, <3>5
    <3>. QED
      BY <2>1, <3>4, <3>7, <3>8
  <2>6. f[Len(s)] \in Q
    <3>1. Len(s) \in 1 .. Len(s)
      BY <2>2
    <3>2. \A i \in 1 .. Len(s) : f[i] \in Q
      BY <2>5
    <3>. QED
      BY <3>1, <3>2
  <2>. QED
    BY <2>3, <2>6
<1>. QED
  BY <1>1, <1>2

\* FlattenSeq of lists over a set is a list over it.
LEMMA FlattenSeqType ==
    ASSUME NEW T, NEW s \in Seq(Seq(T))
    PROVE  FlattenSeq(s) \in Seq(T)
<1>1. <<>> \in Seq(T) /\ \A a, b \in Seq(T) : a \o b \in Seq(T)
  OBVIOUS
<1>. QED
  BY <1>1, FlattenSeqIn

\* The elements of the joined lists.
LEMMA JoinedElements ==
    ASSUME NEW T, NEW a \in Seq(T), NEW b \in Seq(T)
    PROVE  ToSet(a \o b) = ToSet(a) \cup ToSet(b)
<1>1. ToSet(a \o b) \subseteq ToSet(a) \cup ToSet(b)
  BY DEF ToSet
<1>2. \A i \in 1 .. Len(a) : a[i] = (a \o b)[i] /\ i \in 1 .. Len(a \o b)
  OBVIOUS
<1>3. \A i \in 1 .. Len(b) : b[i] = (a \o b)[Len(a) + i] /\ Len(a) + i \in 1 .. Len(a \o b)
  OBVIOUS
<1>4. DOMAIN a = 1 .. Len(a) /\ DOMAIN b = 1 .. Len(b) /\ DOMAIN (a \o b) = 1 .. Len(a \o b)
  OBVIOUS
<1>. QED
  BY <1>1, <1>2, <1>3, <1>4 DEF ToSet

\* What any of the lists has is in FlattenSeq, and nothing else is.
LEMMA FlattenSeqElements ==
    ASSUME NEW T, NEW s \in Seq(Seq(T))
    PROVE  /\ \A i \in 1 .. Len(s) : ToSet(s[i]) \subseteq ToSet(FlattenSeq(s))
           /\ \A x \in ToSet(FlattenSeq(s)) : \E i \in 1 .. Len(s) : x \in ToSet(s[i])
<1>1. CASE s = <<>>
  BY <1>1, FlattenSeqOfNone DEF ToSet
<1>2. CASE s # <<>>
  <2>1. Len(s) \in Nat /\ 1 <= Len(s) /\ \A i \in 1 .. Len(s) : s[i] \in Seq(T)
    BY <1>2
  <2>2. PICK f \in [1 .. Len(s) -> Seq(T)] : Flattened(s, Len(s), f) /\ FlattenSeq(s) = f[Len(s)]
    BY <1>2, FlattenSeqSteps
  <2>3. \A i \in 1 .. Len(s) : f[i] = IF i = 1 THEN s[i] ELSE f[i - 1] \o s[i]
    BY <2>2 DEF Flattened
  <2> DEFINE Exact(m) == /\ \A i \in 1 .. m : ToSet(s[i]) \subseteq ToSet(f[m])
                         /\ \A x \in ToSet(f[m]) : \E i \in 1 .. m : x \in ToSet(s[i])
             B == {m \in 1 .. Len(s) : ~Exact(m)}
  <2>4. B = {}
    <3>1. SUFFICES ASSUME B # {} PROVE FALSE
      OBVIOUS
    <3>2. B \subseteq Nat
      BY <2>1
    <3> HIDE DEF B
    <3>3. PICK m \in B : \A d \in B : m <= d
      BY <3>1, <3>2, LeastNumber
    <3>4. m \in 1 .. Len(s) /\ ~Exact(m)
      BY DEF B
    <3>5. m # 1
      <4>1. SUFFICES ASSUME m = 1 PROVE FALSE
        OBVIOUS
      <4>2. f[1] = s[1]
        BY <2>3, <3>4, <4>1
      <4>. QED
        BY <3>4, <4>1, <4>2
    <3>6. m - 1 \in 1 .. Len(s) /\ m - 1 \notin B
      BY <2>1, <3>2, <3>3, <3>4, <3>5
    <3>7. Exact(m - 1)
      BY <3>6 DEF B
    <3>8. f[m] = f[m - 1] \o s[m]
      BY <2>3, <3>4, <3>5
    <3>9. ToSet(f[m]) = ToSet(f[m - 1]) \cup ToSet(s[m])
      <4>1. f[m - 1] \in Seq(T) /\ s[m] \in Seq(T)
        BY <2>1, <3>4, <3>6
      <4>. QED
        BY <3>8, <4>1, JoinedElements
    <3>10. \A i \in 1 .. m : i = m \/ i \in 1 .. m - 1
      BY <3>4
    <3>11. m \in 1 .. m /\ \A i \in 1 .. m - 1 : i \in 1 .. m
      BY <3>4
    <3>12. \A i \in 1 .. m : ToSet(s[i]) \subseteq ToSet(f[m])
      BY <3>7, <3>9, <3>10
    <3>13. \A x \in ToSet(f[m]) : \E i \in 1 .. m : x \in ToSet(s[i])
      BY <3>7, <3>9, <3>11
    <3>. QED
      BY <3>4, <3>12, <3>13
  <2>5. Exact(Len(s))
    <3>1. Len(s) \in 1 .. Len(s)
      BY <2>1
    <3> HIDE DEF Exact
    <3>2. \A m \in 1 .. Len(s) : Exact(m)
      BY <2>4
    <3>. QED
      BY <3>1, <3>2
  <2>. QED
    BY <2>2, <2>5
<1>. QED
  BY <1>1, <1>2

\* SetToSeq of a finite set is a list over it.
LEMMA SetToSeqType ==
    ASSUME NEW S, IsFiniteSet(S)
    PROVE  SetToSeq(S) \in [1 .. Cardinality(S) -> S] /\ Cardinality(S) \in Nat
<1>1. Cardinality(S) \in Nat /\ ExistsBijection(1 .. Cardinality(S), S)
  BY FS_CardinalityType
<1>2. PICK f : f \in Bijection(1 .. Cardinality(S), S)
  BY <1>1 DEF ExistsBijection
<1>3. f \in [1 .. Cardinality(S) -> S] /\ IsInjective(f)
  BY <1>2 DEF Bijection, Injection, IsInjective
<1>. QED
  BY <1>1, <1>3 DEF SetToSeq

\* The names of a list of fields are finitely many.
LEMMA FieldNamesFinite ==
    ASSUME NEW fields, Len(fields) \in Nat
    PROVE  IsFiniteSet(FieldNames(fields))
<1> DEFINE n == Len(fields)
           f == [i \in 1 .. n |-> fields[i].field]
<1>1. f \in Surjection(1 .. n, FieldNames(fields))
  BY DEF Surjection, FieldNames
<1>2. IsFiniteSet(1 .. n)
  BY FS_Interval
<1>. QED
  BY <1>1, <1>2, FS_Surjection

-----------------------------------------------------------------------------
(* The inductive invariant                                                 *)

Rebuilding == {"temp", "copy", "drop", "rename", "commit"}
Phases == {"idle", "inspect", "columns", "begin", "indexes", "reissue", "trigger"} \cup Rebuilding
Ops == {"CREATE TABLE", "ADD", "CHANGE", "DROP", "CREATE INDEX", "DROP INDEX"}

\* A statement of a sync: it drops no column that is declared, and creates the
\* table only with the declared ones.
StatementOK(x, fields) ==
    /\ x = [op |-> x.op, name |-> x.name, arg |-> x.arg, check |-> x.check]
    /\ x.op \in Ops
    /\ x.op = "DROP" => x.name \notin FieldNames(fields)
    /\ x.op = "CREATE TABLE" => x.arg = fields

ListOK(s, fields) == s \in Seq(ToSet(s)) /\ \A x \in ToSet(s) : StatementOK(x, fields)

\* What is still to be done suits the definition that is being synced.
PlanInv ==
    /\ site \in [server : Servers, allowDrop : BOOLEAN, family : Families]
    /\ pc \in Phases
    /\ pc # "idle" => schema \in DOMAIN Schemas
    /\ pc = "idle" => plan = <<>> /\ changed = <<>>
    /\ ListOK(plan, Fields) /\ ListOK(changed, Fields)

\* The tables are records of the five components with finitely many columns.
Table(e, c, i, r, g) == [exists |-> e, cols |-> c, idx |-> i, rows |-> r, trigger |-> g]

TableOK(t) ==
    /\ t = Table(t.exists, t.cols, t.idx, t.rows, t.trigger)
    /\ IsFiniteSet(DOMAIN t.cols) /\ IsFiniteSet(DOMAIN t.idx)

TablesInv == TableOK(table) /\ TableOK(temp) /\ TableOK(saved)

\* A table that holds every value that is owed, in columns it has.
Holds(t) == \A r \in DOMAIN owed : r \in DOMAIN t.rows /\ owed[r] \subseteq t.rows[r] \cap DOMAIN t.cols

\* While a rebuild runs, the table on disk is the one BEGIN found; what becomes the
\* table at COMMIT holds every value that is owed from the copy on.
OwedInv ==
    /\ open <=> pc \in Rebuilding
    /\ Holds(Durable)
    /\ ~Durable.exists => DOMAIN owed = {}
    /\ pc # "idle" => \A r \in DOMAIN owed : owed[r] \subseteq FieldNames(Fields)
    /\ pc \in {"temp", "copy"} => table = saved
    /\ pc = "copy" => temp.exists /\ DOMAIN temp.cols = FieldNames(Fields)
    /\ pc \in {"drop", "rename"} => temp.exists /\ Holds(temp)
    /\ pc = "commit" => table.exists /\ Holds(table)

-----------------------------------------------------------------------------
(* Lists of statements                                                     *)

\* Statements differ from the counted ones in the flag alone.
LEMMA Unchecked ==
    ASSUME NEW a, NEW b, NEW c, NEW d, NEW e, NEW x,
           x = [op |-> a, name |-> b, arg |-> c, check |-> d]
    PROVE  [x EXCEPT !.check = e] = [op |-> a, name |-> b, arg |-> c, check |-> e]
  OBVIOUS

LEMMA ListIsOK ==
    ASSUME NEW S, NEW s \in Seq(S), \A x \in S : StatementOK(x, Fields)
    PROVE  ListOK(s, Fields)
<1>1. ToSet(s) \subseteq S /\ s \in Seq(ToSet(s))
  BY DEF ToSet
<1>. QED
  BY <1>1 DEF ListOK

LEMMA NoStatements ==
    ASSUME NEW fields
    PROVE  ListOK(<<>>, fields)
<1>1. ToSet(<<>>) = {} /\ <<>> \in Seq({})
  BY DEF ToSet
<1>. QED
  BY <1>1, Zenon DEF ListOK

LEMMA JoinedIsOK ==
    ASSUME NEW s, NEW t, ListOK(s, Fields), ListOK(t, Fields)
    PROVE  ListOK(s \o t, Fields)
<1> DEFINE S == ToSet(s) \cup ToSet(t)
<1>1. s \in Seq(S) /\ t \in Seq(S)
  <2>1. s \in Seq(ToSet(s)) /\ t \in Seq(ToSet(t))
    BY DEF ListOK
  <2>. QED
    BY <2>1, SeqMonotonic
<1>2. s \o t \in Seq(S)
  <2> HIDE DEF S
  <2>. QED
    BY <1>1
<1>3. \A x \in S : StatementOK(x, Fields)
  BY DEF ListOK
<1>. QED
  BY <1>2, <1>3, ListIsOK

LEMMA HeadAndTail ==
    ASSUME NEW s, ListOK(s, Fields), s # <<>>
    PROVE  /\ StatementOK(Head(s), Fields)
           /\ ListOK(Tail(s), Fields)
<1> DEFINE S == ToSet(s)
<1>1. s \in Seq(S) /\ \A x \in S : StatementOK(x, Fields)
  BY DEF ListOK
<1> HIDE DEF S
<1>2. Head(s) \in S /\ Tail(s) \in Seq(S)
  BY <1>1
<1>. QED
  BY <1>1, <1>2, ListIsOK

\* A list whose first statement has been counted is the list it was.
LEMMA CountedIsOK ==
    ASSUME NEW s, ListOK(s, Fields), s # <<>>
    PROVE  /\ ListOK([s EXCEPT ![1].check = FALSE], Fields)
           /\ [s EXCEPT ![1].check = FALSE] # <<>>
           /\ Head([s EXCEPT ![1].check = FALSE]).name = Head(s).name
<1> DEFINE h == [s[1] EXCEPT !.check = FALSE]
           S == ToSet(s)
           t == [s EXCEPT ![1] = h]
<1>1. s \in Seq(S) /\ (\A x \in S : StatementOK(x, Fields))
  BY DEF ListOK
<1>2. s[1] \in S /\ s[1] = Head(s) /\ Len(s) \in Nat /\ Len(s) >= 1
  <2> HIDE DEF S
  <2>. QED
    BY <1>1
<1>3. StatementOK(s[1], Fields)
  BY <1>1, <1>2
<1>4. h = [op |-> s[1].op, name |-> s[1].name, arg |-> s[1].arg, check |-> FALSE]
  <2>1. s[1] = [op |-> s[1].op, name |-> s[1].name, arg |-> s[1].arg, check |-> s[1].check]
    BY <1>3 DEF StatementOK
  <2> DEFINE no == FALSE
  <2> HIDE DEF no
  <2>2. [s[1] EXCEPT !.check = no] = [op |-> s[1].op, name |-> s[1].name, arg |-> s[1].arg, check |-> no]
    BY <2>1, Unchecked
  <2>. QED
    BY <2>2, Zenon DEF no
<1>5. StatementOK(h, Fields) /\ h.name = s[1].name
  BY <1>3, <1>4 DEF StatementOK
<1> HIDE DEF h
<1>6. t \in Seq(S \cup {h}) /\ t # <<>> /\ Head(t) = h
  <2> HIDE DEF S
  <2>. QED
    BY <1>1, <1>2
<1>7. ListOK(t, Fields)
  BY <1>1, <1>5, <1>6, ListIsOK
<1>. QED
  BY <1>2, <1>5, <1>6, <1>7 DEF h

\* What is left of a list that is filtered is part of it.
LEMMA AddsAreOK ==
    ASSUME NEW alters, ListOK(alters, Fields)
    PROVE  /\ ListOK(Adds(alters), Fields)
           /\ ListOK(Where(alters, LAMBDA c : c.op = "ADD"), Fields)
<1> DEFINE S == ToSet(alters)
           f == [i \in 1 .. Len(alters) |-> IF alters[i].op \in {"ADD", "CHANGE"} THEN <<alters[i]>> ELSE <<>>]
           g == [i \in 1 .. Len(alters) |-> IF alters[i].op = "ADD" THEN <<alters[i]>> ELSE <<>>]
<1>1. alters \in Seq(S) /\ \A x \in S : StatementOK(x, Fields)
  BY DEF ListOK
<1>2. f \in Seq(Seq(S)) /\ g \in Seq(Seq(S))
  <2> HIDE DEF S
  <2>1. Len(alters) \in Nat /\ \A i \in 1 .. Len(alters) : <<alters[i]>> \in Seq(S)
    BY <1>1
  <2>2. f \in [1 .. Len(alters) -> Seq(S)] /\ g \in [1 .. Len(alters) -> Seq(S)]
    BY <2>1
  <2>. QED
    BY <2>1, <2>2
<1>3. FlattenSeq(f) \in Seq(S) /\ FlattenSeq(g) \in Seq(S)
  BY <1>2, FlattenSeqType
<1>. QED
  BY <1>1, <1>3, ListIsOK DEF Adds, Where

LEMMA MissingAreOK ==
    ASSUME NEW cols, NEW list, ListOK(list, Fields)
    PROVE  ListOK(MissingColumns(cols, list), Fields)
<1> DEFINE S == ToSet(list)
           f == [i \in 1 .. Len(list) |-> IF list[i].name \notin DOMAIN cols THEN <<list[i]>> ELSE <<>>]
<1>1. list \in Seq(S) /\ \A x \in S : StatementOK(x, Fields)
  BY DEF ListOK
<1>2. f \in Seq(Seq(S))
  <2> HIDE DEF S
  <2>1. Len(list) \in Nat /\ \A i \in 1 .. Len(list) : <<list[i]>> \in Seq(S)
    BY <1>1
  <2>2. f \in [1 .. Len(list) -> Seq(S)]
    BY <2>1
  <2>. QED
    BY <2>1, <2>2
<1>3. FlattenSeq(f) \in Seq(S)
  BY <1>2, FlattenSeqType
<1>. QED
  BY <1>1, <1>3, ListIsOK DEF MissingColumns, Where

-----------------------------------------------------------------------------
(* The plans                                                               *)

\* The fields of a definition are a list.
LEMMA FieldsAreAList ==
    ASSUME site \in [server : Servers, allowDrop : BOOLEAN, family : Families], schema \in DOMAIN Schemas
    PROVE  \E S : Fields \in Seq(S)
<1> DEFINE fs == Schemas[schema].fields
           S == ToSet(fs)
           R == {PrimaryKeys[D][fs[i].type] @@ fs[i] : i \in 1 .. Len(fs)}
           idRow == PrimaryKeys[D].idKey @@
                        [field |-> "id", type |-> "", null |-> "", default |-> "", key |-> "",
                         extra |-> "", auto |-> "", collation |-> "", isObject |-> FALSE]
<1>1. fs \in Seq(S)
  BY SyncAssumption
<1>2. D \in {Dialect(s) : s \in Servers}
  BY DEF D
<1>3. Fields = WithId(D, fs)
  BY <1>2 DEF Fields, AllFields
<1>4. CASE \E i \in 1 .. Len(fs) : fs[i].type \in KeyTypes
  <2> DEFINE g == [i \in 1 .. Len(fs) |-> IF fs[i].type \in KeyTypes
                                           THEN PrimaryKeys[D][fs[i].type] @@ fs[i] ELSE fs[i]]
  <2>1. Fields = g
    BY <1>3, <1>4, Zenon DEF WithId
  <2>2. g \in Seq(S \cup R)
    <3>1. \A i \in 1 .. Len(fs) : fs[i] \in S /\ PrimaryKeys[D][fs[i].type] @@ fs[i] \in R
      <4>1. \A i \in 1 .. Len(fs) : fs[i] \in S
        <5> HIDE DEF S
        <5>. QED
          BY <1>1
      <4>. QED
        BY <4>1, Zenon
    <3>2. Len(fs) \in Nat
      <4> HIDE DEF S
      <4>. QED
        BY <1>1
    <3> HIDE DEF S, R, fs
    <3>. QED
      BY <3>1, <3>2
  <2>. QED
    BY <2>1, <2>2, Zenon
<1>5. CASE ~\E i \in 1 .. Len(fs) : fs[i].type \in KeyTypes
  <2>1. Fields = Append(fs, idRow)
    BY <1>3, <1>5, Zenon DEF WithId
  <2> HIDE DEF S, fs, idRow
  <2>2. Append(fs, idRow) \in Seq(S \cup {idRow})
    BY <1>1
  <2>. QED
    BY <2>1, <2>2, Zenon
<1>. QED
  BY <1>4, <1>5

LEMMA FieldsLength ==
    ASSUME site \in [server : Servers, allowDrop : BOOLEAN, family : Families], schema \in DOMAIN Schemas
    PROVE  /\ Len(Fields) \in Nat
           /\ IsFiniteSet(FieldNames(Fields))
           /\ \E S : Fields \in Seq(S)
<1>1. Len(Fields) \in Nat
  <2>1. PICK S : Fields \in Seq(S)
    BY FieldsAreAList
  <2>. QED
    BY <2>1
<1>. QED
  BY <1>1, FieldsAreAList, FieldNamesFinite

\* Operations that lose no column and build no table.
Harmless(op) == op \in Ops \ {"DROP", "CREATE TABLE"}

LEMMA StatementIsOK ==
    ASSUME NEW op, NEW name, NEW arg, Harmless(op)
    PROVE  StatementOK(Statement(op, name, arg), Fields)
  BY DEF StatementOK, Statement, Ops, Harmless

LEMMA DropIsOK ==
    ASSUME NEW name, name \notin FieldNames(Fields)
    PROVE  StatementOK(Statement("DROP", name, ""), Fields)
  BY DEF StatementOK, Statement, Ops

LEMMA CreateIsOK == StatementOK(Statement("CREATE TABLE", TableName, Fields), Fields)
  BY DEF StatementOK, Statement, Ops

LEMMA AlterIsOK ==
    ASSUME NEW cols, NEW f
    PROVE  StatementOK(Alter(D, cols, f), Fields)
<1>1. CASE f.field \notin DOMAIN cols
  BY <1>1, StatementIsOK DEF Alter, Harmless, Ops
<1>2. CASE f.field \in DOMAIN cols
  <2> DEFINE c == cols[f.field].null = "YES" /\ IsNotNull(f)
  <2>1. Alter(D, cols, f) = [op |-> "CHANGE", name |-> f.field, arg |-> f, check |-> c]
    BY <1>2, Zenon DEF Alter, Statement
  <2>. QED
    BY <2>1 DEF StatementOK, Ops
<1>. QED
  BY <1>1, <1>2

\* A list given by its elements.
LEMMA LengthOf ==
    ASSUME NEW n \in Nat, NEW N, NEW q \in [1 .. n -> N]
    PROVE  Len(q) = n
  OBVIOUS

LEMMA ListType ==
    ASSUME NEW n \in Nat, NEW N, NEW q \in [1 .. n -> N]
    PROVE  q \in Seq(N) /\ Len(q) = n
  OBVIOUS

LEMMA ListOf ==
    ASSUME NEW n \in Nat, NEW s, DOMAIN s = 1 .. n, s = [i \in DOMAIN s |-> s[i]],
           \A i \in 1 .. n : StatementOK(s[i], Fields)
    PROVE  ListOK(s, Fields)
<1> DEFINE S == {s[i] : i \in 1 .. n}
<1>1. s \in Seq(S)
  OBVIOUS
<1>2. \A x \in S : StatementOK(x, Fields)
  OBVIOUS
<1>. QED
  BY <1>1, <1>2, ListIsOK

\* The statements for a set of names, one after the other.
LEMMA ForEachName ==
    ASSUME NEW N, IsFiniteSet(N), NEW op, \A c \in N : StatementOK(Statement(op, c, ""), Fields)
    PROVE  /\ ListOK([i \in 1 .. Cardinality(N) |-> Statement(op, SetToSeq(N)[i], "")], Fields)
           /\ ListOK([i \in 1 .. Len(SetToSeq(N)) |-> Statement(op, SetToSeq(N)[i], "")], Fields)
<1> DEFINE n == Cardinality(N)
           q == SetToSeq(N)
           s == [i \in 1 .. n |-> Statement(op, q[i], "")]
<1>1. n \in Nat /\ q \in [1 .. n -> N]
  BY SetToSeqType
<1>2. Len(q) = n
  BY <1>1, LengthOf
<1>3. \A i \in 1 .. n : StatementOK(Statement(op, q[i], ""), Fields)
  <2>1. \A i \in 1 .. n : q[i] \in N
    <3> HIDE DEF n, q
    <3>. QED
      BY <1>1
  <2>. QED
    BY <2>1
<1> HIDE DEF n, q
<1>4. DOMAIN s = 1 .. n /\ \A i \in 1 .. n : s[i] = Statement(op, q[i], "")
  OBVIOUS
<1>5. s = [i \in DOMAIN s |-> s[i]]
  OBVIOUS
<1>6. \A i \in 1 .. n : StatementOK(s[i], Fields)
  BY <1>3, <1>4, Zenon
<1> HIDE DEF s
<1>7. ListOK(s, Fields)
  BY <1>1, <1>4, <1>5, <1>6, ListOf
<1>. QED
  BY <1>2, <1>7, Zenon DEF s, n, q

\* The ALTERs, DROPs of undeclared columns included, suit the definition.
LEMMA AltersAreOK ==
    ASSUME site \in [server : Servers, allowDrop : BOOLEAN, family : Families],
           schema \in DOMAIN Schemas, NEW cols, IsFiniteSet(DOMAIN cols)
    PROVE  ListOK(Alters(D, cols, Fields, site.allowDrop), Fields)
<1> DEFINE touched == Where(Fields, LAMBDA f : \/ f.field \notin DOMAIN cols
                                               \/ NeedsChange(Explained(D, cols[f.field]), f))
           n == Len(touched)
           drop == ToDrop(cols, Fields)
           s == [i \in 1 .. n |-> Alter(D, cols, touched[i])]
           t == [i \in 1 .. Cardinality(drop) |-> Statement("DROP", SetToSeq(drop)[i], "")]
<1>1. n \in Nat
  <2>1. PICK S : Fields \in Seq(S)
    BY FieldsLength
  <2> DEFINE P(f) == \/ f.field \notin DOMAIN cols
                     \/ NeedsChange(Explained(D, cols[f.field]), f)
             g == [i \in 1 .. Len(Fields) |-> IF P(Fields[i]) THEN <<Fields[i]>> ELSE <<>>]
  <2>2. g \in Seq(Seq(S))
    <3> HIDE DEF P
    <3>1. Len(Fields) \in Nat /\ \A i \in 1 .. Len(Fields) : <<Fields[i]>> \in Seq(S)
      BY <2>1
    <3>2. g \in [1 .. Len(Fields) -> Seq(S)]
      BY <3>1
    <3>. QED
      BY <3>1, <3>2
  <2>3. FlattenSeq(g) \in Seq(S)
    BY <2>2, FlattenSeqType
  <2>4. touched = FlattenSeq(g)
    BY Zenon DEF Where
  <2> HIDE DEF g, touched
  <2>. QED
    BY <2>3, <2>4
<1>2. ListOK(s, Fields)
  <2> HIDE DEF touched, n
  <2>1. DOMAIN s = 1 .. n /\ \A i \in 1 .. n : s[i] = Alter(D, cols, touched[i])
    OBVIOUS
  <2>2. s = [i \in DOMAIN s |-> s[i]]
    OBVIOUS
  <2>3. \A i \in 1 .. n : StatementOK(s[i], Fields)
    BY <2>1, AlterIsOK, Zenon
  <2> HIDE DEF s
  <2>. QED
    BY <1>1, <2>1, <2>2, <2>3, ListOf
<1>3. ListOK(t, Fields)
  <2>1. IsFiniteSet(drop)
    BY FS_Subset DEF ToDrop
  <2>2. \A c \in drop : StatementOK(Statement("DROP", c, ""), Fields)
    BY DropIsOK DEF ToDrop
  <2>. QED
    BY <2>1, <2>2, ForEachName
<1>4. Alters(D, cols, Fields, site.allowDrop) = s \o (IF site.allowDrop THEN t ELSE <<>>)
  BY Zenon DEF Alters
<1> HIDE DEF s, t
<1>5. ListOK(IF site.allowDrop THEN t ELSE <<>>, Fields)
  BY <1>3, NoStatements, Zenon
<1>. QED
  BY <1>2, <1>4, <1>5, JoinedIsOK, Zenon

\* So do they behind the drops of the errno-1170 guard.
LEMMA GuardedPlanIsOK ==
    ASSUME NEW alters, ListOK(alters, Fields), NEW indexes, IsFiniteSet(DOMAIN indexes)
    PROVE  ListOK(GuardedPlan(alters, indexes), Fields)
<1> DEFINE names == Guarded(indexes, TextChanged(D, alters))
<1>1. IsFiniteSet(names)
  BY FS_Subset DEF Guarded
<1>2. \A c \in names : StatementOK(Statement("DROP INDEX", c, ""), Fields)
  BY StatementIsOK DEF Harmless, Ops
<1>3. ListOK([i \in 1 .. Len(SetToSeq(names)) |-> Statement("DROP INDEX", SetToSeq(names)[i], "")], Fields)
  BY <1>1, <1>2, ForEachName
<1>. QED
  BY <1>3, JoinedIsOK, Zenon DEF GuardedPlan

\* The index pass creates and drops indexes.
LEMMA IndexStatementsAreOK ==
    ASSUME NEW s, NEW spec, NEW physical, NEW fields, NEW existing
    PROVE  ListOK(IndexStatements(s, spec, physical, fields, existing), Fields)
<1> DEFINE create == Statement("CREATE INDEX", physical,
                        CreatedIndex(Dialect(s), Resolved(Dialect(s), spec), TextColumns(Dialect(s), spec, fields)))
           drop == Statement("DROP INDEX", physical, "")
<1>1. StatementOK(create, Fields) /\ StatementOK(drop, Fields)
  BY StatementIsOK DEF Harmless, Ops
<1> HIDE DEF create, drop
<1>2. ListOK(<<create>>, Fields) /\ ListOK(<<drop, create>>, Fields)
  <2> DEFINE S == {create, drop}
  <2>1. <<create>> \in Seq(S) /\ <<drop, create>> \in Seq(S)
    OBVIOUS
  <2>2. \A x \in S : StatementOK(x, Fields)
    BY <1>1
  <2> HIDE DEF S
  <2>. QED
    BY <2>1, <2>2, ListIsOK
<1>3. IndexStatements(s, spec, physical, fields, existing) \in {<<>>, <<create>>, <<drop, create>>}
  BY DEF IndexStatements, Replaced, create, drop
<1>. QED
  BY <1>2, <1>3, NoStatements

\* And so does the whole index pass, drops of stale indexes included.
LEMMA IndexPassIsOK ==
    ASSUME NEW s, NEW fields, NEW indexes, NEW tbl, NEW existing,
           IsFiniteSet(DOMAIN indexes), IsFiniteSet(DOMAIN existing)
    PROVE  ListOK(IndexPass(s, fields, indexes, tbl, existing), Fields)
<1> DEFINE d        == Dialect(s)
           declared == Declared(d, fields, indexes, tbl)
           physical == PhysicalNames(d, declared, tbl)
           names    == SetToSeq(DOMAIN declared)
           gone     == DOMAIN existing \ {physical[n] : n \in DOMAIN declared}
           item(i)  == IndexStatements(s, declared[names[i]], physical[names[i]], fields, existing)
           f        == [i \in 1 .. Len(names) |-> item(i)]
           t        == [i \in 1 .. Len(SetToSeq(gone)) |-> Statement("DROP INDEX", SetToSeq(gone)[i], "")]
<1>1. IsFiniteSet(DOMAIN declared)
  <2> DEFINE all == WithIsDeletedIndex(d, fields, indexes, tbl)
             key == IF d = "mysql" THEN "isDeleted" ELSE tbl \o "_isDeleted"
  <2>1. IsFiniteSet(DOMAIN indexes \cup {key})
    BY FS_AddElement, Zenon
  <2>2. DOMAIN all \subseteq DOMAIN indexes \cup {key}
    <3> HIDE DEF key
    <3>. QED
      BY DEF WithIsDeletedIndex, Entered, key
  <2>3. DOMAIN declared = DOMAIN all
    BY DEF Declared
  <2>. QED
    BY <2>1, <2>2, <2>3, FS_Subset
<1>2. Len(names) \in Nat
  <2>1. names \in [1 .. Cardinality(DOMAIN declared) -> DOMAIN declared] /\ Cardinality(DOMAIN declared) \in Nat
    BY <1>1, SetToSeqType
  <2> HIDE DEF names, declared
  <2>. QED
    BY <2>1
<1>3. \A i \in 1 .. Len(names) : ListOK(item(i), Fields)
  BY IndexStatementsAreOK, Zenon
<1>4. ListOK(FlattenSeq(f), Fields)
  <2> HIDE DEF names, item
  <2> DEFINE T == UNION {ToSet(item(i)) : i \in 1 .. Len(names)}
  <2>1. \A x \in T : StatementOK(x, Fields)
    BY <1>3 DEF ListOK
  <2>2. \A i \in 1 .. Len(names) : item(i) \in Seq(ToSet(item(i))) /\ ToSet(item(i)) \subseteq T
    BY <1>3 DEF ListOK
  <2> HIDE DEF T
  <2>3. \A i \in 1 .. Len(names) : item(i) \in Seq(T)
    BY <2>2, SeqMonotonic
  <2>4. f \in Seq(Seq(T))
    BY <1>2, <2>3
  <2>. QED
    BY <2>1, <2>4, FlattenSeqType, ListIsOK
<1>5. ListOK(t, Fields)
  <2>1. IsFiniteSet(gone)
    BY FS_Subset
  <2>2. \A c \in gone : StatementOK(Statement("DROP INDEX", c, ""), Fields)
    BY StatementIsOK DEF Harmless, Ops
  <2>. QED
    BY <2>1, <2>2, ForEachName
<1>. QED
  BY <1>4, <1>5, JoinedIsOK, Zenon DEF IndexPass

-----------------------------------------------------------------------------
(* The tables                                                              *)

LEMMA NoTableIsOK == TableOK(NoTable)
<1>1. NoTable = Table(NoTable.exists, NoTable.cols, NoTable.idx, NoTable.rows, NoTable.trigger)
  BY DEF NoTable, Table
<1>2. DOMAIN NoTable.cols = {} /\ DOMAIN NoTable.idx = {}
  BY DEF NoTable
<1>. QED
  BY <1>1, <1>2, FS_EmptySet, Zenon DEF TableOK

\* A table without rows, of the columns of a definition.
LEMMA BuiltIsOK ==
    ASSUME NEW fields, IsFiniteSet(FieldNames(fields))
    PROVE  /\ TableOK(Built(fields))
           /\ Built(fields).exists
           /\ DOMAIN Built(fields).cols = FieldNames(fields)
<1> DEFINE cols == [n \in FieldNames(fields) |-> NewColumn(site.server, FieldNamed(fields, n))]
           b == [exists |-> TRUE, idx |-> <<>>, rows |-> <<>>, trigger |-> FALSE, cols |-> cols]
<1>1. DOMAIN cols = FieldNames(fields)
  OBVIOUS
<1>2. Built(fields) = b
  BY Zenon DEF Built
<1> HIDE DEF cols
<1>3. /\ b = Table(b.exists, b.cols, b.idx, b.rows, b.trigger)
      /\ b.exists /\ b.cols = cols /\ DOMAIN b.idx = {}
  BY DEF Table
<1>. QED
  BY <1>1, <1>2, <1>3, FS_EmptySet, Zenon DEF TableOK

\* A table of which the columns, the indexes, the rows or the trigger are replaced.
LEMMA Replacing ==
    ASSUME NEW t, TableOK(t), NEW c, NEW x, NEW w, NEW g
    PROVE  /\ [t EXCEPT !.cols = c, !.rows = w] = Table(t.exists, c, t.idx, w, t.trigger)
           /\ [t EXCEPT !.idx = x] = Table(t.exists, t.cols, x, t.rows, t.trigger)
           /\ [t EXCEPT !.rows = w] = Table(t.exists, t.cols, t.idx, w, t.trigger)
           /\ [t EXCEPT !.trigger = g] = Table(t.exists, t.cols, t.idx, t.rows, g)
<1> DEFINE a == t.exists b == t.cols i == t.idx d == t.rows e == t.trigger
           u == [t EXCEPT !.cols = c]
<1>1. t = Table(a, b, i, d, e)
  BY DEF TableOK
<1>2. [t EXCEPT !.cols = c, !.rows = w] = [u EXCEPT !.rows = w]
  OBVIOUS
<1> HIDE DEF a, b, i, d, e
<1>3. u = Table(a, c, i, d, e)
  BY <1>1 DEF Table
<1> HIDE DEF u
<1>4. [u EXCEPT !.rows = w] = Table(a, c, i, w, e)
  BY <1>3 DEF Table
<1>5. [t EXCEPT !.idx = x] = Table(a, b, x, d, e)
  BY <1>1 DEF Table
<1>6. [t EXCEPT !.rows = w] = Table(a, b, i, w, e)
  BY <1>1 DEF Table
<1>7. [t EXCEPT !.trigger = g] = Table(a, b, i, d, g)
  BY <1>1 DEF Table
<1>. QED
  BY <1>2, <1>4, <1>5, <1>6, <1>7, Zenon DEF a, b, i, d, e

\* The same for columns, indexes and rows at once.
LEMMA ReplacingThree ==
    ASSUME NEW t, TableOK(t), NEW c, NEW x, NEW w
    PROVE  [t EXCEPT !.cols = c, !.idx = x, !.rows = w] = Table(t.exists, c, x, w, t.trigger)
<1> DEFINE u == [t EXCEPT !.idx = x]
<1>1. u = Table(t.exists, t.cols, x, t.rows, t.trigger)
  BY Replacing
<1>2. [t EXCEPT !.cols = c, !.idx = x, !.rows = w] = [[u EXCEPT !.cols = c] EXCEPT !.rows = w]
  OBVIOUS
<1> HIDE DEF u
<1>3. [u EXCEPT !.cols = c] = Table(t.exists, c, x, t.rows, t.trigger)
  BY <1>1 DEF Table
<1> DEFINE v == [u EXCEPT !.cols = c]
<1> HIDE DEF v
<1>4. [v EXCEPT !.rows = w] = Table(t.exists, c, x, w, t.trigger)
  <2>1. v = Table(t.exists, c, x, t.rows, t.trigger)
    BY <1>3 DEF v
  <2>. QED
    BY <2>1 DEF Table
<1>. QED
  BY <1>2, <1>4 DEF v

\* A record of the five components is a table.
LEMMA IsTable ==
    ASSUME NEW e, NEW c, NEW x, NEW w, NEW g, IsFiniteSet(DOMAIN c), IsFiniteSet(DOMAIN x)
    PROVE  LET t == Table(e, c, x, w, g)
           IN  TableOK(t) /\ t.exists = e /\ t.cols = c /\ t.idx = x /\ t.rows = w /\ t.trigger = g
  BY DEF TableOK, Table

\* What a statement leaves of a table and its rows.
LEMMA ExecutedKeeps ==
    ASSUME NEW t, TableOK(t), NEW stmt, StatementOK(stmt, Fields), IsFiniteSet(FieldNames(Fields)),
           ~t.exists => DOMAIN owed = {},
           \A r \in DOMAIN owed : owed[r] \subseteq FieldNames(Fields),
           Holds(t), Fits(t, stmt)
    PROVE  LET e == Executed(t, stmt)
           IN  /\ TableOK(e)
               /\ t.exists => e.exists
               /\ ~e.exists => DOMAIN owed = {}
               /\ Holds(e)
<1> DEFINE e == Executed(t, stmt)
           c == stmt.name
           f == stmt.arg
<1>1. CASE stmt.op = "CREATE TABLE"
  <2>1. f = Fields
    BY <1>1 DEF StatementOK
  <2>2. e = Built(Fields)
    BY <1>1, <2>1, Zenon DEF Executed
  <2>3. ~t.exists
    BY <1>1 DEF Fits
  <2>4. TableOK(e) /\ e.exists
    BY <2>2, BuiltIsOK, Zenon
  <2> HIDE DEF e
  <2>8. TableOK(e) /\ (t.exists => e.exists) /\ (~e.exists => DOMAIN owed = {}) /\ Holds(e)
    BY <2>3, <2>4 DEF Holds
  <2>. QED
    BY <2>8 DEF e
<1>2. CASE stmt.op = "ADD"
  <2> DEFINE cols == Entered(t.cols, c, NewColumn(site.server, f))
             rows == [r \in DOMAIN t.rows |->
                IF IsNotNull(f) \/ FieldSpec(D, f).default # "" THEN t.rows[r] \cup {c} ELSE t.rows[r]]
  <2>1. e = [t EXCEPT !.cols = cols, !.rows = rows]
    BY <1>2, Zenon DEF Executed
  <2>2. DOMAIN cols = DOMAIN t.cols \cup {c}
    BY DEF Entered
  <2>3. IsFiniteSet(DOMAIN cols) /\ IsFiniteSet(DOMAIN t.idx)
    BY <2>2, FS_AddElement DEF TableOK
  <2>4. DOMAIN rows = DOMAIN t.rows /\ \A r \in DOMAIN t.rows : t.rows[r] \subseteq rows[r]
    OBVIOUS
  <2> HIDE DEF e, cols, rows
  <2>5. e = Table(t.exists, cols, t.idx, rows, t.trigger)
    BY <2>1, Replacing
  <2>6. TableOK(e) /\ e.exists = t.exists /\ e.cols = cols /\ e.rows = rows
    BY <2>3, <2>5, IsTable
  <2>8. TableOK(e) /\ (t.exists => e.exists) /\ (~e.exists => DOMAIN owed = {}) /\ Holds(e)
    BY <2>2, <2>4, <2>6 DEF Holds
  <2>. QED
    BY <2>8 DEF e
<1>3. CASE stmt.op = "CHANGE"
  <2> DEFINE cols == [t.cols EXCEPT ![c] = ModifiedColumn(site.server, @, f)]
             rows == [r \in DOMAIN t.rows |-> IF IsNotNull(f) THEN t.rows[r] \cup {c} ELSE t.rows[r]]
  <2>1. e = [t EXCEPT !.cols = cols, !.rows = rows]
    BY <1>3 DEF Executed
  <2>2. DOMAIN cols = DOMAIN t.cols
    OBVIOUS
  <2>3. IsFiniteSet(DOMAIN cols) /\ IsFiniteSet(DOMAIN t.idx)
    BY <2>2 DEF TableOK
  <2>4. DOMAIN rows = DOMAIN t.rows /\ \A r \in DOMAIN t.rows : t.rows[r] \subseteq rows[r]
    OBVIOUS
  <2> HIDE DEF e, cols, rows
  <2>5. e = Table(t.exists, cols, t.idx, rows, t.trigger)
    BY <2>1, Replacing
  <2>6. TableOK(e) /\ e.exists = t.exists /\ e.cols = cols /\ e.rows = rows
    BY <2>3, <2>5, IsTable
  <2>8. TableOK(e) /\ (t.exists => e.exists) /\ (~e.exists => DOMAIN owed = {}) /\ Holds(e)
    BY <2>2, <2>4, <2>6 DEF Holds
  <2>. QED
    BY <2>8 DEF e
<1>4. CASE stmt.op = "DROP"
  <2> DEFINE cols == Without(t.cols, {c})
             idx  == Without(t.idx, Over(t.idx, c))
             rows == [r \in DOMAIN t.rows |-> t.rows[r] \ {c}]
  <2>1. e = [t EXCEPT !.cols = cols, !.idx = idx, !.rows = rows]
    BY <1>4, Zenon DEF Executed
  <2>2. DOMAIN cols = DOMAIN t.cols \ {c} /\ DOMAIN idx \subseteq DOMAIN t.idx
    BY DEF Without
  <2>3. IsFiniteSet(DOMAIN cols) /\ IsFiniteSet(DOMAIN idx)
    BY <2>2, FS_Subset DEF TableOK
  <2>4. DOMAIN rows = DOMAIN t.rows /\ \A r \in DOMAIN t.rows : rows[r] = t.rows[r] \ {c}
    OBVIOUS
  <2>5. c \notin FieldNames(Fields)
    BY <1>4 DEF StatementOK
  <2> HIDE DEF e, cols, idx, rows
  <2>6. e = Table(t.exists, cols, idx, rows, t.trigger)
    BY <2>1, ReplacingThree
  <2>7. TableOK(e) /\ e.exists = t.exists /\ e.cols = cols /\ e.rows = rows
    BY <2>3, <2>6, IsTable
  <2>8. TableOK(e) /\ (t.exists => e.exists) /\ (~e.exists => DOMAIN owed = {}) /\ Holds(e)
    BY <2>2, <2>4, <2>5, <2>7 DEF Holds
  <2>. QED
    BY <2>8 DEF e
<1>5. CASE stmt.op \in {"CREATE INDEX", "DROP INDEX"}
  <2>1. PICK idx : e = [t EXCEPT !.idx = idx] /\ idx \in {Entered(t.idx, c, ReportedIndex(D, f)), Without(t.idx, {c})}
    BY <1>5 DEF Executed
  <2>2. DOMAIN idx \subseteq DOMAIN t.idx \cup {c}
    BY <2>1 DEF Entered, Without
  <2>3. IsFiniteSet(DOMAIN t.cols) /\ IsFiniteSet(DOMAIN idx)
    BY <2>2, FS_AddElement, FS_Subset, ZenonT(60) DEF TableOK
  <2> HIDE DEF e
  <2>4. e = Table(t.exists, t.cols, idx, t.rows, t.trigger)
    BY <2>1, Replacing
  <2>5. TableOK(e) /\ e.exists = t.exists /\ e.cols = t.cols /\ e.rows = t.rows
    BY <2>3, <2>4, IsTable
  <2>8. TableOK(e) /\ (t.exists => e.exists) /\ (~e.exists => DOMAIN owed = {}) /\ Holds(e)
    BY <2>5 DEF Holds
  <2>. QED
    BY <2>8 DEF e
<1>6. stmt.op \in Ops
  BY DEF StatementOK
<1>. QED
  BY <1>1, <1>2, <1>3, <1>4, <1>5, <1>6 DEF Ops

-----------------------------------------------------------------------------
(* The plan stays in order                                                 *)

LEMMA FieldsKept ==
    ASSUME site' = site, schema' = schema
    PROVE  Fields' = Fields
  BY DEF Fields, D

LEMMA EndedIsOK ==
    ASSUME PlanInv, site' = site, schema' = schema,
           NEW errs, NEW note, Ended(errs, note) \/ (pc # "idle" /\ ToTrigger(errs, note))
    PROVE  PlanInv'
<1>1. Fields' = Fields
  BY FieldsKept
<1>2. /\ plan' = <<>> /\ changed' \in {<<>>, changed}
      /\ \/ pc' = "idle" /\ changed' = <<>>
         \/ pc # "idle" /\ pc' = "trigger"
  BY DEF Ended, ToTrigger
<1>3. ListOK(plan', Fields')
  BY <1>2, NoStatements
<1>4. ListOK(changed', Fields')
  BY <1>1, <1>2, NoStatements DEF PlanInv
<1>. QED
  BY <1>2, <1>3, <1>4 DEF PlanInv, Phases

LEMMA PlanInit == Init => PlanInv
<1>1. ListOK(<<>>, Fields)
  BY NoStatements
<1>. QED
  BY <1>1 DEF Init, PlanInv, Phases

LEMMA PlanStart ==
    ASSUME PlanInv, NEW n \in DOMAIN Schemas, StartSync(n)
    PROVE  PlanInv'
<1>1. plan' = <<>> /\ changed' = <<>>
  BY DEF StartSync, PlanInv
<1>2. ListOK(<<>>, Fields')
  BY NoStatements
<1>. QED
  BY <1>1, <1>2 DEF StartSync, PlanInv, Phases

LEMMA PlanInspect ==
    ASSUME PlanInv, TablesInv, Inspect
    PROVE  PlanInv'
<1>1. site' = site /\ schema' = schema /\ pc = "inspect" /\ Fields' = Fields
  BY FieldsKept DEF Inspect
<1>2. CASE \/ Ended(TRUE, sync)
           \/ ToTrigger(TRUE, Faulty)
  BY <1>1, <1>2, EndedIsOK
<1>3. CASE pc' = "columns" /\ plan' = <<Statement("CREATE TABLE", TableName, Fields)>> /\ changed' = changed
  <2> DEFINE create == Statement("CREATE TABLE", TableName, Fields)
  <2>1. StatementOK(create, Fields)
    BY CreateIsOK
  <2> HIDE DEF create
  <2> DEFINE S == {create}
  <2>2. <<create>> \in Seq(S) /\ \A x \in S : StatementOK(x, Fields)
    BY <2>1
  <2> HIDE DEF S
  <2>3. ListOK(<<create>>, Fields)
    BY <2>2, ListIsOK
  <2>. QED
    BY <1>1, <1>3, <2>3 DEF PlanInv, Phases, create
<1>4. CASE Compare
  <2> DEFINE alters == Alters(D, table.cols, Fields, site.allowDrop)
  <2>1. ListOK(alters, Fields)
    BY <1>1, AltersAreOK DEF PlanInv, TablesInv, TableOK
  <2> HIDE DEF alters
  <2>2. ListOK(GuardedPlan(alters, table.idx), Fields)
    BY <2>1, GuardedPlanIsOK DEF TablesInv, TableOK
  <2>3. ListOK(Adds(alters), Fields) /\ ListOK(Where(alters, LAMBDA c : c.op = "ADD"), Fields)
    BY <2>1, AddsAreOK
  <2>4. /\ pc' \in {"columns", "begin"}
        /\ plan' \in {<<>>, alters, GuardedPlan(alters, table.idx)}
        /\ changed' \in {Adds(alters), Where(alters, LAMBDA c : c.op = "ADD")}
    BY <1>4 DEF Compare, alters
  <2>5. ListOK(<<>>, Fields)
    BY NoStatements
  <2>6. ListOK(plan', Fields) /\ ListOK(changed', Fields)
    BY <2>1, <2>2, <2>3, <2>4, <2>5
  <2>. QED
    BY <1>1, <2>4, <2>6 DEF PlanInv, Phases
<1>. QED
  BY <1>2, <1>3, <1>4 DEF Inspect

LEMMA PlanPreflight ==
    ASSUME PlanInv, Preflight
    PROVE  PlanInv'
<1>1. Fields' = Fields /\ plan # <<>>
  BY FieldsKept DEF Preflight
<1>2. plan' \in {Tail(plan), [plan EXCEPT ![1].check = FALSE]}
  BY DEF Preflight
<1>3. ListOK(Tail(plan), Fields) /\ ListOK([plan EXCEPT ![1].check = FALSE], Fields)
  BY <1>1, HeadAndTail, CountedIsOK DEF PlanInv
<1>. QED
  BY <1>1, <1>2, <1>3 DEF PlanInv, Preflight

LEMMA PlanExecute ==
    ASSUME PlanInv, Execute
    PROVE  PlanInv'
<1>1. Fields' = Fields /\ plan # <<>> /\ plan' = Tail(plan)
  BY FieldsKept DEF Execute
<1>2. ListOK(plan', Fields)
  BY <1>1, HeadAndTail DEF PlanInv
<1>. QED
  BY <1>1, <1>2 DEF PlanInv, Execute

LEMMA PlanBegin ==
    ASSUME PlanInv, Begin
    PROVE  PlanInv'
<1>1. site' = site /\ schema' = schema /\ Fields' = Fields
  BY FieldsKept DEF Begin
<1>2. CASE Ended(TRUE, Faulty)
  BY <1>1, <1>2, EndedIsOK
<1>3. CASE pc' = "temp" /\ UNCHANGED <<plan, changed>>
  BY <1>1, <1>3 DEF PlanInv, Begin, Phases, Rebuilding
<1>. QED
  BY <1>2, <1>3 DEF Begin

LEMMA PlanRebuild ==
    ASSUME PlanInv, RebuildStep \/ Undo
    PROVE  PlanInv'
<1>1. Fields' = Fields
  BY FieldsKept DEF RebuildStep, Undo, world
<1>2. /\ UNCHANGED <<site, schema, plan, changed>> /\ pc # "idle"
      /\ pc' \in {"copy", "drop", "rename", "commit", "columns"}
  BY DEF RebuildStep, Undo, world
<1>. QED
  BY <1>1, <1>2 DEF PlanInv, Phases, Rebuilding

LEMMA PlanReadIndexes ==
    ASSUME PlanInv, TablesInv, ReadIndexes
    PROVE  PlanInv'
<1>1. site' = site /\ schema' = schema /\ pc = "columns" /\ Fields' = Fields
  BY FieldsKept DEF ReadIndexes
<1>2. CASE ToTrigger(TRUE, Faulty) \/ ToTrigger(TRUE, sync)
  BY <1>1, <1>2, EndedIsOK
<1>3. CASE /\ plan' = IndexPass(site.server, Fields, Schemas[schema].indexes, TableName, table.idx)
           /\ pc' = "indexes" /\ changed' = changed
  <2>1. IsFiniteSet(DOMAIN Schemas[schema].indexes)
    BY <1>1, SyncAssumption DEF PlanInv
  <2>2. ListOK(plan', Fields)
    BY <1>3, <2>1, IndexPassIsOK DEF TablesInv, TableOK
  <2>. QED
    BY <1>1, <1>3, <2>2 DEF PlanInv, Phases
<1>. QED
  BY <1>2, <1>3 DEF ReadIndexes

LEMMA PlanVerify ==
    ASSUME PlanInv, Verify \/ VerifyAgain \/ AttachTrigger
    PROVE  PlanInv'
<1>1. site' = site /\ schema' = schema /\ pc # "idle" /\ Fields' = Fields
  BY FieldsKept DEF Verify, VerifyAgain, AttachTrigger
<1>2. CASE \E errs, note : Ended(errs, note) \/ ToTrigger(errs, note)
  BY <1>1, <1>2, EndedIsOK
<1>3. CASE pc' = "reissue" /\ plan' = MissingColumns(table.cols, changed) /\ changed' = changed
  <2>1. ListOK(plan', Fields)
    BY <1>3, MissingAreOK DEF PlanInv
  <2>. QED
    BY <1>1, <1>3, <2>1 DEF PlanInv, Phases
<1>. QED
  BY <1>2, <1>3 DEF Verify, VerifyAgain, AttachTrigger

LEMMA PlanCrash ==
    ASSUME PlanInv, Crash
    PROVE  PlanInv'
<1>1. site' = site /\ schema' = schema /\ Ended(TRUE, Faulty)
  BY DEF Crash
<1>. QED
  BY <1>1, EndedIsOK

LEMMA PlanInsert ==
    ASSUME PlanInv, NEW r \in Row, NEW full \in BOOLEAN, Insert(r, full)
    PROVE  PlanInv'
<1>1. Fields' = Fields
  BY FieldsKept DEF Insert
<1>. QED
  BY <1>1 DEF PlanInv, Insert

LEMMA PlanStep ==
    ASSUME PlanInv, TablesInv, [Next]_vars
    PROVE  PlanInv'
<1>1. CASE UNCHANGED vars
  <2>1. Fields' = Fields
    BY <1>1, FieldsKept DEF vars
  <2>. QED
    BY <1>1, <2>1 DEF vars, PlanInv
<1>2. CASE \E n \in DOMAIN Schemas : StartSync(n)
  BY <1>2, PlanStart
<1>3. CASE Step
  BY <1>3, PlanInspect, PlanPreflight, PlanExecute, PlanBegin, PlanRebuild, PlanReadIndexes,
     PlanVerify DEF Step
<1>4. CASE Crash
  BY <1>4, PlanCrash
<1>5. CASE \E r \in Row, full \in BOOLEAN : Insert(r, full)
  BY <1>5, PlanInsert
<1>. QED
  BY <1>1, <1>2, <1>3, <1>4, <1>5 DEF Next

-----------------------------------------------------------------------------
(* What is owed stays on disk                                              *)

\* The tables and what they hold, the columns of the definition being a list.
Inv == PlanInv /\ TablesInv /\ OwedInv

TheTables == <<table, temp, saved, open>>

\* A step that leaves the tables, the definition and the owed values alone.
LEMMA NothingMoves ==
    ASSUME Inv, UNCHANGED <<TheTables, site, schema, owed>>,
           \/ pc' = pc
           \/ pc \notin {"idle"} \cup Rebuilding /\ pc' \notin Rebuilding
    PROVE  (TablesInv /\ OwedInv)'
<1>1. Fields' = Fields
  BY FieldsKept
<1>2. TablesInv'
  BY DEF Inv, TablesInv, TheTables, TableOK
<1>3. Durable' = Durable
  BY DEF Durable, TheTables
<1>4. OwedInv'
  BY <1>1, <1>3 DEF Inv, OwedInv, TheTables, Rebuilding, Holds
<1>. QED
  BY <1>2, <1>4

LEMMA OwedStart ==
    ASSUME Inv, NEW n \in DOMAIN Schemas, StartSync(n)
    PROVE  (TablesInv /\ OwedInv)'
<1>1. TablesInv'
  BY DEF Inv, TablesInv, TableOK, StartSync
<1>2. /\ Durable' = Durable /\ UNCHANGED open /\ pc = "idle" /\ pc' = "inspect"
      /\ owed' = [r \in DOMAIN owed |-> owed[r] \cap FieldNames(AllFields[D][n])]
  BY DEF StartSync, Durable
<1>3. Fields' = AllFields[D][n]
  BY DEF StartSync, Fields, D
<1>4. OwedInv'
  BY <1>2, <1>3 DEF Inv, OwedInv, Holds, Rebuilding
<1>. QED
  BY <1>1, <1>4

LEMMA FieldsAreFinite ==
    ASSUME PlanInv, pc # "idle"
    PROVE  IsFiniteSet(FieldNames(Fields))
  BY FieldsLength DEF PlanInv

LEMMA OwedExecute ==
    ASSUME Inv, Execute
    PROVE  (TablesInv /\ OwedInv)'
<1>1. /\ pc \in {"columns", "indexes", "reissue"} /\ plan # <<>> /\ ~open
      /\ UNCHANGED <<temp, saved, open, pc, site, schema, owed>>
  BY DEF Execute, Inv, OwedInv, Rebuilding
<1>2. CASE table' = table
  BY <1>1, <1>2, NothingMoves DEF TheTables
<1>3. CASE Fits(table, Head(plan)) /\ table' = Executed(table, Head(plan))
  <2>1. StatementOK(Head(plan), Fields)
    BY <1>1, HeadAndTail DEF Inv, PlanInv
  <2>2. IsFiniteSet(FieldNames(Fields))
    BY <1>1, FieldsAreFinite DEF Inv
  <2>3. /\ ~table.exists => DOMAIN owed = {}
        /\ \A r \in DOMAIN owed : owed[r] \subseteq FieldNames(Fields)
        /\ Holds(table) /\ TableOK(table)
    BY <1>1 DEF Inv, OwedInv, TablesInv, Durable
  <2>4. TableOK(table') /\ (~table'.exists => DOMAIN owed = {}) /\ Holds(table')
    BY <1>3, <2>1, <2>2, <2>3, ExecutedKeeps
  <2>5. Fields' = Fields
    BY <1>1, FieldsKept
  <2>6. Durable' = table'
    BY <1>1 DEF Durable
  <2>7. TablesInv'
    BY <1>1, <2>4 DEF TablesInv, Inv, TableOK
  <2>8. OwedInv'
    BY <1>1, <2>3, <2>4, <2>5, <2>6 DEF OwedInv, Inv, Holds, Rebuilding
  <2>. QED
    BY <2>7, <2>8
<1>. QED
  BY <1>2, <1>3 DEF Execute

LEMMA OwedBegin ==
    ASSUME Inv, Begin
    PROVE  (TablesInv /\ OwedInv)'
<1>1. CASE pc' = "temp" /\ saved' = table /\ open' = TRUE
  <2>1. /\ pc = "begin" /\ ~open /\ UNCHANGED <<site, table, temp, schema, owed>> /\ Fields' = Fields
    BY FieldsKept DEF Begin, Inv, OwedInv, Rebuilding
  <2>2. TablesInv'
    BY <1>1, <2>1 DEF TablesInv, Inv, TableOK
  <2>3. Durable' = Durable
    BY <1>1, <2>1 DEF Durable
  <2>4. OwedInv'
    BY <1>1, <2>1, <2>3 DEF OwedInv, Inv, Rebuilding, Holds
  <2>. QED
    BY <2>2, <2>4
<1>2. CASE Ended(TRUE, Faulty) /\ UNCHANGED <<saved, open>>
  <2>1. pc = "begin" /\ pc' = "idle" /\ UNCHANGED <<TheTables, site, schema, owed>>
    BY <1>2 DEF Begin, Ended, TheTables
  <2>. QED
    BY <2>1, NothingMoves DEF Rebuilding
<1>. QED
  BY <1>1, <1>2 DEF Begin

\* The copy holds every value that is owed.
LEMMA CopyHolds ==
    ASSUME Inv, pc = "copy"
    PROVE  TableOK(CopyOf(table)) /\ CopyOf(table).exists /\ Holds(CopyOf(table))
<1> DEFINE rows == [r \in DOMAIN table.rows |->
                (table.rows[r] \cap Copied) \cup {c \in DOMAIN temp.cols \ Copied : temp.cols[c].default # ""}]
<1>1. CopyOf(table) = [temp EXCEPT !.rows = rows]
  BY Zenon DEF CopyOf
<1>2. DOMAIN rows = DOMAIN table.rows /\ \A r \in DOMAIN table.rows : table.rows[r] \cap Copied \subseteq rows[r]
  OBVIOUS
<1>3. IsFiniteSet(DOMAIN temp.cols) /\ IsFiniteSet(DOMAIN temp.idx)
  BY DEF Inv, TablesInv, TableOK
<1> HIDE DEF rows
<1>4. CopyOf(table) = Table(temp.exists, temp.cols, temp.idx, rows, temp.trigger)
  BY <1>1, Replacing DEF Inv, TablesInv
<1>5. /\ TableOK(CopyOf(table)) /\ CopyOf(table).exists = temp.exists
      /\ CopyOf(table).cols = temp.cols /\ CopyOf(table).rows = rows
  BY <1>3, <1>4, IsTable
<1>6. /\ temp.exists /\ DOMAIN temp.cols = FieldNames(Fields)
      /\ \A r \in DOMAIN owed : r \in DOMAIN table.rows
                                /\ owed[r] \subseteq table.rows[r] \cap DOMAIN table.cols \cap FieldNames(Fields)
  BY DEF Inv, OwedInv, Holds, Durable, Rebuilding
<1>7. Holds(CopyOf(table))
  BY <1>2, <1>5, <1>6 DEF Holds, Copied
<1>. QED
  BY <1>5, <1>6, <1>7

LEMMA OwedRebuild ==
    ASSUME Inv, RebuildStep
    PROVE  (TablesInv /\ OwedInv)'
<1>1. /\ UNCHANGED <<site, schema, owed>> /\ Fields' = Fields /\ pc \in Rebuilding /\ open
  BY FieldsKept DEF RebuildStep, world, Inv, OwedInv, Rebuilding
<1>2. CASE pc = "temp"
  <2>1. pc' = "copy" /\ temp' = Built(Fields) /\ UNCHANGED <<table, saved, open>>
    BY <1>2 DEF RebuildStep
  <2>2. IsFiniteSet(FieldNames(Fields))
    BY <1>2, FieldsAreFinite DEF Inv
  <2>3. TableOK(temp') /\ temp'.exists /\ DOMAIN temp'.cols = FieldNames(Fields)
    BY <2>1, <2>2, BuiltIsOK, Zenon
  <2>4. TablesInv' /\ Durable' = Durable
    BY <2>1, <2>3 DEF TablesInv, Inv, Durable, TableOK
  <2>5. OwedInv'
    BY <1>1, <1>2, <2>1, <2>3, <2>4 DEF OwedInv, Inv, Rebuilding, Holds
  <2>. QED
    BY <2>4, <2>5
<1>3. CASE pc = "copy"
  <2>1. pc' = "drop" /\ temp' = CopyOf(table) /\ UNCHANGED <<table, saved, open>>
    BY <1>3 DEF RebuildStep
  <2>2. TableOK(temp') /\ temp'.exists /\ Holds(temp')
    BY <1>3, <2>1, CopyHolds
  <2>3. TablesInv' /\ Durable' = Durable
    BY <2>1, <2>2 DEF TablesInv, Inv, Durable, TableOK
  <2>4. OwedInv'
    BY <1>1, <1>3, <2>1, <2>2, <2>3 DEF OwedInv, Inv, Rebuilding, Holds
  <2>. QED
    BY <2>3, <2>4
<1>4. CASE pc = "drop"
  <2>1. pc' = "rename" /\ table' = NoTable /\ UNCHANGED <<temp, saved, open>>
    BY <1>4 DEF RebuildStep
  <2>2. TablesInv' /\ Durable' = Durable
    BY <1>1, <2>1, NoTableIsOK DEF TablesInv, Inv, Durable, TableOK
  <2>3. OwedInv'
    BY <1>1, <1>4, <2>1, <2>2 DEF OwedInv, Inv, Rebuilding, Holds
  <2>. QED
    BY <2>2, <2>3
<1>5. CASE pc = "rename"
  <2>1. pc' = "commit" /\ table' = temp /\ temp' = NoTable /\ UNCHANGED <<saved, open>>
    BY <1>5 DEF RebuildStep
  <2>2. TablesInv' /\ Durable' = Durable
    BY <1>1, <2>1, NoTableIsOK DEF TablesInv, Inv, Durable, TableOK
  <2>3. OwedInv'
    BY <1>1, <1>5, <2>1, <2>2 DEF OwedInv, Inv, Rebuilding, Holds
  <2>. QED
    BY <2>2, <2>3
<1>6. CASE pc = "commit"
  <2>1. pc' = "columns" /\ open' = FALSE /\ saved' = NoTable /\ UNCHANGED <<table, temp>>
    BY <1>6 DEF RebuildStep
  <2>2. TablesInv' /\ Durable' = table
    BY <1>1, <2>1, NoTableIsOK DEF TablesInv, Inv, Durable, TableOK
  <2>3. OwedInv'
    BY <1>1, <1>6, <2>1, <2>2 DEF OwedInv, Inv, Rebuilding, Holds
  <2>. QED
    BY <2>2, <2>3
<1>. QED
  BY <1>1, <1>2, <1>3, <1>4, <1>5, <1>6 DEF Rebuilding

\* A rebuild that is undone, or a process that dies, leaves the table on disk.
LEMMA OwedBack ==
    ASSUME Inv, Undo \/ Crash
    PROVE  (TablesInv /\ OwedInv)'
<1>1. /\ UNCHANGED <<site, schema, owed>> /\ pc # "idle" /\ Fields' = Fields
      /\ pc' \in {"idle", "columns"} /\ table' = Durable /\ temp' = NoTable /\ saved' = NoTable
      /\ open' = FALSE
  BY FieldsKept DEF Undo, Crash, Ended, Durable, Inv, OwedInv, Rebuilding
<1>2. TablesInv' /\ Durable' = Durable
  BY <1>1, NoTableIsOK DEF TablesInv, Inv, Durable, TableOK
<1>3. OwedInv'
  BY <1>1, <1>2 DEF OwedInv, Inv, Rebuilding, Holds
<1>. QED
  BY <1>2, <1>3

LEMMA OwedTrigger ==
    ASSUME Inv, AttachTrigger
    PROVE  (TablesInv /\ OwedInv)'
<1>1. pc = "trigger" /\ pc' = "idle" /\ ~open /\ UNCHANGED <<site, temp, saved, open, schema, owed>>
  BY DEF AttachTrigger, Ended, Inv, OwedInv, Rebuilding
<1>2. CASE table' = table
  BY <1>1, <1>2, NothingMoves DEF TheTables, Rebuilding
<1>3. CASE table' = [table EXCEPT !.trigger = table.exists]
  <2>1. table' = Table(table.exists, table.cols, table.idx, table.rows, table.exists)
    BY <1>3, Replacing DEF Inv, TablesInv
  <2>2. TableOK(table') /\ table'.exists = table.exists /\ table'.cols = table.cols /\ table'.rows = table.rows
    BY <2>1, IsTable DEF Inv, TablesInv, TableOK
  <2>3. TablesInv' /\ Durable' = table' /\ Durable = table
    BY <1>1, <2>2 DEF TablesInv, Inv, Durable, TableOK
  <2>4. OwedInv'
    BY <1>1, <2>2, <2>3 DEF OwedInv, Inv, Rebuilding, Holds
  <2>. QED
    BY <2>3, <2>4
<1>. QED
  BY <1>2, <1>3 DEF AttachTrigger

LEMMA OwedInsert ==
    ASSUME Inv, NEW r \in Row, NEW full \in BOOLEAN, Insert(r, full)
    PROVE  (TablesInv /\ OwedInv)'
<1> DEFINE written == IF full THEN DOMAIN table.cols
                      ELSE {c \in DOMAIN table.cols : table.cols[c].null = "NO" \/ table.cols[c].key = "PRI"}
           stored  == written \cup {c \in DOMAIN table.cols : table.cols[c].default # ""}
           rows    == Entered(table.rows, r, stored)
           due     == written \cap FieldNames(Fields)
<1>1. /\ table.exists /\ r \notin DOMAIN table.rows /\ (open => pc = "temp")
      /\ table' = [table EXCEPT !.rows = rows]
      /\ saved' = IF open THEN table' ELSE saved
      /\ owed' = Entered(owed, r, due)
      /\ UNCHANGED <<site, temp, open, pc, schema>>
  BY DEF Insert
<1>2. written \subseteq DOMAIN table.cols /\ written \subseteq stored
  OBVIOUS
<1> HIDE DEF written, stored
<1>3. /\ DOMAIN rows = DOMAIN table.rows \cup {r} /\ rows[r] = stored
      /\ \A q \in DOMAIN table.rows : q # r => rows[q] = table.rows[q]
  BY DEF Entered
<1>4. /\ DOMAIN owed' = DOMAIN owed \cup {r} /\ owed'[r] = due
      /\ \A q \in DOMAIN owed : q # r => owed'[q] = owed[q]
  BY <1>1 DEF Entered
<1> HIDE DEF rows
<1>5. table' = Table(table.exists, table.cols, table.idx, rows, table.trigger)
  BY <1>1, Replacing DEF Inv, TablesInv
<1>6. TableOK(table') /\ table'.exists = table.exists /\ table'.cols = table.cols /\ table'.rows = rows
  BY <1>5, IsTable DEF Inv, TablesInv, TableOK
<1>7. TablesInv'
  BY <1>1, <1>6 DEF TablesInv, Inv, TableOK
<1>8. Durable = table /\ Durable' = table' /\ Fields' = Fields
  BY <1>1, FieldsKept DEF Durable, Inv, OwedInv
<1>9. Holds(table)'
  BY <1>1, <1>2, <1>3, <1>4, <1>6, <1>8 DEF Holds, Inv, OwedInv
<1>10. OwedInv'
  BY <1>1, <1>4, <1>6, <1>8, <1>9 DEF OwedInv, Inv, Rebuilding, Holds
<1>. QED
  BY <1>7, <1>10

LEMMA OwedRest ==
    ASSUME Inv, Inspect \/ Preflight \/ ReadIndexes \/ Verify \/ VerifyAgain
    PROVE  (TablesInv /\ OwedInv)'
<1>1. UNCHANGED <<TheTables, site, schema, owed>>
  BY DEF Inspect, Preflight, ReadIndexes, Verify, VerifyAgain, TheTables
<1>2. \/ pc' = pc
      \/ pc \in {"inspect", "columns", "indexes", "reissue"} /\ pc' \notin Rebuilding
  BY DEF Inspect, Preflight, ReadIndexes, Verify, VerifyAgain, Compare, Ended, ToTrigger, Rebuilding
<1>. QED
  BY <1>1, <1>2, NothingMoves DEF Rebuilding

LEMMA OwedStep ==
    ASSUME Inv, [Next]_vars
    PROVE  (TablesInv /\ OwedInv)'
<1>1. CASE UNCHANGED vars
  BY <1>1, NothingMoves DEF vars, TheTables
<1>2. CASE \E n \in DOMAIN Schemas : StartSync(n)
  BY <1>2, OwedStart
<1>3. CASE Step
  BY <1>3, OwedRest, OwedExecute, OwedBegin, OwedRebuild, OwedBack, OwedTrigger DEF Step
<1>4. CASE Crash
  BY <1>4, OwedBack
<1>5. CASE \E r \in Row, full \in BOOLEAN : Insert(r, full)
  BY <1>5, OwedInsert
<1>. QED
  BY <1>1, <1>2, <1>3, <1>4, <1>5 DEF Next

LEMMA InvInit == Init => Inv
<1> SUFFICES ASSUME Init PROVE Inv
  OBVIOUS
<1>1. PlanInv
  BY PlanInit
<1>2. TablesInv
  BY NoTableIsOK DEF Init, TablesInv
<1>3. DOMAIN owed = {} /\ pc = "idle" /\ open = FALSE
  BY DEF Init
<1>4. OwedInv
  BY <1>3 DEF OwedInv, Holds, Rebuilding
<1>. QED
  BY <1>1, <1>2, <1>4 DEF Inv

LEMMA InvAlways == Spec => []Inv
<1>1. Inv /\ [Next]_vars => Inv'
  BY PlanStep, OwedStep DEF Inv
<1>. QED
  BY <1>1, InvInit, PTL DEF Spec

\* Whatever becomes of a sync - refused statements, failed, lost and abandoned ones,
\* a rebuild undone, a crash between any two statements - every row stays on disk
\* with every value written to a column that each definition since declares.
THEOREM DataSurvives == Spec => []DeclaredDataSurvives
<1>1. Inv => DeclaredDataSurvives
  BY DEF Inv, OwedInv, Holds, DeclaredDataSurvives
<1>. QED
  BY <1>1, InvAlways, PTL

-----------------------------------------------------------------------------
(* What a clean sync leaves: the columns and the trigger                   *)

\* What is filtered out of a list of statements, and what is not.
LEMMA AddsElements ==
    ASSUME NEW alters, ListOK(alters, Fields)
    PROVE  LET adds == Where(alters, LAMBDA c : c.op = "ADD")
           IN  /\ \A x \in ToSet(Adds(alters)) : x.op \in {"ADD", "CHANGE"}
               /\ \A x \in ToSet(adds) : x.op = "ADD"
               /\ \A x \in ToSet(alters) : x.op = "ADD" => x \in ToSet(Adds(alters)) /\ x \in ToSet(adds)
<1> DEFINE S == ToSet(alters)
           f == [i \in 1 .. Len(alters) |-> IF alters[i].op \in {"ADD", "CHANGE"} THEN <<alters[i]>> ELSE <<>>]
           g == [i \in 1 .. Len(alters) |-> IF alters[i].op = "ADD" THEN <<alters[i]>> ELSE <<>>]
<1>1. /\ alters \in Seq(S) /\ DOMAIN alters = 1 .. Len(alters) /\ Len(alters) \in Nat
      /\ S = {alters[i] : i \in 1 .. Len(alters)}
  <2>1. alters \in Seq(S)
    BY DEF ListOK
  <2>2. DOMAIN alters = 1 .. Len(alters) /\ Len(alters) \in Nat
    <3> HIDE DEF S
    <3>. QED
      BY <2>1
  <2>. QED
    BY <2>1, <2>2 DEF ToSet
<1> HIDE DEF S
<1>2. \A i \in 1 .. Len(alters) : ToSet(<<alters[i]>>) = {alters[i]}
  BY <1>1 DEF ToSet
<1>3. f \in Seq(Seq(S)) /\ g \in Seq(Seq(S)) /\ Len(f) = Len(alters) /\ Len(g) = Len(alters)
  <2>1. \A i \in 1 .. Len(alters) : <<alters[i]>> \in Seq(S)
    BY <1>1
  <2>2. f \in [1 .. Len(alters) -> Seq(S)] /\ g \in [1 .. Len(alters) -> Seq(S)]
    BY <2>1
  <2>3. Len(f) = Len(alters) /\ Len(g) = Len(alters)
    BY <1>1
  <2>. QED
    BY <1>1, <2>2, <2>3
<1>4. ToSet(<<>>) = {}
  BY DEF ToSet
<1>5. \A i \in 1 .. Len(alters) :
         /\ f[i] = IF alters[i].op \in {"ADD", "CHANGE"} THEN <<alters[i]>> ELSE <<>>
         /\ g[i] = IF alters[i].op = "ADD" THEN <<alters[i]>> ELSE <<>>
  OBVIOUS
<1> HIDE DEF f, g
<1>6. /\ \A i \in 1 .. Len(alters) : ToSet(f[i]) \subseteq ToSet(FlattenSeq(f))
      /\ \A x \in ToSet(FlattenSeq(f)) : \E i \in 1 .. Len(alters) : x \in ToSet(f[i])
  BY <1>3, FlattenSeqElements
<1>7. /\ \A i \in 1 .. Len(alters) : ToSet(g[i]) \subseteq ToSet(FlattenSeq(g))
      /\ \A x \in ToSet(FlattenSeq(g)) : \E i \in 1 .. Len(alters) : x \in ToSet(g[i])
  BY <1>3, FlattenSeqElements
<1>8. \A x \in ToSet(FlattenSeq(f)) : x.op \in {"ADD", "CHANGE"}
  BY <1>2, <1>4, <1>5, <1>6
<1>9. \A x \in ToSet(FlattenSeq(g)) : x.op = "ADD"
  BY <1>2, <1>4, <1>5, <1>7
<1>10. \A x \in S : x.op = "ADD" => x \in ToSet(FlattenSeq(f)) /\ x \in ToSet(FlattenSeq(g))
  <2>. SUFFICES ASSUME NEW i \in 1 .. Len(alters), alters[i].op = "ADD"
                PROVE  alters[i] \in ToSet(FlattenSeq(f)) /\ alters[i] \in ToSet(FlattenSeq(g))
    BY <1>1
  <2>1. f[i] = <<alters[i]>> /\ g[i] = <<alters[i]>>
    BY <1>5
  <2>2. alters[i] \in ToSet(f[i]) /\ alters[i] \in ToSet(g[i])
    BY <1>2, <2>1
  <2>. QED
    BY <1>6, <1>7, <2>2
<1>11. Adds(alters) = FlattenSeq(f) /\ Where(alters, LAMBDA c : c.op = "ADD") = FlattenSeq(g)
  BY Zenon DEF Adds, Where, f, g
<1>. QED
  BY <1>8, <1>9, <1>10, <1>11 DEF S

\* The statements that are issued again are for the columns that are not there.
LEMMA MissingElements ==
    ASSUME NEW cols, NEW list, ListOK(list, Fields)
    PROVE  /\ \A x \in ToSet(MissingColumns(cols, list)) : x \in ToSet(list)
           /\ MissingColumns(cols, list) = <<>> => \A x \in ToSet(list) : x.name \in DOMAIN cols
<1> DEFINE S == ToSet(list)
           f == [i \in 1 .. Len(list) |-> IF list[i].name \notin DOMAIN cols THEN <<list[i]>> ELSE <<>>]
<1>1. /\ list \in Seq(S) /\ Len(list) \in Nat
      /\ S = {list[i] : i \in 1 .. Len(list)}
  <2>1. list \in Seq(S)
    BY DEF ListOK
  <2>2. DOMAIN list = 1 .. Len(list) /\ Len(list) \in Nat
    <3> HIDE DEF S
    <3>. QED
      BY <2>1
  <2>. QED
    BY <2>1, <2>2 DEF ToSet
<1> HIDE DEF S
<1>2. \A i \in 1 .. Len(list) : ToSet(<<list[i]>>) = {list[i]} /\ list[i] \in S
  BY <1>1 DEF ToSet
<1>3. f \in Seq(Seq(S)) /\ Len(f) = Len(list)
  <2>1. \A i \in 1 .. Len(list) : <<list[i]>> \in Seq(S)
    BY <1>1
  <2>2. f \in [1 .. Len(list) -> Seq(S)]
    BY <2>1
  <2> DEFINE n == Len(list)
             Q == Seq(S)
  <2>3. n \in Nat /\ f \in [1 .. n -> Q]
    BY <1>1, <2>2
  <2> HIDE DEF f, n, Q
  <2>4. f \in Seq(Q) /\ Len(f) = n
    BY <2>3, ListType
  <2>. QED
    BY <2>4 DEF n, Q
<1>4. ToSet(<<>>) = {}
  BY DEF ToSet
<1>5. \A i \in 1 .. Len(list) : f[i] = IF list[i].name \notin DOMAIN cols THEN <<list[i]>> ELSE <<>>
  OBVIOUS
<1> HIDE DEF f
<1>6. /\ \A i \in 1 .. Len(list) : ToSet(f[i]) \subseteq ToSet(FlattenSeq(f))
      /\ \A x \in ToSet(FlattenSeq(f)) : \E i \in 1 .. Len(list) : x \in ToSet(f[i])
  BY <1>3, FlattenSeqElements
<1>7. \A x \in ToSet(FlattenSeq(f)) : x \in S
  <2>1. \A i \in 1 .. Len(list) : ToSet(f[i]) \subseteq S
    BY <1>2, <1>4, <1>5
  <2>. QED
    BY <1>6, <2>1
<1>8. FlattenSeq(f) = <<>> => \A x \in S : x.name \in DOMAIN cols
  BY <1>1, <1>2, <1>4, <1>5, <1>6
<1>9. MissingColumns(cols, list) = FlattenSeq(f)
  BY Zenon DEF MissingColumns, Where, f
<1>. QED
  BY <1>7, <1>8, <1>9 DEF S

\* A declared column that is not there gets an ADD.
LEMMA AltersElements ==
    ASSUME site \in [server : Servers, allowDrop : BOOLEAN, family : Families],
           schema \in DOMAIN Schemas, NEW cols, IsFiniteSet(DOMAIN cols)
    PROVE  \A c \in FieldNames(Fields) \ DOMAIN cols :
              \E x \in ToSet(Alters(D, cols, Fields, site.allowDrop)) : x.op = "ADD" /\ x.name = c
<1> DEFINE P(f) == \/ f.field \notin DOMAIN cols
                   \/ NeedsChange(Explained(D, cols[f.field]), f)
           g == [i \in 1 .. Len(Fields) |-> IF P(Fields[i]) THEN <<Fields[i]>> ELSE <<>>]
           touched == Where(Fields, LAMBDA f : \/ f.field \notin DOMAIN cols
                                               \/ NeedsChange(Explained(D, cols[f.field]), f))
           drop == ToDrop(cols, Fields)
           s == [i \in 1 .. Len(touched) |-> Alter(D, cols, touched[i])]
           t == [i \in 1 .. Cardinality(drop) |-> Statement("DROP", SetToSeq(drop)[i], "")]
<1>1. PICK S : Fields \in Seq(S)
  BY FieldsLength
<1>2. Len(Fields) \in Nat /\ \A i \in 1 .. Len(Fields) : <<Fields[i]>> \in Seq(S)
  BY <1>1
<1>3. g \in Seq(Seq(S)) /\ Len(g) = Len(Fields)
  <2> HIDE DEF P
  <2>1. g \in [1 .. Len(Fields) -> Seq(S)]
    BY <1>2
  <2>. QED
    BY <1>2, <2>1
<1>4. touched = FlattenSeq(g)
  BY Zenon DEF Where
<1>5. \A i \in 1 .. Len(Fields) : P(Fields[i]) => Fields[i] \in ToSet(touched)
  <2>1. \A i \in 1 .. Len(Fields) : P(Fields[i]) => g[i] = <<Fields[i]>>
    <3> HIDE DEF P
    <3>. QED
      OBVIOUS
  <2>2. \A i \in 1 .. Len(Fields) : ToSet(g[i]) \subseteq ToSet(FlattenSeq(g))
    <3> HIDE DEF g
    <3>. QED
      BY <1>3, FlattenSeqElements
  <2>3. \A x : x \in ToSet(<<x>>)
    BY DEF ToSet
  <2> HIDE DEF g, P, touched
  <2>. QED
    BY <1>4, <2>1, <2>2, <2>3
<1>6. touched \in Seq(S)
  <2> HIDE DEF g, touched
  <2>. QED
    BY <1>3, <1>4, FlattenSeqType
<1>7. Len(touched) \in Nat /\ \A x \in ToSet(touched) : \E i \in 1 .. Len(touched) : x = touched[i]
  <2> HIDE DEF touched
  <2>. QED
    BY <1>6 DEF ToSet
<1>8. ListOK(s, Fields) /\ \A i \in 1 .. Len(touched) : s[i] \in ToSet(s)
  <2>1. DOMAIN s = 1 .. Len(touched) /\ (\A i \in 1 .. Len(touched) : s[i] = Alter(D, cols, touched[i]))
        /\ s = [i \in DOMAIN s |-> s[i]]
    <3> HIDE DEF touched
    <3>. QED
      OBVIOUS
  <2>2. \A i \in 1 .. Len(touched) : StatementOK(s[i], Fields)
    BY <2>1, AlterIsOK, Zenon
  <2> HIDE DEF s
  <2>3. ListOK(s, Fields)
    BY <1>7, <2>1, <2>2, ListOf
  <2>4. \A i \in 1 .. Len(touched) : s[i] \in ToSet(s)
    BY <2>1 DEF ToSet
  <2>. QED
    BY <2>3, <2>4
<1>9. \A i \in 1 .. Len(touched) : touched[i].field \notin DOMAIN cols =>
          s[i].op = "ADD" /\ s[i].name = touched[i].field
  <2> HIDE DEF touched
  <2>. QED
    BY DEF Alter, Statement
<1>10. ListOK(IF site.allowDrop THEN t ELSE <<>>, Fields)
  <2>1. IsFiniteSet(drop)
    BY FS_Subset DEF ToDrop
  <2>2. \A c \in drop : StatementOK(Statement("DROP", c, ""), Fields)
    BY DropIsOK DEF ToDrop
  <2>3. ListOK(t, Fields)
    BY <2>1, <2>2, ForEachName
  <2> HIDE DEF t
  <2>. QED
    BY <2>3, NoStatements, Zenon
<1>11. Alters(D, cols, Fields, site.allowDrop) = s \o (IF site.allowDrop THEN t ELSE <<>>)
  BY Zenon DEF Alters
<1> DEFINE rest == IF site.allowDrop THEN t ELSE <<>>
<1>12. ToSet(s) \subseteq ToSet(s \o rest)
  <2> HIDE DEF s, rest
  <2> DEFINE T == ToSet(s) \cup ToSet(rest)
  <2>1. s \in Seq(T) /\ rest \in Seq(T)
    <3>1. s \in Seq(ToSet(s)) /\ rest \in Seq(ToSet(rest))
      BY <1>8, <1>10 DEF ListOK, rest
    <3>. QED
      BY <3>1, SeqMonotonic
  <2> HIDE DEF T
  <2>. QED
    BY <2>1, JoinedElements
<1>13. ASSUME NEW c \in FieldNames(Fields) \ DOMAIN cols
       PROVE  \E x \in ToSet(s) : x.op = "ADD" /\ x.name = c
  <2>1. PICK i \in 1 .. Len(Fields) : Fields[i].field = c
    BY <1>13 DEF FieldNames
  <2>2. Fields[i] \in ToSet(touched)
    <3>1. P(Fields[i])
      BY <1>13, <2>1
    <3> HIDE DEF P, touched
    <3>. QED
      BY <1>5, <3>1
  <2>3. PICK k \in 1 .. Len(touched) : Fields[i] = touched[k]
    <3> HIDE DEF touched
    <3>. QED
      BY <1>7, <2>2
  <2> HIDE DEF s, touched
  <2>4. s[k].op = "ADD" /\ s[k].name = c /\ s[k] \in ToSet(s)
    BY <1>8, <1>9, <1>13, <2>1, <2>3
  <2>. QED
    BY <2>4
<1> HIDE DEF s, t
<1>. QED
  BY <1>11, <1>12, <1>13

\* What each statement makes of a table.
LEMMA ExecutedIs ==
    ASSUME NEW t, TableOK(t), NEW stmt
    PROVE  LET c == stmt.name
               f == stmt.arg
               e == Executed(t, stmt)
           IN  /\ stmt.op = "CREATE TABLE" => e = Built(f)
               /\ stmt.op = "ADD" => \E rows :
                     e = Table(t.exists, Entered(t.cols, c, NewColumn(site.server, f)), t.idx, rows, t.trigger)
               /\ stmt.op = "CHANGE" => \E cols, rows :
                     DOMAIN cols = DOMAIN t.cols /\ e = Table(t.exists, cols, t.idx, rows, t.trigger)
               /\ stmt.op = "DROP" => \E idx, rows :
                     e = Table(t.exists, Without(t.cols, {c}), idx, rows, t.trigger)
               /\ stmt.op = "CREATE INDEX" => e = Table(t.exists, t.cols, Entered(t.idx, c, ReportedIndex(D, f)), t.rows, t.trigger)
               /\ stmt.op = "DROP INDEX" => e = Table(t.exists, t.cols, Without(t.idx, {c}), t.rows, t.trigger)
<1> DEFINE c == stmt.name
           f == stmt.arg
           e == Executed(t, stmt)
<1>1. ASSUME stmt.op = "CREATE TABLE" PROVE e = Built(f)
  BY <1>1, Zenon DEF Executed
<1>2. ASSUME stmt.op = "ADD"
      PROVE  \E rows : e = Table(t.exists, Entered(t.cols, c, NewColumn(site.server, f)), t.idx, rows, t.trigger)
  <2> DEFINE cols == Entered(t.cols, c, NewColumn(site.server, f))
             rows == [r \in DOMAIN t.rows |->
                IF IsNotNull(f) \/ FieldSpec(D, f).default # "" THEN t.rows[r] \cup {c} ELSE t.rows[r]]
  <2>1. e = [t EXCEPT !.cols = cols, !.rows = rows]
    BY <1>2, Zenon DEF Executed
  <2> HIDE DEF e, cols, rows
  <2>2. e = Table(t.exists, cols, t.idx, rows, t.trigger)
    BY <2>1, Replacing
  <2>. QED
    BY <2>2 DEF cols
<1>3. ASSUME stmt.op = "CHANGE"
      PROVE  \E cols, rows : DOMAIN cols = DOMAIN t.cols /\ e = Table(t.exists, cols, t.idx, rows, t.trigger)
  <2> DEFINE cols == [t.cols EXCEPT ![c] = ModifiedColumn(site.server, @, f)]
             rows == [r \in DOMAIN t.rows |-> IF IsNotNull(f) THEN t.rows[r] \cup {c} ELSE t.rows[r]]
  <2>1. e = [t EXCEPT !.cols = cols, !.rows = rows]
    BY <1>3 DEF Executed
  <2>2. DOMAIN cols = DOMAIN t.cols
    OBVIOUS
  <2> HIDE DEF e, cols, rows
  <2>3. e = Table(t.exists, cols, t.idx, rows, t.trigger)
    BY <2>1, Replacing
  <2>. QED
    BY <2>2, <2>3
<1>4. ASSUME stmt.op = "DROP"
      PROVE  \E idx, rows : e = Table(t.exists, Without(t.cols, {c}), idx, rows, t.trigger)
  <2> DEFINE cols == Without(t.cols, {c})
             idx  == Without(t.idx, Over(t.idx, c))
             rows == [r \in DOMAIN t.rows |-> t.rows[r] \ {c}]
  <2>1. e = [t EXCEPT !.cols = cols, !.idx = idx, !.rows = rows]
    BY <1>4, Zenon DEF Executed
  <2> HIDE DEF e, cols, idx, rows
  <2>2. e = Table(t.exists, cols, idx, rows, t.trigger)
    BY <2>1, ReplacingThree
  <2>. QED
    BY <2>2 DEF cols
<1>5. ASSUME stmt.op = "CREATE INDEX"
      PROVE  e = Table(t.exists, t.cols, Entered(t.idx, c, ReportedIndex(D, f)), t.rows, t.trigger)
  <2>1. e = [t EXCEPT !.idx = Entered(t.idx, c, ReportedIndex(D, f))]
    BY <1>5 DEF Executed
  <2> HIDE DEF e
  <2>. QED
    BY <2>1, Replacing
<1>6. ASSUME stmt.op = "DROP INDEX"
      PROVE  e = Table(t.exists, t.cols, Without(t.idx, {c}), t.rows, t.trigger)
  <2>1. e = [t EXCEPT !.idx = Without(t.idx, {c})]
    BY <1>6 DEF Executed
  <2> HIDE DEF e
  <2>. QED
    BY <2>1, Replacing
<1> HIDE DEF c, f, e
<1>7. /\ stmt.op = "CREATE TABLE" => e = Built(f)
      /\ stmt.op = "ADD" => \E rows :
            e = Table(t.exists, Entered(t.cols, c, NewColumn(site.server, f)), t.idx, rows, t.trigger)
      /\ stmt.op = "CHANGE" => \E cols, rows :
            DOMAIN cols = DOMAIN t.cols /\ e = Table(t.exists, cols, t.idx, rows, t.trigger)
      /\ stmt.op = "DROP" => \E idx, rows :
            e = Table(t.exists, Without(t.cols, {c}), idx, rows, t.trigger)
      /\ stmt.op = "CREATE INDEX" => e = Table(t.exists, t.cols, Entered(t.idx, c, ReportedIndex(D, f)), t.rows, t.trigger)
      /\ stmt.op = "DROP INDEX" => e = Table(t.exists, t.cols, Without(t.idx, {c}), t.rows, t.trigger)
  BY <1>1, <1>2, <1>3, <1>4, <1>5, <1>6
<1>. QED
  BY <1>7, Zenon DEF c, f, e

\* No statement of a sync loses a declared column.
LEMMA ExecutedColumns ==
    ASSUME NEW t, TableOK(t), NEW stmt, StatementOK(stmt, Fields)
    PROVE  /\ FieldNames(Fields) \cap DOMAIN t.cols \subseteq DOMAIN Executed(t, stmt).cols
           /\ stmt.op = "CREATE TABLE" => FieldNames(Fields) = DOMAIN Executed(t, stmt).cols
           /\ t.exists \/ stmt.op = "CREATE TABLE" => Executed(t, stmt).exists
<1> DEFINE e == Executed(t, stmt)
           c == stmt.name
<1>1. CASE stmt.op = "CREATE TABLE"
  <2>1. e = Built(Fields)
    BY <1>1, ExecutedIs DEF StatementOK
  <2>2. e.exists /\ DOMAIN e.cols = FieldNames(Fields)
    <3>1. Built(Fields).exists /\ DOMAIN Built(Fields).cols = FieldNames(Fields)
      BY DEF Built
    <3> HIDE DEF e
    <3>. QED
      BY <2>1, <3>1
  <2> HIDE DEF e
  <2>3. FieldNames(Fields) \cap DOMAIN t.cols \subseteq DOMAIN e.cols /\ FieldNames(Fields) = DOMAIN e.cols /\ e.exists
    BY <2>2
  <2>. QED
    BY <2>3 DEF e
<1>2. CASE stmt.op # "CREATE TABLE"
  <2>1. \E cols, idx, rows : /\ e = Table(t.exists, cols, idx, rows, t.trigger)
                             /\ FieldNames(Fields) \cap DOMAIN t.cols \subseteq DOMAIN cols
    <3>1. CASE stmt.op = "ADD"
      <4>1. PICK rows :
               e = Table(t.exists, Entered(t.cols, c, NewColumn(site.server, stmt.arg)), t.idx, rows, t.trigger)
        BY <3>1, ExecutedIs
      <4>2. DOMAIN t.cols \subseteq DOMAIN Entered(t.cols, c, NewColumn(site.server, stmt.arg))
        BY DEF Entered
      <4> HIDE DEF e
      <4>. QED
        BY <4>1, <4>2
    <3>2. CASE stmt.op = "CHANGE"
      <4>1. PICK cols, rows : DOMAIN cols = DOMAIN t.cols /\ e = Table(t.exists, cols, t.idx, rows, t.trigger)
        BY <3>2, ExecutedIs
      <4> HIDE DEF e
      <4>. QED
        BY <4>1
    <3>3. CASE stmt.op = "DROP"
      <4>1. PICK idx, rows : e = Table(t.exists, Without(t.cols, {c}), idx, rows, t.trigger)
        BY <3>3, ExecutedIs
      <4>2. FieldNames(Fields) \cap DOMAIN t.cols \subseteq DOMAIN Without(t.cols, {c})
        BY <3>3 DEF StatementOK, Without
      <4> HIDE DEF e
      <4>. QED
        BY <4>1, <4>2
    <3>4. CASE stmt.op = "CREATE INDEX"
      <4>1. e = Table(t.exists, t.cols, Entered(t.idx, c, ReportedIndex(D, stmt.arg)), t.rows, t.trigger)
        BY <3>4, ExecutedIs
      <4> HIDE DEF e
      <4>. QED
        BY <4>1
    <3>5. CASE stmt.op = "DROP INDEX"
      <4>1. e = Table(t.exists, t.cols, Without(t.idx, {c}), t.rows, t.trigger)
        BY <3>5, ExecutedIs
      <4> HIDE DEF e
      <4>. QED
        BY <4>1
    <3>. QED
      BY <1>2, <3>1, <3>2, <3>3, <3>4, <3>5 DEF StatementOK, Ops
  <2>2. e.exists = t.exists /\ FieldNames(Fields) \cap DOMAIN t.cols \subseteq DOMAIN e.cols
    <3> HIDE DEF e
    <3>. QED
      BY <2>1 DEF Table
  <2> HIDE DEF e
  <2>3. /\ FieldNames(Fields) \cap DOMAIN t.cols \subseteq DOMAIN e.cols
        /\ t.exists \/ stmt.op = "CREATE TABLE" => e.exists
    BY <1>2, <2>2
  <2>. QED
    BY <1>2, <2>3 DEF e
<1>. QED
  BY <1>1, <1>2

\* The notes of a sync.
NoteOK(note) == note \in [faulty : BOOLEAN, blind : BOOLEAN, issued : BOOLEAN, again : BOOLEAN, clean : BOOLEAN]
NotesInv == NoteOK(sync) /\ errors \in BOOLEAN

LEMMA NotesAreOK ==
    ASSUME NotesInv
    PROVE  /\ NoteOK(Faulty) /\ Faulty.blind = sync.blind
           /\ NoteOK([Faulty EXCEPT !.blind = TRUE]) /\ [Faulty EXCEPT !.blind = TRUE].blind
  BY DEF NotesInv, NoteOK, Faulty

LEMMA EndedNotes ==
    ASSUME NEW errs \in BOOLEAN, NEW note, NoteOK(note), Ended(errs, note)
    PROVE  NotesInv' /\ errors' = errs /\ sync'.clean = ~errs /\ sync'.blind = note.blind /\ pc' = "idle"
  BY DEF Ended, NotesInv, NoteOK

LEMMA ToTriggerNotes ==
    ASSUME NEW errs \in BOOLEAN, NEW note, NoteOK(note), ToTrigger(errs, note)
    PROVE  /\ NotesInv' /\ errors' = errs /\ sync'.blind = note.blind
           /\ \/ pc' = "trigger"
              \/ /\ pc' = "idle" /\ sync'.clean = ~errs
                 /\ ~(HasUuidKey /\ Features[D].triggers /\ ~table.trigger)
<1>1. CASE HasUuidKey /\ Features[D].triggers /\ ~table.trigger
  BY <1>1 DEF ToTrigger, NotesInv
<1>2. CASE ~(HasUuidKey /\ Features[D].triggers /\ ~table.trigger)
  BY <1>2, EndedNotes DEF ToTrigger
<1>. QED
  BY <1>1, <1>2

LEMMA NotesStep ==
    ASSUME NotesInv, [Next]_vars
    PROVE  NotesInv'
<1>1. CASE UNCHANGED vars
  BY <1>1 DEF vars, NotesInv
<1>2. CASE \E n \in DOMAIN Schemas : StartSync(n)
  <2>1. PICK n : /\ errors' = FALSE
                 /\ sync' = [faulty |-> FALSE, blind |-> FALSE, issued |-> FALSE, clean |-> FALSE,
                             again |-> schema = n /\ sync.clean /\ ~sync.faulty]
    BY <1>2 DEF StartSync
  <2>2. (schema = n /\ sync.clean /\ ~sync.faulty) \in BOOLEAN
    OBVIOUS
  <2>. QED
    BY <2>1, <2>2 DEF NotesInv, NoteOK
<1>3. CASE \E r \in Row, full \in BOOLEAN : Insert(r, full)
  BY <1>3 DEF Insert, NotesInv
<1>4. CASE Inspect
  <2>1. CASE Ended(TRUE, sync)
    BY <2>1, EndedNotes DEF NotesInv
  <2>2. CASE ToTrigger(TRUE, Faulty)
    BY <2>2, ToTriggerNotes, NotesAreOK
  <2>3. CASE UNCHANGED <<errors, sync>>
    BY <2>3 DEF NotesInv
  <2>4. CASE Compare
    BY <2>4, NotesAreOK DEF Compare, NotesInv
  <2>. QED
    BY <1>4, <2>1, <2>2, <2>3, <2>4 DEF Inspect
<1>5. CASE Preflight
  BY <1>5, NotesAreOK DEF Preflight, NotesInv
<1>6. CASE Execute
  <2>1. NoteOK([sync EXCEPT !.issued = TRUE]) /\ NoteOK([[sync EXCEPT !.issued = TRUE] EXCEPT !.faulty = TRUE])
    BY DEF NotesInv, NoteOK
  <2>. QED
    BY <1>6, <2>1 DEF Execute, NotesInv
<1>7. CASE Begin
  <2>1. CASE Ended(TRUE, Faulty)
    BY <2>1, EndedNotes, NotesAreOK
  <2>2. CASE sync' = [sync EXCEPT !.issued = TRUE] /\ errors' = errors
    BY <2>2 DEF NotesInv, NoteOK
  <2>. QED
    BY <1>7, <2>1, <2>2 DEF Begin
<1>8. CASE RebuildStep
  BY <1>8 DEF RebuildStep, NotesInv
<1>9. CASE Undo
  BY <1>9, NotesAreOK DEF Undo, NotesInv
<1>10. CASE ReadIndexes \/ Verify \/ VerifyAgain
  <2>1. PICK errs, note : /\ errs \in BOOLEAN /\ NoteOK(note)
                          /\ ToTrigger(errs, note) \/ UNCHANGED <<errors, sync>>
    <3>1. (errors \/ MissingColumns(table.cols, changed) # <<>>) \in BOOLEAN
      BY DEF NotesInv
    <3>2. NoteOK(Faulty) /\ NoteOK([Faulty EXCEPT !.blind = TRUE]) /\ NoteOK(sync) /\ errors \in BOOLEAN
      BY NotesAreOK DEF NotesInv
    <3>. QED
      BY <1>10, <3>1, <3>2 DEF ReadIndexes, Verify, VerifyAgain
  <2>. QED
    BY <2>1, ToTriggerNotes DEF NotesInv
<1>11. CASE AttachTrigger \/ Crash
  BY <1>11, EndedNotes, NotesAreOK DEF AttachTrigger, Crash, NotesInv
<1>. QED
  BY <1>1, <1>2, <1>3, <1>4, <1>5, <1>6, <1>7, <1>8, <1>9, <1>10, <1>11 DEF Next, Step

\* Until an error is noted, every declared column is there, or was asked for and is
\* going to be looked for, or the table is still to be created or renamed.
Covered == FieldNames(Fields) \subseteq DOMAIN table.cols \cup {x.name : x \in ToSet(changed)}

ColumnsInv ==
    /\ pc = "columns" /\ ~errors =>
          (table.exists /\ Covered) \/ plan = <<Statement("CREATE TABLE", TableName, Fields)>>
    /\ pc \in {"indexes", "reissue"} /\ ~errors => table.exists /\ Covered
    /\ pc \in {"drop", "rename"} => DOMAIN temp.cols = FieldNames(Fields)
    /\ pc = "commit" => DOMAIN table.cols = FieldNames(Fields)
    /\ pc = "trigger" /\ ~errors => table.exists
    /\ ((pc = "trigger" /\ ~errors) \/ Clean) /\ ~sync.blind => FieldNames(Fields) \subseteq DOMAIN table.cols
    /\ Clean => (HasUuidKey /\ D = "mysql" => table.trigger)

LEMMA HeadOfOne ==
    ASSUME NEW x
    PROVE  Head(<<x>>) = x
  OBVIOUS

LEMMA CreateHead ==
    /\ Head(<<Statement("CREATE TABLE", TableName, Fields)>>).op = "CREATE TABLE"
    /\ ~Head(<<Statement("CREATE TABLE", TableName, Fields)>>).check
<1> DEFINE x == Statement("CREATE TABLE", TableName, Fields)
<1>1. x.op = "CREATE TABLE" /\ ~x.check
  BY DEF Statement
<1> HIDE DEF x
<1>2. Head(<<x>>) = x
  BY HeadOfOne
<1>3. Head(<<x>>).op = "CREATE TABLE" /\ ~Head(<<x>>).check
  BY <1>1, <1>2
<1>. QED
  BY <1>3 DEF x

\* A step that changes neither the tables nor what is known of them.
LEMMA ColumnsStay ==
    ASSUME Inv, ColumnsInv, UNCHANGED <<pc, site, schema, changed>>,
           errors => errors', sync'.clean = sync.clean /\ sync'.blind = sync.blind,
           DOMAIN table'.cols = DOMAIN table.cols, table'.exists = table.exists,
           table'.trigger = table.trigger, temp' = temp,
           pc = "columns" /\ ~errors' /\ ~table.exists => plan' = plan,
           pc = "columns" /\ ~errors' /\ ~Covered => plan' = plan
    PROVE  ColumnsInv'
<1>1. Fields' = Fields /\ HasUuidKey' = HasUuidKey /\ D' = D
  BY FieldsKept DEF HasUuidKey, D
<1>2. (Covered <=> Covered') /\ (Clean <=> Clean')
  BY <1>1 DEF Covered, Clean
<1>. QED
  BY <1>1, <1>2 DEF ColumnsInv

\* A step to the end of a sync, or to the trigger.
LEMMA ColumnsToTrigger ==
    ASSUME site' = site, schema' = schema, table' = table,
           NEW errs \in BOOLEAN, NEW note, NoteOK(note), Ended(TRUE, note) \/ ToTrigger(errs, note),
           ~errs => table.exists,
           ~errs /\ ~note.blind => FieldNames(Fields) \subseteq DOMAIN table.cols
    PROVE  ColumnsInv'
<1>1. Fields' = Fields /\ HasUuidKey' = HasUuidKey /\ D' = D
  BY FieldsKept DEF HasUuidKey, D
<1>2. CASE Ended(TRUE, note)
  <2>1. pc' = "idle" /\ sync'.clean = FALSE
    BY <1>2, EndedNotes
  <2>. QED
    BY <2>1 DEF ColumnsInv, Clean
<1>3. CASE ToTrigger(errs, note)
  <2>1. /\ errors' = errs /\ sync'.blind = note.blind
        /\ \/ pc' = "trigger"
           \/ /\ pc' = "idle" /\ sync'.clean = ~errs
              /\ ~(HasUuidKey /\ Features[D].triggers /\ ~table.trigger)
    BY <1>3, ToTriggerNotes
  <2>2. Features["mysql"].triggers
    BY DEF Features, MySqlFeatures, NoFeatures
  <2>. QED
    BY <1>1, <2>1, <2>2 DEF ColumnsInv, Clean
<1>. QED
  BY <1>2, <1>3

LEMMA ColumnsInspect ==
    ASSUME Inv, NotesInv, ColumnsInv, Inspect
    PROVE  ColumnsInv'
<1>1. site' = site /\ schema' = schema /\ table' = table /\ pc = "inspect" /\ Fields' = Fields
  BY FieldsKept DEF Inspect
<1>2. NoteOK(sync) /\ NoteOK(Faulty)
  BY NotesAreOK DEF NotesInv
<1>3. CASE Ended(TRUE, sync) \/ ToTrigger(TRUE, Faulty)
  BY <1>1, <1>2, <1>3, ColumnsToTrigger
<1>4. CASE ~table.exists /\ pc' = "columns" /\ plan' = <<Statement("CREATE TABLE", TableName, Fields)>>
  BY <1>1, <1>4 DEF ColumnsInv, Clean
<1>5. CASE table.exists /\ Compare
  <2> DEFINE alters == Alters(D, table.cols, Fields, site.allowDrop)
  <2>1. CASE pc' = "columns" /\ changed' = Adds(alters)
    <3>1. ListOK(alters, Fields)
      BY <1>1, AltersAreOK DEF Inv, PlanInv, TablesInv, TableOK
    <3>2. \A c \in FieldNames(Fields) \ DOMAIN table.cols : \E x \in ToSet(alters) : x.op = "ADD" /\ x.name = c
      BY <1>1, AltersElements DEF Inv, PlanInv, TablesInv, TableOK
    <3> HIDE DEF alters
    <3>3. \A x \in ToSet(alters) : x.op = "ADD" => x \in ToSet(Adds(alters))
      BY <3>1, AddsElements
    <3>4. Covered'
      BY <1>1, <2>1, <3>2, <3>3 DEF Covered
    <3>. QED
      BY <1>1, <1>5, <2>1, <3>4 DEF ColumnsInv, Clean
  <2>2. CASE \/ pc' = "columns" /\ errors'
             \/ pc' = "begin"
    BY <2>2 DEF ColumnsInv, Clean
  <2>. QED
    BY <1>5, <2>1, <2>2 DEF Compare
<1>. QED
  BY <1>1, <1>3, <1>4, <1>5 DEF Inspect

LEMMA ColumnsExecute ==
    ASSUME Inv, NotesInv, ColumnsInv, Execute
    PROVE  ColumnsInv'
<1> DEFINE stmt == Head(plan)
<1>1. /\ pc \in {"columns", "indexes", "reissue"} /\ plan # <<>> /\ plan' = Tail(plan)
      /\ UNCHANGED <<pc, site, schema, changed, temp>> /\ (errors => errors')
      /\ sync'.blind = sync.blind /\ sync'.clean = sync.clean
  <2> DEFINE noted == [sync EXCEPT !.issued = TRUE]
             lost == [noted EXCEPT !.faulty = TRUE]
  <2>1. /\ noted.blind = sync.blind /\ noted.clean = sync.clean
        /\ lost.blind = sync.blind /\ lost.clean = sync.clean
    BY DEF NotesInv, NoteOK
  <2>2. sync' = noted \/ sync' = lost
    BY Zenon DEF Execute
  <2>4. errors => errors'
    BY DEF Execute
  <2>3. /\ pc \in {"columns", "indexes", "reissue"} /\ plan # <<>> /\ plan' = Tail(plan)
        /\ UNCHANGED <<pc, site, schema, changed, temp>>
    BY DEF Execute
  <2> HIDE DEF noted, lost
  <2>. QED
    BY <2>1, <2>2, <2>3, <2>4
<1>2. Fields' = Fields
  BY <1>1, FieldsKept
<1>3. StatementOK(stmt, Fields) /\ TableOK(table)
  BY <1>1, HeadAndTail DEF Inv, PlanInv, TablesInv
<1>4. CASE plan = <<Statement("CREATE TABLE", TableName, Fields)>> /\ pc = "columns"
  <2>1. stmt.op = "CREATE TABLE"
    <3>1. Head(<<Statement("CREATE TABLE", TableName, Fields)>>).op = "CREATE TABLE"
      BY CreateHead
    <3>. QED
      BY <1>4, <3>1, Zenon
  <2>2. CASE errors'
    BY <1>1, <1>4, <2>2 DEF ColumnsInv, Clean
  <2>3. CASE ~errors'
    <3>1. table' = Executed(table, stmt)
      BY <1>4, <2>1, <2>3 DEF Execute
    <3>2. FieldNames(Fields) = DOMAIN table'.cols /\ table'.exists
      BY <1>3, <2>1, <3>1, ExecutedColumns
    <3>. QED
      BY <1>1, <1>2, <1>4, <3>2 DEF ColumnsInv, Clean, Covered
  <2>. QED
    BY <2>2, <2>3
<1>5. CASE ~(plan = <<Statement("CREATE TABLE", TableName, Fields)>> /\ pc = "columns")
  <2>1. ~errors' => table.exists /\ Covered
    BY <1>1, <1>5 DEF ColumnsInv
  <2>2. (table.exists => table'.exists) /\ FieldNames(Fields) \cap DOMAIN table.cols \subseteq DOMAIN table'.cols
    <3>1. CASE table' = table
      BY <3>1
    <3>2. CASE table' = Executed(table, stmt)
      BY <1>3, <3>2, ExecutedColumns
    <3>. QED
      BY <3>1, <3>2 DEF Execute
  <2>3. ~errors' => table'.exists /\ Covered'
    BY <1>1, <1>2, <2>1, <2>2 DEF Covered
  <2>. QED
    BY <1>1, <2>3 DEF ColumnsInv, Clean
<1>. QED
  BY <1>4, <1>5

LEMMA ColumnsRebuild ==
    ASSUME Inv, NotesInv, ColumnsInv, Begin \/ RebuildStep \/ Undo
    PROVE  ColumnsInv'
<1>1. site' = site /\ schema' = schema /\ Fields' = Fields
  BY FieldsKept DEF Begin, RebuildStep, Undo, world
<1>2. CASE Begin
  <2>1. CASE pc' = "temp"
    BY <2>1 DEF ColumnsInv, Clean
  <2>2. CASE Ended(TRUE, Faulty)
    <3>1. table' = table
      BY <1>2 DEF Begin
    <3>. QED
      BY <1>1, <2>2, <3>1, NotesAreOK, ColumnsToTrigger
  <2>. QED
    BY <1>2, <2>1, <2>2 DEF Begin
<1>3. CASE Undo
  BY <1>3 DEF Undo, ColumnsInv, Clean
<1>4. CASE RebuildStep /\ pc = "temp"
  BY <1>4 DEF RebuildStep, ColumnsInv, Clean
<1>5. CASE RebuildStep /\ pc = "copy"
  <2>1. pc' = "drop" /\ temp' = CopyOf(table) /\ DOMAIN temp.cols = FieldNames(Fields) /\ TableOK(temp)
    BY <1>5 DEF RebuildStep, Inv, OwedInv, TablesInv
  <2>2. temp'.cols = temp.cols
    <3>1. PICK rows : temp' = [temp EXCEPT !.rows = rows]
      BY <2>1 DEF CopyOf
    <3>2. temp' = Table(temp.exists, temp.cols, temp.idx, rows, temp.trigger)
      BY <2>1, <3>1, Replacing
    <3>. QED
      BY <3>2 DEF Table
  <2>. QED
    BY <1>1, <2>1, <2>2 DEF ColumnsInv, Clean
<1>6. CASE RebuildStep /\ pc = "drop"
  BY <1>1, <1>6 DEF RebuildStep, ColumnsInv, Clean
<1>7. CASE RebuildStep /\ pc = "rename"
  BY <1>1, <1>7 DEF RebuildStep, ColumnsInv, Clean
<1>8. CASE RebuildStep /\ pc = "commit"
  <2>1. table.exists /\ DOMAIN table.cols = FieldNames(Fields) /\ table' = table /\ pc' = "columns"
    BY <1>8 DEF RebuildStep, Inv, OwedInv, ColumnsInv
  <2>. QED
    BY <1>1, <2>1 DEF ColumnsInv, Clean, Covered
<1>. QED
  BY <1>2, <1>3, <1>4, <1>5, <1>6, <1>7, <1>8 DEF RebuildStep

LEMMA ColumnsRead ==
    ASSUME Inv, NotesInv, ColumnsInv, ReadIndexes \/ Verify \/ VerifyAgain
    PROVE  ColumnsInv'
<1>1. site' = site /\ schema' = schema /\ table' = table /\ Fields' = Fields
  BY FieldsKept DEF ReadIndexes, Verify, VerifyAgain
<1>2. NoteOK(sync) /\ NoteOK(Faulty) /\ NoteOK([Faulty EXCEPT !.blind = TRUE]) /\ errors \in BOOLEAN
      /\ [Faulty EXCEPT !.blind = TRUE].blind
  BY NotesAreOK DEF NotesInv
<1>3. CASE ToTrigger(TRUE, Faulty) \/ ToTrigger(TRUE, sync)
  BY <1>1, <1>2, <1>3, ColumnsToTrigger
<1>4. ~errors => table.exists /\ Covered
  <2>1. plan = <<>>
    BY DEF ReadIndexes, Verify, VerifyAgain
  <2>2. plan # <<Statement("CREATE TABLE", TableName, Fields)>>
    BY <2>1
  <2>. QED
    BY <2>2 DEF ReadIndexes, Verify, VerifyAgain, ColumnsInv
<1>5. CASE pc' \in {"indexes", "reissue"} /\ UNCHANGED <<changed, errors>>
  <2>1. ~errors' => table'.exists /\ Covered'
    BY <1>1, <1>4, <1>5 DEF Covered
  <2>. QED
    BY <1>5, <2>1 DEF ColumnsInv, Clean
<1>6. CASE ToTrigger(errors, [Faulty EXCEPT !.blind = TRUE])
  BY <1>1, <1>2, <1>4, <1>6, ColumnsToTrigger
<1>7. MissingColumns(table.cols, changed) = <<>> /\ ~errors => FieldNames(Fields) \subseteq DOMAIN table.cols
  <2>1. MissingColumns(table.cols, changed) = <<>> => \A x \in ToSet(changed) : x.name \in DOMAIN table.cols
    BY MissingElements DEF Inv, PlanInv
  <2>. QED
    BY <1>4, <2>1 DEF Covered
<1>8. CASE Verify /\ MissingColumns(table.cols, changed) = <<>> /\ ToTrigger(errors, sync)
  BY <1>1, <1>2, <1>4, <1>7, <1>8, ColumnsToTrigger
<1>9. CASE ToTrigger(errors \/ MissingColumns(table.cols, changed) # <<>>, sync)
  <2> DEFINE errs == errors \/ MissingColumns(table.cols, changed) # <<>>
  <2>1. errs \in BOOLEAN /\ (~errs => table.exists) /\ (~errs => FieldNames(Fields) \subseteq DOMAIN table.cols)
    BY <1>2, <1>4, <1>7
  <2>2. ToTrigger(errs, sync)
    BY <1>9
  <2> HIDE DEF errs
  <2>. QED
    BY <1>1, <1>2, <2>1, <2>2, ColumnsToTrigger
<1>. QED
  BY <1>3, <1>5, <1>6, <1>8, <1>9 DEF ReadIndexes, Verify, VerifyAgain

LEMMA ColumnsEnd ==
    ASSUME Inv, NotesInv, ColumnsInv, AttachTrigger \/ Crash
    PROVE  ColumnsInv'
<1>1. CASE Ended(TRUE, Faulty)
  <2>1. pc' = "idle" /\ sync'.clean = FALSE
    BY <1>1, EndedNotes, NotesAreOK
  <2>. QED
    BY <2>1 DEF ColumnsInv, Clean
<1>2. CASE AttachTrigger /\ Ended(errors, sync) /\ table' = [table EXCEPT !.trigger = table.exists]
  <2>1. pc = "trigger" /\ site' = site /\ schema' = schema /\ Fields' = Fields
    BY <1>2, FieldsKept DEF AttachTrigger
  <2>2. pc' = "idle" /\ sync'.clean = ~errors /\ sync'.blind = sync.blind /\ errors \in BOOLEAN
    BY <1>2, EndedNotes DEF NotesInv
  <2>3. table' = Table(table.exists, table.cols, table.idx, table.rows, table.exists)
    BY <1>2, Replacing DEF Inv, TablesInv
  <2>4. table'.cols = table.cols /\ table'.trigger = table.exists
    BY <2>3 DEF Table
  <2>. QED
    BY <2>1, <2>2, <2>4 DEF ColumnsInv, Clean
<1>. QED
  BY <1>1, <1>2 DEF AttachTrigger, Crash

LEMMA ColumnsRest ==
    ASSUME Inv, NotesInv, ColumnsInv, Preflight \/ \E r \in Row, full \in BOOLEAN : Insert(r, full)
    PROVE  ColumnsInv'
<1>1. CASE Preflight
  <2>1. /\ pc = "columns" /\ UNCHANGED <<pc, site, schema, changed, table, temp>> /\ (errors => errors')
        /\ sync'.clean = sync.clean /\ sync'.blind = sync.blind
    BY <1>1 DEF Preflight, NotesInv, NoteOK, Faulty
  <2>2. plan # <<Statement("CREATE TABLE", TableName, Fields)>>
    <3>1. Head(plan).check
      BY <1>1 DEF Preflight
    <3>2. ~Head(<<Statement("CREATE TABLE", TableName, Fields)>>).check
      BY CreateHead
    <3>. QED
      BY <3>1, <3>2, Zenon
  <2>. QED
    BY <2>1, <2>2, ColumnsStay DEF ColumnsInv
<1>2. CASE \E r \in Row, full \in BOOLEAN : Insert(r, full)
  <2>1. PICK r \in Row, full \in BOOLEAN : Insert(r, full)
    BY <1>2
  <2>2. /\ UNCHANGED <<pc, site, schema, changed, temp, errors, sync, plan>>
        /\ \E rows : table' = [table EXCEPT !.rows = rows]
    BY <2>1 DEF Insert
  <2>3. \E rows : table' = Table(table.exists, table.cols, table.idx, rows, table.trigger)
    <3>1. PICK rows : table' = [table EXCEPT !.rows = rows]
      BY <2>2
    <3>2. table' = Table(table.exists, table.cols, table.idx, rows, table.trigger)
      BY <3>1, Replacing DEF Inv, TablesInv
    <3>. QED
      BY <3>2
  <2>4. table'.exists = table.exists /\ table'.cols = table.cols /\ table'.trigger = table.trigger
    BY <2>3 DEF Table
  <2>. QED
    BY <2>2, <2>4, ColumnsStay
<1>. QED
  BY <1>1, <1>2

LEMMA ColumnsStep ==
    ASSUME Inv, NotesInv, ColumnsInv, [Next]_vars
    PROVE  ColumnsInv'
<1>1. CASE UNCHANGED vars
  BY <1>1, ColumnsStay DEF vars
<1>2. CASE \E n \in DOMAIN Schemas : StartSync(n)
  BY <1>2 DEF StartSync, ColumnsInv, Clean
<1>3. CASE Step
  BY <1>3, ColumnsInspect, ColumnsRest, ColumnsExecute, ColumnsRebuild, ColumnsRead, ColumnsEnd DEF Step
<1>. QED
  BY <1>1, <1>2, <1>3, ColumnsRest, ColumnsEnd DEF Next

-----------------------------------------------------------------------------
(* What a clean sync leaves: the indexes                                   *)

\* SetToSeq of a finite set lists the whole set.
LEMMA SetToSeqOnto ==
    ASSUME NEW S, IsFiniteSet(S)
    PROVE  /\ Len(SetToSeq(S)) = Cardinality(S) /\ Len(SetToSeq(S)) \in Nat
           /\ \A i \in 1 .. Len(SetToSeq(S)) : SetToSeq(S)[i] \in S
           /\ \A x \in S : \E i \in 1 .. Len(SetToSeq(S)) : SetToSeq(S)[i] = x
<1> DEFINE n == Cardinality(S)
           f == SetToSeq(S)
<1>1. n \in Nat /\ ExistsBijection(1 .. n, S)
  BY FS_CardinalityType
<1>2. PICK g : g \in Bijection(1 .. n, S)
  BY <1>1 DEF ExistsBijection
<1>3. g \in [1 .. n -> S] /\ IsInjective(g)
  BY <1>2 DEF Bijection, Injection, IsInjective
<1>4. f \in [1 .. n -> S] /\ IsInjective(f)
  BY <1>3 DEF SetToSeq
<1>5. f \in Injection(1 .. n, S)
  BY <1>4 DEF Injection, IsInjective
<1>6. Cardinality(1 .. n) = n
  BY <1>1, FS_Interval
<1>7. f \in Surjection(1 .. n, S)
  BY <1>5, <1>6, FS_Injection
<1>8. Len(f) = n
  BY <1>1, <1>4, LengthOf
<1> HIDE DEF f, n
<1>9. /\ Len(f) = n /\ Len(f) \in Nat
      /\ \A i \in 1 .. Len(f) : f[i] \in S
      /\ \A x \in S : \E i \in 1 .. Len(f) : f[i] = x
  BY <1>1, <1>4, <1>7, <1>8 DEF Surjection
<1>. QED
  BY <1>9 DEF f, n

\* The names of the indexes that belong to the definition.
Names == {Physical[n] : n \in DOMAIN Declarations}

LEMMA DeclaredFinite ==
    ASSUME NEW d, NEW fields, NEW indexes, NEW tbl, IsFiniteSet(DOMAIN indexes)
    PROVE  IsFiniteSet(DOMAIN Declared(d, fields, indexes, tbl))
<1> DEFINE all == WithIsDeletedIndex(d, fields, indexes, tbl)
           key == IF d = "mysql" THEN "isDeleted" ELSE tbl \o "_isDeleted"
<1>1. IsFiniteSet(DOMAIN indexes \cup {key})
  BY FS_AddElement, Zenon
<1>2. DOMAIN all \subseteq DOMAIN indexes \cup {key}
  <2> HIDE DEF key
  <2>. QED
    BY DEF WithIsDeletedIndex, Entered, key
<1>3. DOMAIN Declared(d, fields, indexes, tbl) = DOMAIN all
  BY DEF Declared
<1>. QED
  BY <1>1, <1>2, <1>3, FS_Subset

Creates(x) == x.op = "CREATE INDEX"
Removes(x) == x.op = "DROP INDEX"

\* An index of the definition is dropped only to be created again at once.
Paired(s, names) == \A k \in 1 .. Len(s) :
    Removes(s[k]) /\ s[k].name \in names =>
        k < Len(s) /\ Creates(s[k + 1]) /\ s[k + 1].name = s[k].name

LEMMA PairedJoin ==
    ASSUME NEW T, NEW names, NEW a \in Seq(T), NEW b \in Seq(T), Paired(a, names), Paired(b, names)
    PROVE  Paired(a \o b, names)
<1> DEFINE s == a \o b
           m == Len(a)
           n == Len(b)
<1>1. m \in Nat /\ n \in Nat /\ Len(s) = m + n
  OBVIOUS
<1>2. \A k \in 1 .. m : s[k] = a[k]
  OBVIOUS
<1>3. \A k \in 1 .. n : s[m + k] = b[k]
  OBVIOUS
<1>4. \A k \in 1 .. m : Removes(a[k]) /\ a[k].name \in names =>
          k < m /\ Creates(a[k + 1]) /\ a[k + 1].name = a[k].name
  BY DEF Paired
<1>5. \A k \in 1 .. n : Removes(b[k]) /\ b[k].name \in names =>
          k < n /\ Creates(b[k + 1]) /\ b[k + 1].name = b[k].name
  BY DEF Paired
<1> HIDE DEF m, n
<1>6. SUFFICES ASSUME NEW k \in 1 .. m + n, Removes(s[k]), s[k].name \in names
               PROVE  k < m + n /\ Creates(s[k + 1]) /\ s[k + 1].name = s[k].name
  BY <1>1 DEF Paired
<1> HIDE DEF s
<1>7. CASE k <= m
  <2>1. k \in 1 .. m
    BY <1>1, <1>7
  <2>2. s[k] = a[k]
    BY <1>2, <2>1
  <2>3. k < m /\ Creates(a[k + 1]) /\ a[k + 1].name = a[k].name
    BY <1>4, <1>6, <2>1, <2>2
  <2>4. k + 1 \in 1 .. m /\ k < m + n
    BY <1>1, <2>1, <2>3
  <2>5. s[k + 1] = a[k + 1]
    BY <1>2, <2>4
  <2>. QED
    BY <2>2, <2>3, <2>4, <2>5
<1>8. CASE k > m
  <2>1. PICK l \in 1 .. n : k = m + l
    <3>1. k - m \in 1 .. n /\ k = m + (k - m)
      BY <1>1, <1>8
    <3>. QED
      BY <3>1
  <2>2. s[k] = b[l]
    BY <1>3, <2>1
  <2>3. l < n /\ Creates(b[l + 1]) /\ b[l + 1].name = b[l].name
    BY <1>5, <1>6, <2>1, <2>2
  <2>4. l + 1 \in 1 .. n /\ k + 1 = m + (l + 1) /\ k < m + n
    BY <1>1, <2>1, <2>3
  <2>5. s[k + 1] = b[l + 1]
    BY <1>3, <2>4
  <2>. QED
    BY <2>2, <2>3, <2>4, <2>5
<1>. QED
  BY <1>1, <1>7, <1>8

LEMMA NothingIsPaired ==
    ASSUME NEW T, NEW names
    PROVE  <<>> \in Seq(T) /\ Paired(<<>>, names)
  BY DEF Paired

LEMMA CreatesOrRemoves == \A x : ~(Creates(x) /\ Removes(x))
  BY DEF Creates, Removes

LEMMA CreationIsPaired ==
    ASSUME NEW T, NEW names, NEW create \in T, Creates(create)
    PROVE  /\ <<create>> \in Seq(T) /\ Paired(<<create>>, names)
           /\ \A drop \in T : Removes(drop) /\ drop.name = create.name =>
                 <<drop, create>> \in Seq(T) /\ Paired(<<drop, create>>, names)
<1>1. <<create>> \in Seq(T) /\ Len(<<create>>) = 1 /\ <<create>>[1] = create
  OBVIOUS
<1>2. Paired(<<create>>, names)
  <2>1. \A k \in 1 .. 1 : k = 1
    OBVIOUS
  <2>. QED
    BY <1>1, <2>1, CreatesOrRemoves DEF Paired
<1>3. ASSUME NEW drop \in T, Removes(drop), drop.name = create.name
      PROVE  <<drop, create>> \in Seq(T) /\ Paired(<<drop, create>>, names)
  <2> DEFINE s == <<drop, create>>
  <2>1. s \in Seq(T) /\ Len(s) = 2 /\ s[1] = drop /\ s[2] = create
    OBVIOUS
  <2>2. \A k \in 1 .. 2 : k = 1 \/ k = 2
    OBVIOUS
  <2> HIDE DEF s
  <2>3. Paired(s, names)
    <3>1. SUFFICES ASSUME NEW k \in 1 .. 2, Removes(s[k])
                   PROVE  k < 2 /\ Creates(s[k + 1]) /\ s[k + 1].name = s[k].name
      BY <2>1 DEF Paired
    <3>2. k = 1
      BY <2>1, <2>2, <3>1, CreatesOrRemoves
    <3>3. k + 1 = 2
      BY <3>2
    <3>. QED
      BY <1>3, <2>1, <3>2, <3>3
  <2>. QED
    BY <2>1, <2>3 DEF s
<1>. QED
  BY <1>1, <1>2, <1>3

\* What is created for a declared index, and when.
Creation(n) == Statement("CREATE INDEX", Physical[n],
                  CreatedIndex(D, Resolved(D, Declarations[n]), TextColumns(D, Declarations[n], Fields)))
Removal(p) == Statement("DROP INDEX", p, "")
ForIndex(n, existing) == IndexStatements(site.server, Declarations[n], Physical[n], Fields, existing)
Unlike(n, existing) ==
    /\ Declarations[n].form # "raw"
    /\ Comparable(existing[Physical[n]]) # Comparable(Signature(D, Declarations[n], Fields))

LEMMA ForIndexIs ==
    ASSUME NEW n, NEW existing
    PROVE  /\ ForIndex(n, existing) \in {<<>>, <<Creation(n)>>, <<Removal(Physical[n]), Creation(n)>>}
           /\ n \in DOMAIN Declarations \ Created => ForIndex(n, existing) = <<>>
           /\ n \in Created /\ Physical[n] \notin DOMAIN existing => ForIndex(n, existing) = <<Creation(n)>>
           /\ n \in Created /\ Physical[n] \in DOMAIN existing /\ Unlike(n, existing) =>
                 ForIndex(n, existing) = <<Removal(Physical[n]), Creation(n)>>
<1> DEFINE create == Creation(n)
           drop == Removal(Physical[n])
           skipped == IsSkipped(site.server, Declarations[n], Fields)
           same == \/ Declarations[n].form = "raw"
                   \/ Comparable(existing[Physical[n]]) = Comparable(Signature(D, Declarations[n], Fields))
<1>1. ForIndex(n, existing) = IF skipped THEN <<>>
                              ELSE IF Physical[n] \notin DOMAIN existing THEN <<create>>
                              ELSE IF same THEN <<>>
                              ELSE <<drop, create>>
  BY Zenon DEF ForIndex, IndexStatements, Replaced, Creation, Removal, D
<1>2. n \in Created <=> n \in DOMAIN Declarations /\ ~skipped
  BY DEF Created
<1>3. Unlike(n, existing) <=> ~same
  BY DEF Unlike
<1> HIDE DEF create, drop, skipped, same
<1>4. /\ ForIndex(n, existing) \in {<<>>, <<create>>, <<drop, create>>}
      /\ skipped => ForIndex(n, existing) = <<>>
      /\ ~skipped /\ Physical[n] \notin DOMAIN existing => ForIndex(n, existing) = <<create>>
      /\ ~skipped /\ Physical[n] \in DOMAIN existing /\ ~same => ForIndex(n, existing) = <<drop, create>>
  BY <1>1, Zenon
<1>. QED
  BY <1>2, <1>3, <1>4 DEF create, drop

\* Every statement of an index pass is the creation of a declared index or a removal;
\* what the definition declares is created unless it is there, and what is there and
\* differs is replaced; what it does not declare is removed.
LEMMA IndexPassElements ==
    ASSUME site \in [server : Servers, allowDrop : BOOLEAN, family : Families], schema \in DOMAIN Schemas,
           NEW existing, IsFiniteSet(DOMAIN existing)
    PROVE  LET pass == IndexPass(site.server, Fields, Schemas[schema].indexes, TableName, existing) IN
           /\ Paired(pass, Names)
           /\ \A x \in ToSet(pass) : \/ \E n \in Created : x = Creation(n)
                                     \/ \E p \in DOMAIN existing : x = Removal(p)
           /\ \A n \in Created : Physical[n] \notin DOMAIN existing \/ Unlike(n, existing) =>
                 Creation(n) \in ToSet(pass)
           /\ \A p \in DOMAIN existing \ Names : Removal(p) \in ToSet(pass)
<1> DEFINE pass == IndexPass(site.server, Fields, Schemas[schema].indexes, TableName, existing)
           N == DOMAIN Declarations
           names == SetToSeq(N)
           gone == SetToSeq(DOMAIN existing \ Names)
           f == [i \in 1 .. Len(names) |-> ForIndex(names[i], existing)]
           sweep == [i \in 1 .. Len(gone) |-> Removal(gone[i])]
           T == {Creation(n) : n \in Created} \cup {Removal(p) : p \in DOMAIN existing}
           Q == {q \in Seq(T) : Paired(q, Names)}
<1>1. pass = FlattenSeq(f) \o sweep
  BY Zenon DEF IndexPass, ForIndex, Removal, Declarations, Physical, Names, D
<1>2. /\ Len(names) \in Nat
      /\ \A i \in 1 .. Len(names) : names[i] \in N
      /\ \A n \in N : \E i \in 1 .. Len(names) : names[i] = n
  <2>1. IsFiniteSet(N)
    BY SyncAssumption, DeclaredFinite DEF Declarations
  <2>. QED
    BY <2>1, SetToSeqOnto, Zenon
<1>3. /\ Len(gone) \in Nat
      /\ \A i \in 1 .. Len(gone) : gone[i] \in DOMAIN existing \ Names
      /\ \A p \in DOMAIN existing \ Names : \E i \in 1 .. Len(gone) : gone[i] = p
  <2>1. IsFiniteSet(DOMAIN existing \ Names)
    BY FS_Subset
  <2>. QED
    BY <2>1, SetToSeqOnto, Zenon
<1> HIDE DEF names, gone, pass
<1>4. \A n \in N : ForIndex(n, existing) \in Q
  <2>1. SUFFICES ASSUME NEW n \in N PROVE ForIndex(n, existing) \in Q
    OBVIOUS
  <2> DEFINE create == Creation(n)
             drop == Removal(Physical[n])
  <2>2. <<>> \in Q
    BY NothingIsPaired
  <2>3. Creates(create) /\ Removes(drop) /\ create.name = Physical[n] /\ drop.name = Physical[n]
    BY DEF Creation, Removal, Statement, Creates, Removes
  <2>4. n \in Created => create \in T
    OBVIOUS
  <2>5. Physical[n] \in DOMAIN existing => drop \in T
    OBVIOUS
  <2>6. (n \in Created /\ Physical[n] \in DOMAIN existing) \/ ForIndex(n, existing) # <<drop, create>>
    <3>1. ForIndex(n, existing) = <<>> \/ ForIndex(n, existing) = <<create>> => ForIndex(n, existing) # <<drop, create>>
      <4> HIDE DEF create, drop
      <4>. QED
        OBVIOUS
    <3>. QED
      BY <3>1, ForIndexIs
  <2>7. n \in Created \/ ForIndex(n, existing) # <<create>>
    <3>1. <<>> # <<create>>
      <4> HIDE DEF create
      <4>. QED
        OBVIOUS
    <3>. QED
      BY <3>1, ForIndexIs
  <2> HIDE DEF create, drop, T
  <2>8. n \in Created => <<create>> \in Q
    BY <2>3, <2>4, CreationIsPaired
  <2>9. n \in Created /\ Physical[n] \in DOMAIN existing => <<drop, create>> \in Q
    BY <2>3, <2>4, <2>5, CreationIsPaired
  <2>10. ForIndex(n, existing) \in {<<>>, <<create>>, <<drop, create>>}
    BY ForIndexIs DEF create, drop
  <2> HIDE DEF Q
  <2>. QED
    BY <2>2, <2>6, <2>7, <2>8, <2>9, <2>10
<1>5. f \in Seq(Q) /\ Len(f) = Len(names)
  <2> HIDE DEF Q
  <2>1. f \in [1 .. Len(names) -> Q]
    BY <1>2, <1>4
  <2>. QED
    BY <1>2, <2>1
<1>6. FlattenSeq(f) \in Q
  <2>1. Q \subseteq Seq(T) /\ <<>> \in Q
    BY NothingIsPaired
  <2>2. \A a, b \in Q : a \o b \in Q
    <3> HIDE DEF T
    <3>1. \A a, b \in Seq(T) : a \o b \in Seq(T)
      OBVIOUS
    <3>. QED
      BY <3>1, PairedJoin
  <2> HIDE DEF Q, T, f
  <2>. QED
    BY <1>5, <2>1, <2>2, FlattenSeqIn
<1>7. sweep \in Seq(T) /\ Len(sweep) = Len(gone) /\ Paired(sweep, Names)
  <2>1. \A i \in 1 .. Len(gone) : Removal(gone[i]) \in T
    BY <1>3
  <2>2. \A i \in 1 .. Len(gone) : Removal(gone[i]).name \notin Names
    BY <1>3 DEF Removal, Statement
  <2> HIDE DEF T
  <2>3. sweep \in Seq(T) /\ Len(sweep) = Len(gone) /\ \A i \in 1 .. Len(gone) : sweep[i] = Removal(gone[i])
    BY <1>3, <2>1
  <2> HIDE DEF sweep
  <2>. QED
    BY <2>2, <2>3 DEF Paired
<1>8. Paired(pass, Names)
  <2> HIDE DEF T, f, sweep
  <2>. QED
    BY <1>1, <1>6, <1>7, PairedJoin
<1>9. ToSet(pass) = ToSet(FlattenSeq(f)) \cup ToSet(sweep)
  <2> HIDE DEF T, f, sweep
  <2>. QED
    BY <1>1, <1>6, <1>7, JoinedElements
<1>10. \A x \in ToSet(pass) : x \in T
  <2> HIDE DEF T, f, sweep
  <2>1. \A q \in Seq(T) : ToSet(q) \subseteq T
    BY DEF ToSet
  <2>. QED
    BY <1>6, <1>7, <1>9, <2>1
<1>11. ASSUME NEW n \in Created, Physical[n] \notin DOMAIN existing \/ Unlike(n, existing)
       PROVE  Creation(n) \in ToSet(pass)
  <2>1. PICK i \in 1 .. Len(names) : names[i] = n
    BY <1>2 DEF Created
  <2>2. f[i] \in {<<Creation(n)>>, <<Removal(Physical[n]), Creation(n)>>}
    <3>1. ForIndex(n, existing) \in {<<Creation(n)>>, <<Removal(Physical[n]), Creation(n)>>}
      BY <1>11, ForIndexIs
    <3>. QED
      BY <2>1, <3>1
  <2>3. \A x, y : x \in ToSet(<<x>>) /\ x \in ToSet(<<y, x>>)
    BY DEF ToSet
  <2>4. Creation(n) \in ToSet(f[i])
    BY <2>2, <2>3
  <2>5. ToSet(f[i]) \subseteq ToSet(FlattenSeq(f))
    <3>1. f \in Seq(Seq(T))
      <4>1. Q \subseteq Seq(T)
        OBVIOUS
      <4> HIDE DEF Q, f, T
      <4>. QED
        BY <1>5, <4>1, SeqMonotonic
    <3> HIDE DEF f, T
    <3>. QED
      BY <1>5, <2>1, <3>1, FlattenSeqElements
  <2>. QED
    BY <1>9, <2>4, <2>5
<1>12. ASSUME NEW p \in DOMAIN existing \ Names
       PROVE  Removal(p) \in ToSet(pass)
  <2>1. PICK i \in 1 .. Len(gone) : gone[i] = p
    BY <1>3
  <2>2. sweep[i] = Removal(p) /\ i \in DOMAIN sweep
    BY <2>1
  <2> HIDE DEF sweep
  <2>3. Removal(p) \in ToSet(sweep)
    BY <2>2 DEF ToSet
  <2>. QED
    BY <1>9, <2>3
<1>13. \A x \in ToSet(pass) : \/ \E n \in Created : x = Creation(n)
                              \/ \E p \in DOMAIN existing : x = Removal(p)
  BY <1>10
<1>14. /\ \A n \in Created : Physical[n] \notin DOMAIN existing \/ Unlike(n, existing) =>
                Creation(n) \in ToSet(pass)
       /\ \A p \in DOMAIN existing \ Names : Removal(p) \in ToSet(pass)
  BY <1>11, <1>12
<1> HIDE DEF f, sweep, T, Q
<1>. QED
  BY <1>8, <1>13, <1>14 DEF pass

LEMMA HeadOfPlan ==
    ASSUME NEW T, NEW s \in Seq(T), s # <<>>, NEW names
    PROVE  /\ ToSet(s) = {Head(s)} \cup ToSet(Tail(s))
           /\ Paired(s, names) => /\ Paired(Tail(s), names)
                                  /\ Removes(Head(s)) /\ Head(s).name \in names =>
                                        \E x \in ToSet(Tail(s)) : Creates(x) /\ x.name = Head(s).name
<1> DEFINE n == Len(s)
           t == Tail(s)
<1>1. n \in Nat /\ 1 <= n /\ Len(t) = n - 1 /\ Head(s) = s[1]
  OBVIOUS
<1>2. \A k \in 1 .. n - 1 : t[k] = s[k + 1]
  OBVIOUS
<1>3. DOMAIN s = 1 .. n /\ DOMAIN t = 1 .. n - 1
  OBVIOUS
<1> HIDE DEF n, t
<1>4. ToSet(s) = {s[k] : k \in 1 .. n} /\ ToSet(t) = {t[k] : k \in 1 .. n - 1}
  BY <1>3 DEF ToSet
<1>5. \A k \in 1 .. n : k = 1 \/ k - 1 \in 1 .. n - 1
  BY <1>1
<1>6. \A k \in 1 .. n : k # 1 => s[k] = t[k - 1]
  <2>1. SUFFICES ASSUME NEW k \in 1 .. n, k # 1 PROVE s[k] = t[k - 1]
    OBVIOUS
  <2>2. k - 1 \in 1 .. n - 1 /\ (k - 1) + 1 = k
    BY <1>1, <2>1
  <2>. QED
    BY <1>2, <2>2
<1>7. \A k \in 1 .. n - 1 : k + 1 \in 1 .. n /\ 1 \in 1 .. n
  BY <1>1
<1>8. ToSet(s) = {Head(s)} \cup ToSet(t)
  <2>1. ToSet(s) \subseteq {Head(s)} \cup ToSet(t)
    BY <1>1, <1>4, <1>5, <1>6, ZenonT(60)
  <2>2. ToSet(t) \subseteq ToSet(s)
    BY <1>2, <1>4, <1>7
  <2>3. 1 \in 1 .. n
    BY <1>1
  <2>. QED
    BY <1>1, <1>4, <2>1, <2>2, <2>3
<1>9. ASSUME Paired(s, names)
      PROVE  /\ Paired(t, names)
             /\ Removes(Head(s)) /\ Head(s).name \in names =>
                   \E x \in ToSet(t) : Creates(x) /\ x.name = Head(s).name
  <2>1. \A k \in 1 .. n : Removes(s[k]) /\ s[k].name \in names =>
            k < n /\ Creates(s[k + 1]) /\ s[k + 1].name = s[k].name
    BY <1>9 DEF Paired, n
  <2>2. Paired(t, names)
    <3>1. SUFFICES ASSUME NEW k \in 1 .. n - 1, Removes(t[k]), t[k].name \in names
                   PROVE  k < n - 1 /\ Creates(t[k + 1]) /\ t[k + 1].name = t[k].name
      BY <1>1 DEF Paired
    <3>2. k + 1 \in 1 .. n /\ t[k] = s[k + 1]
      BY <1>2, <1>7
    <3>3. k + 1 < n /\ Creates(s[(k + 1) + 1]) /\ s[(k + 1) + 1].name = s[k + 1].name
      BY <2>1, <3>1, <3>2
    <3>4. k + 1 \in 1 .. n - 1 /\ k < n - 1
      BY <1>1, <3>3
    <3>5. t[k + 1] = s[(k + 1) + 1]
      BY <1>2, <3>4
    <3>. QED
      BY <3>2, <3>3, <3>4, <3>5
  <2>3. ASSUME Removes(Head(s)), Head(s).name \in names
        PROVE  \E x \in ToSet(t) : Creates(x) /\ x.name = Head(s).name
    <3>1. 1 \in 1 .. n
      BY <1>1
    <3>2. 1 < n /\ Creates(s[1 + 1]) /\ s[1 + 1].name = s[1].name
      BY <1>1, <2>1, <2>3, <3>1
    <3>3. 1 \in 1 .. n - 1
      BY <1>1, <3>2
    <3>4. t[1] = s[1 + 1]
      BY <1>2, <3>3
    <3>. QED
      BY <1>1, <1>4, <3>2, <3>3, <3>4
  <2>. QED
    BY <2>2, <2>3
<1>. QED
  BY <1>8, <1>9 DEF t

\* Until an error is noted, every declared index is there or is still to be created,
\* and every other one is gone or is still to be removed.
Outstanding(s, idx, created, physical, names) ==
    /\ Paired(s, names)
    /\ \A n \in created : \/ physical[n] \in idx
                          \/ \E x \in ToSet(s) : Creates(x) /\ x.name = physical[n]
    /\ \A p \in idx \ names : \E x \in ToSet(s) : Removes(x) /\ x.name = p

ToCome == Outstanding(plan, DOMAIN table.idx, Created, Physical, Names)

Indexed == /\ \A n \in Created : Physical[n] \in DOMAIN table.idx
           /\ DOMAIN table.idx \subseteq Names

Touches(x) == x.op \in {"ADD", "CHANGE"}

IndexesInv ==
    /\ \A x \in ToSet(changed) : Touches(x)
    /\ pc = "reissue" => \A x \in ToSet(plan) : Touches(x)
    /\ pc = "indexes" => \A x \in ToSet(plan) : (\E n \in Created : x = Creation(n)) \/ Removes(x)
    /\ pc = "indexes" /\ ~errors => ToCome
    /\ (pc \in {"reissue", "trigger"} /\ ~errors) \/ Clean => Indexed

LEMMA DefinitionKept ==
    ASSUME site' = site, schema' = schema
    PROVE  /\ Names' = Names /\ Created' = Created /\ Physical' = Physical
           /\ \A n : Creation(n)' = Creation(n)
           /\ D' = D /\ Declarations' = Declarations
<1>1. Fields' = Fields /\ D' = D
  BY FieldsKept DEF D
<1>2. Declarations' = Declarations
  BY <1>1 DEF Declarations
<1>3. Physical' = Physical /\ Created' = Created
  BY <1>1, <1>2 DEF Physical, Created
<1>. QED
  BY <1>1, <1>2, <1>3 DEF Names, Creation

LEMMA CreationCreates ==
    ASSUME NEW n \in Created
    PROVE  Creates(Creation(n)) /\ Creation(n).name = Physical[n] /\ Physical[n] \in Names
  BY DEF Creation, Statement, Creates, Names, Created

\* A step that leaves the phase, the plan and the indexes.
LEMMA IndexesStay ==
    ASSUME IndexesInv, UNCHANGED <<pc, site, schema, changed>>, pc = "indexes" => plan' = plan,
           pc = "reissue" => ToSet(plan') \subseteq ToSet(plan),
           errors => errors', sync'.clean = sync.clean,
           pc \in {"indexes", "reissue", "trigger", "idle"} => DOMAIN table'.idx = DOMAIN table.idx
    PROVE  IndexesInv'
<1>1. /\ Names' = Names /\ Created' = Created /\ Physical' = Physical
      /\ \A n : Creation(n)' = Creation(n)
  BY DefinitionKept
<1>2. Clean' <=> Clean
  BY DEF Clean
<1>3. (\A x \in ToSet(changed) : Touches(x))' /\ (pc = "reissue" => \A x \in ToSet(plan) : Touches(x))'
  BY DEF IndexesInv, Touches
<1>4. CASE pc = "indexes"
  <2>1. ToCome => ToCome'
    BY <1>1, <1>4 DEF ToCome
  <2>. QED
    BY <1>1, <1>2, <1>3, <1>4, <2>1 DEF IndexesInv, Clean, Removes
<1>5. CASE pc # "indexes"
  <2>1. Clean => pc = "idle"
    BY DEF Clean
  <2>2. (pc \in {"reissue", "trigger"} /\ ~errors) \/ Clean => Indexed
    BY DEF IndexesInv
  <2>3. ((pc \in {"reissue", "trigger"} /\ ~errors) \/ Clean => Indexed)'
    BY <1>1, <1>2, <2>1, <2>2 DEF Indexed
  <2>. QED
    BY <1>3, <1>5, <2>3 DEF IndexesInv
<1>. QED
  BY <1>4, <1>5

\* A step to the end of a sync, or to the trigger.
LEMMA IndexesToTrigger ==
    ASSUME IndexesInv, site' = site, schema' = schema, table' = table,
           NEW errs \in BOOLEAN, NEW note, NoteOK(note), Ended(TRUE, note) \/ ToTrigger(errs, note),
           ~errs => Indexed
    PROVE  IndexesInv'
<1>1. /\ Names' = Names /\ Created' = Created /\ Physical' = Physical
  BY DefinitionKept
<1>2. Indexed' <=> Indexed
  BY <1>1 DEF Indexed
<1>3. \A x \in ToSet(<<>>) : FALSE
  BY DEF ToSet
<1>4. plan' = <<>> /\ changed' \in {<<>>, changed}
  BY DEF Ended, ToTrigger
<1>5. (\A x \in ToSet(changed) : Touches(x))'
  BY <1>3, <1>4 DEF IndexesInv, Touches
<1>6. CASE Ended(TRUE, note)
  <2>1. pc' = "idle" /\ sync'.clean = FALSE
    BY <1>6, EndedNotes
  <2>. QED
    BY <1>5, <2>1 DEF IndexesInv, Clean
<1>7. CASE ToTrigger(errs, note)
  <2>1. errors' = errs /\ (pc' = "trigger" \/ (pc' = "idle" /\ sync'.clean = ~errs))
    BY <1>7, ToTriggerNotes
  <2>. QED
    BY <1>2, <1>5, <2>1 DEF IndexesInv, Clean
<1>. QED
  BY <1>6, <1>7

LEMMA IndexesInspect ==
    ASSUME Inv, NotesInv, IndexesInv, Inspect
    PROVE  IndexesInv'
<1>1. site' = site /\ schema' = schema /\ table' = table /\ pc = "inspect"
  BY DEF Inspect
<1>2. NoteOK(sync) /\ NoteOK(Faulty)
  BY NotesAreOK DEF NotesInv
<1>3. CASE Ended(TRUE, sync) \/ ToTrigger(TRUE, Faulty)
  BY <1>1, <1>2, <1>3, IndexesToTrigger
<1>4. CASE pc' = "columns" /\ changed' = changed
  BY <1>4 DEF IndexesInv, Clean, Touches
<1>5. CASE Compare
  <2> DEFINE alters == Alters(D, table.cols, Fields, site.allowDrop)
             adds == Where(alters, LAMBDA c : c.op = "ADD")
  <2>1. ListOK(alters, Fields)
    BY <1>1, AltersAreOK DEF Inv, PlanInv, TablesInv, TableOK
  <2>2. (\A x \in ToSet(Adds(alters)) : x.op \in {"ADD", "CHANGE"}) /\ (\A x \in ToSet(adds) : x.op = "ADD")
    <3> HIDE DEF alters
    <3>. QED
      BY <2>1, AddsElements
  <2>3. pc' \in {"columns", "begin"} /\ (changed' = Adds(alters) \/ changed' = adds)
    BY <1>5 DEF Compare
  <2> HIDE DEF alters, adds
  <2>. QED
    BY <2>2, <2>3 DEF IndexesInv, Clean, Touches
<1>. QED
  BY <1>3, <1>4, <1>5 DEF Inspect

\* What is issued again adds a column.
LEMMA ReissueKeepsIndexes ==
    ASSUME Inv, IndexesInv, Execute, pc = "reissue"
    PROVE  table'.idx = table.idx
<1> DEFINE h == Head(plan)
<1>1. plan \in Seq(ToSet(plan)) /\ plan # <<>> /\ TableOK(table)
  BY DEF Inv, PlanInv, ListOK, TablesInv, Execute
<1>2. h \in ToSet(plan)
  <2> DEFINE T == ToSet(plan)
  <2> HIDE DEF T
  <2>. QED
    BY <1>1, HeadOfPlan DEF T
<1>3. h.op \in {"ADD", "CHANGE"}
  BY <1>2 DEF IndexesInv, Touches
<1>4. CASE table' = table
  BY <1>4
<1>5. CASE table' = Executed(table, h)
  <2>1. \E cols, rows : Executed(table, h) = Table(table.exists, cols, table.idx, rows, table.trigger)
    <3>1. CASE h.op = "ADD"
      <4>1. \E rows : Executed(table, h) = Table(table.exists,
                 Entered(table.cols, h.name, NewColumn(site.server, h.arg)), table.idx, rows, table.trigger)
        BY <1>1, <3>1, ExecutedIs
      <4>. QED
        BY <4>1, Zenon
    <3>2. CASE h.op = "CHANGE"
      <4>1. \E cols, rows : DOMAIN cols = DOMAIN table.cols /\ Executed(table, h) =
                 Table(table.exists, cols, table.idx, rows, table.trigger)
        BY <1>1, <3>2, ExecutedIs
      <4>. QED
        BY <4>1, Zenon
    <3>. QED
      BY <1>3, <3>1, <3>2
  <2>2. PICK cols, rows : Executed(table, h) = Table(table.exists, cols, table.idx, rows, table.trigger)
    BY <2>1
  <2> HIDE DEF h
  <2>. QED
    BY <1>5, <2>2 DEF Table
<1>. QED
  BY <1>4, <1>5 DEF Execute

\* A creation, a removal or another statement that is executed.
LEMMA IndexesExecute ==
    ASSUME Inv, NotesInv, IndexesInv, Execute
    PROVE  IndexesInv'
<1> DEFINE h == Head(plan)
           rest == ToSet(Tail(plan))
<1>1. /\ pc \in {"columns", "indexes", "reissue"} /\ plan # <<>> /\ plan' = Tail(plan)
      /\ UNCHANGED <<pc, site, schema, changed>>
      /\ (errors => errors')
  <2>1. /\ pc \in {"columns", "indexes", "reissue"} /\ plan # <<>> /\ plan' = Tail(plan)
        /\ UNCHANGED <<pc, site, schema, changed>>
    BY DEF Execute
  <2>2. errors => errors'
    BY DEF Execute
  <2>. QED
    BY <2>1, <2>2
<1>2. /\ Names' = Names /\ Created' = Created /\ Physical' = Physical
      /\ \A n : Creation(n)' = Creation(n)
  BY <1>1, DefinitionKept
<1>3. TableOK(table) /\ plan \in Seq(ToSet(plan))
  BY DEF Inv, TablesInv, PlanInv, ListOK
<1>4. /\ ToSet(plan) = {h} \cup rest
      /\ Paired(plan, Names) => /\ Paired(Tail(plan), Names)
                                /\ Removes(h) /\ h.name \in Names =>
                                      \E x \in rest : Creates(x) /\ x.name = h.name
  <2> DEFINE T == ToSet(plan)
  <2> HIDE DEF T
  <2>1. plan \in Seq(T)
    BY <1>3 DEF T
  <2>. QED
    BY <1>1, <2>1, HeadOfPlan
<1>5. ToSet(plan') = rest /\ Tail(plan) = plan'
  BY <1>1
<1>6. (\A x \in ToSet(changed) : Touches(x))'
  BY <1>1 DEF IndexesInv, Touches
<1> HIDE DEF h, rest
<1>7. CASE pc = "columns"
  BY <1>1, <1>6, <1>7 DEF IndexesInv, Clean
<1>8. CASE pc = "reissue"
  <2>1. \A x \in ToSet(plan) : Touches(x)
    BY <1>8 DEF IndexesInv
  <2>2. table'.idx = table.idx
    BY <1>8, ReissueKeepsIndexes
  <2>3. (\A x \in ToSet(plan) : Touches(x))'
    BY <1>4, <1>5, <2>1 DEF Touches
  <2>4. ~errors' => Indexed'
    BY <1>1, <1>2, <1>8, <2>2 DEF IndexesInv, Indexed
  <2>. QED
    BY <1>1, <1>6, <1>8, <2>3, <2>4 DEF IndexesInv, Clean
<1>9. CASE pc = "indexes"
  <2>1. \A x \in ToSet(plan) : (\E n \in Created : x = Creation(n)) \/ Removes(x)
    BY <1>9 DEF IndexesInv
  <2>2. (\A x \in ToSet(plan) : (\E n \in Created : x = Creation(n)) \/ Removes(x))'
    BY <1>2, <1>4, <1>5, <2>1 DEF Removes
  <2>3. CASE errors'
    BY <1>1, <1>6, <1>9, <2>2, <2>3 DEF IndexesInv, Clean
  <2>4. CASE ~errors'
    <3>1. ToCome
      BY <1>1, <1>9, <2>4 DEF IndexesInv
    <3>2. (\E n \in Created : h = Creation(n)) \/ Removes(h)
      BY <1>4, <2>1
    <3>3. table' = Executed(table, h)
      <4>1. h.op \notin {"ADD", "CHANGE"}
        <5>1. Creates(h) \/ Removes(h)
          BY <3>2, CreationCreates
        <5>. QED
          BY <5>1 DEF Creates, Removes
      <4>. QED
        BY <1>9, <2>4, <4>1 DEF Execute, h
    <3>4. Paired(plan, Names)'
      BY <1>2, <1>4, <1>5, <3>1 DEF ToCome, Outstanding
    <3>5. CASE \E n \in Created : h = Creation(n)
      <4>1. Creates(h) /\ h.name \in Names
        BY <3>5, CreationCreates
      <4>2. DOMAIN table'.idx = DOMAIN table.idx \cup {h.name}
        <5>1. Executed(table, h) = Table(table.exists, table.cols, Entered(table.idx, h.name, ReportedIndex(D, h.arg)), table.rows, table.trigger)
          BY <1>3, <4>1, ExecutedIs DEF Creates
        <5>2. table'.idx = Entered(table.idx, h.name, ReportedIndex(D, h.arg))
          BY <3>3, <5>1 DEF Table
        <5>. QED
          BY <5>2 DEF Entered
      <4>3. ~Removes(h)
        BY <4>1, CreatesOrRemoves
      <4>4. \A n \in Created : \/ Physical[n] \in DOMAIN table'.idx
                               \/ \E x \in rest : Creates(x) /\ x.name = Physical[n]
        BY <1>4, <3>1, <4>2 DEF ToCome, Outstanding
      <4>5. \A p \in DOMAIN table'.idx \ Names : \E x \in rest : Removes(x) /\ x.name = p
        BY <1>4, <3>1, <4>1, <4>2, <4>3 DEF ToCome, Outstanding
      <4>6. ToCome'
        BY <1>2, <1>5, <3>4, <4>4, <4>5 DEF ToCome, Outstanding
      <4>. QED
        BY <1>1, <1>6, <1>9, <2>2, <4>6 DEF IndexesInv, Clean
    <3>6. CASE Removes(h)
      <4>1. DOMAIN table'.idx = DOMAIN table.idx \ {h.name}
        <5>1. Executed(table, h) = Table(table.exists, table.cols, Without(table.idx, {h.name}), table.rows, table.trigger)
          BY <1>3, <3>6, ExecutedIs DEF Removes
        <5>2. table'.idx = Without(table.idx, {h.name})
          BY <3>3, <5>1 DEF Table
        <5>. QED
          BY <5>2 DEF Without
      <4>2. ~Creates(h)
        BY <3>6, CreatesOrRemoves
      <4>3. \A n \in Created : Physical[n] \in Names
        BY CreationCreates
      <4>4. \A n \in Created : \/ Physical[n] \in DOMAIN table'.idx
                               \/ \E x \in rest : Creates(x) /\ x.name = Physical[n]
        BY <1>4, <3>1, <3>6, <4>1, <4>2, <4>3 DEF ToCome, Outstanding
      <4>5. \A p \in DOMAIN table'.idx \ Names : \E x \in rest : Removes(x) /\ x.name = p
        BY <1>4, <3>1, <4>1 DEF ToCome, Outstanding
      <4>6. ToCome'
        BY <1>2, <1>5, <3>4, <4>4, <4>5 DEF ToCome, Outstanding
      <4>. QED
        BY <1>1, <1>6, <1>9, <2>2, <4>6 DEF IndexesInv, Clean
    <3>. QED
      BY <3>2, <3>5, <3>6
  <2>. QED
    BY <2>3, <2>4
<1>. QED
  BY <1>1, <1>7, <1>8, <1>9

LEMMA IndexesRebuild ==
    ASSUME Inv, NotesInv, IndexesInv, Begin \/ RebuildStep \/ Undo
    PROVE  IndexesInv'
<1>1. CASE Begin /\ Ended(TRUE, Faulty)
  <2>1. site' = site /\ schema' = schema /\ table' = table
    BY <1>1 DEF Begin
  <2>. QED
    BY <1>1, <2>1, NotesAreOK, IndexesToTrigger
<1>2. CASE pc' \in Rebuilding \cup {"columns"} /\ changed' = changed
  BY <1>2 DEF IndexesInv, Clean, Touches, Rebuilding
<1>. QED
  BY <1>1, <1>2 DEF Begin, RebuildStep, Undo, Rebuilding

LEMMA IndexesRead ==
    ASSUME Inv, NotesInv, IndexesInv, ReadIndexes \/ Verify \/ VerifyAgain
    PROVE  IndexesInv'
<1>1. site' = site /\ schema' = schema /\ table' = table
  BY DEF ReadIndexes, Verify, VerifyAgain
<1>2. NoteOK(sync) /\ NoteOK(Faulty) /\ NoteOK([Faulty EXCEPT !.blind = TRUE]) /\ errors \in BOOLEAN
  BY NotesAreOK DEF NotesInv
<1>3. CASE ToTrigger(TRUE, Faulty) \/ ToTrigger(TRUE, sync)
  BY <1>1, <1>2, <1>3, IndexesToTrigger
<1>4. /\ Names' = Names /\ Created' = Created /\ Physical' = Physical
      /\ \A n : Creation(n)' = Creation(n)
  BY <1>1, DefinitionKept
<1>5. CASE /\ pc = "columns" /\ pc' = "indexes" /\ UNCHANGED <<changed, errors, sync>>
           /\ plan' = IndexPass(site.server, Fields, Schemas[schema].indexes, TableName, table.idx)
  <2>1. /\ Paired(plan', Names)
        /\ \A x \in ToSet(plan') : \/ \E n \in Created : x = Creation(n)
                                   \/ \E p \in DOMAIN table.idx : x = Removal(p)
        /\ \A n \in Created : Physical[n] \notin DOMAIN table.idx => Creation(n) \in ToSet(plan')
        /\ \A p \in DOMAIN table.idx \ Names : Removal(p) \in ToSet(plan')
    BY <1>5, IndexPassElements DEF Inv, PlanInv, TablesInv, TableOK
  <2>2. \A p : Removes(Removal(p)) /\ Removal(p).name = p
    BY DEF Removes, Removal, Statement
  <2>3. \A x \in ToSet(plan') : (\E n \in Created : x = Creation(n)) \/ Removes(x)
    BY <2>1, <2>2
  <2>4. \A n \in Created : \/ Physical[n] \in DOMAIN table.idx
                           \/ \E x \in ToSet(plan') : Creates(x) /\ x.name = Physical[n]
    BY <2>1, CreationCreates
  <2>5. \A p \in DOMAIN table.idx \ Names : \E x \in ToSet(plan') : Removes(x) /\ x.name = p
    BY <2>1, <2>2
  <2>6. ToCome'
    BY <1>1, <1>4, <2>1, <2>4, <2>5 DEF ToCome, Outstanding
  <2>7. (\A x \in ToSet(plan) : (\E n \in Created : x = Creation(n)) \/ Removes(x))'
    BY <1>4, <2>3 DEF Removes
  <2>. QED
    BY <1>5, <2>6, <2>7 DEF IndexesInv, Clean, Touches
<1>6. ASSUME Verify \/ VerifyAgain
      PROVE  ~errors => Indexed
  <2>1. CASE Verify
    <3>1. plan = <<>> /\ pc = "indexes"
      BY <2>1 DEF Verify
    <3>2. ToSet(plan) = {}
      BY <3>1 DEF ToSet
    <3>. QED
      BY <3>1, <3>2 DEF IndexesInv, ToCome, Outstanding, Indexed
  <2>2. CASE VerifyAgain
    BY <2>2 DEF VerifyAgain, IndexesInv
  <2>. QED
    BY <1>6, <2>1, <2>2
<1>7. CASE /\ Verify /\ pc' = "reissue" /\ plan' = MissingColumns(table.cols, changed)
           /\ UNCHANGED <<changed, errors, sync>>
  <2>1. \A x \in ToSet(plan') : x \in ToSet(changed)
    BY <1>7, MissingElements DEF Inv, PlanInv
  <2>2. (\A x \in ToSet(plan) : Touches(x))' /\ (\A x \in ToSet(changed) : Touches(x))'
    BY <1>7, <2>1 DEF IndexesInv, Touches
  <2>3. ~errors' => Indexed'
    BY <1>1, <1>4, <1>6, <1>7 DEF Indexed
  <2>. QED
    BY <1>7, <2>2, <2>3 DEF IndexesInv, Clean
<1>8. CASE (Verify \/ VerifyAgain) /\ (ToTrigger(errors, sync) \/ ToTrigger(errors, [Faulty EXCEPT !.blind = TRUE]))
  BY <1>1, <1>2, <1>6, <1>8, IndexesToTrigger
<1>9. CASE VerifyAgain /\ ToTrigger(errors \/ MissingColumns(table.cols, changed) # <<>>, sync)
  <2> DEFINE errs == errors \/ MissingColumns(table.cols, changed) # <<>>
  <2>1. errs \in BOOLEAN /\ (~errs => Indexed) /\ ToTrigger(errs, sync)
    BY <1>2, <1>6, <1>9
  <2> HIDE DEF errs
  <2>. QED
    BY <1>1, <1>2, <2>1, IndexesToTrigger
<1>. QED
  BY <1>3, <1>5, <1>7, <1>8, <1>9 DEF ReadIndexes, Verify, VerifyAgain

LEMMA IndexesEnd ==
    ASSUME Inv, NotesInv, IndexesInv, AttachTrigger \/ Crash
    PROVE  IndexesInv'
<1>1. plan' = <<>> /\ changed' = <<>> /\ pc' = "idle" /\ site' = site /\ schema' = schema
  BY DEF AttachTrigger, Crash, Ended
<1>2. (\A x \in ToSet(changed) : Touches(x))'
  <2>1. ToSet(<<>>) = {}
    BY DEF ToSet
  <2>. QED
    BY <1>1, <2>1
<1>3. CASE Ended(TRUE, Faulty)
  <2>1. sync'.clean = FALSE
    BY <1>3, EndedNotes, NotesAreOK
  <2>. QED
    BY <1>1, <1>2, <2>1 DEF IndexesInv, Clean
<1>4. CASE AttachTrigger /\ Ended(errors, sync) /\ table' = [table EXCEPT !.trigger = table.exists]
  <2>1. pc = "trigger"
    BY <1>4 DEF AttachTrigger
  <2>2. sync'.clean = ~errors
    BY <1>4, EndedNotes DEF NotesInv
  <2>3. table' = Table(table.exists, table.cols, table.idx, table.rows, table.exists)
    BY <1>4, Replacing DEF Inv, TablesInv
  <2>4. table'.idx = table.idx
    BY <2>3 DEF Table
  <2>5. /\ Names' = Names /\ Created' = Created /\ Physical' = Physical
    BY <1>1, DefinitionKept
  <2>6. Clean' => Indexed'
    BY <2>1, <2>2, <2>4, <2>5 DEF IndexesInv, Indexed, Clean
  <2>. QED
    BY <1>1, <1>2, <2>6 DEF IndexesInv
<1>. QED
  BY <1>3, <1>4 DEF AttachTrigger, Crash

LEMMA IndexesRest ==
    ASSUME Inv, NotesInv, IndexesInv, Preflight \/ \E r \in Row, full \in BOOLEAN : Insert(r, full)
    PROVE  IndexesInv'
<1>1. CASE Preflight
  <2>1. pc = "columns" /\ UNCHANGED <<pc, site, schema, changed>>
    BY <1>1 DEF Preflight
  <2>. QED
    BY <2>1 DEF IndexesInv, Clean, Touches
<1>2. CASE \E r \in Row, full \in BOOLEAN : Insert(r, full)
  <2>1. PICK r \in Row, full \in BOOLEAN : Insert(r, full)
    BY <1>2
  <2>2. PICK rows : /\ UNCHANGED <<pc, site, schema, changed, errors, sync, plan>>
                    /\ table' = [table EXCEPT !.rows = rows]
    BY <2>1 DEF Insert
  <2>3. table' = Table(table.exists, table.cols, table.idx, rows, table.trigger)
    BY <2>2, Replacing DEF Inv, TablesInv
  <2>4. table'.idx = table.idx
    BY <2>3 DEF Table
  <2>. QED
    BY <2>2, <2>4, IndexesStay
<1>. QED
  BY <1>1, <1>2

LEMMA IndexesStep ==
    ASSUME Inv, NotesInv, IndexesInv, [Next]_vars
    PROVE  IndexesInv'
<1>1. CASE UNCHANGED vars
  BY <1>1, IndexesStay DEF vars
<1>2. CASE \E n \in DOMAIN Schemas : StartSync(n)
  BY <1>2 DEF StartSync, IndexesInv, Clean, Touches
<1>3. CASE Step
  BY <1>3, IndexesInspect, IndexesRest, IndexesExecute, IndexesRebuild, IndexesRead, IndexesEnd DEF Step
<1>. QED
  BY <1>1, <1>2, <1>3, IndexesRest, IndexesEnd DEF Next

-----------------------------------------------------------------------------
(* What a clean sync leaves: what the indexes are                          *)

\* A list of columns, none of them a path into a JSON column.
PlainList(cols) == /\ Len(cols) \in Nat
                   /\ \A i \in 1 .. Len(cols) : IsEntry(cols[i]) /\ cols[i].path = ""
Leads(new, cols) == /\ PlainList(new)
                    /\ [i \in 1 .. Len(new) |-> new[i].col] = [i \in 1 .. Len(cols) |-> cols[i].col]

\* What is rewritten of an entry is its length, its direction or its path.
Alike(new, e, path) == IsEntry(new) /\ new.col = e.col /\ new.path = path

LEMMA EntryRewritten ==
    ASSUME NEW e, IsEntry(e), NEW len, NEW dir
    PROVE  /\ Alike([e EXCEPT !.len = len], e, e.path)
           /\ Alike([e EXCEPT !.dir = dir], e, e.path)
           /\ Alike([e EXCEPT !.len = len, !.dir = dir], e, e.path)
           /\ Alike([e EXCEPT !.dir = dir, !.len = len], e, e.path)
           /\ \A path : /\ Alike([e EXCEPT !.dir = dir, !.path = path], e, path)
                        /\ Alike([e EXCEPT !.len = len, !.dir = dir, !.path = path], e, path)
<1>1. \A x : IsEntry(x) => \E C, L, F, P : x \in [col : C, len : L, dir : F, path : P]
  <2>1. SUFFICES ASSUME NEW x, IsEntry(x) PROVE \E C, L, F, P : x \in [col : C, len : L, dir : F, path : P]
    BY DEF IsEntry
  <2>2. x \in [col : {x.col}, len : {x.len}, dir : {x.dir}, path : {x.path}]
    BY <2>1 DEF IsEntry
  <2>. QED
    BY <2>2
<1>2. PICK C, L, F, P : e \in [col : C, len : L, dir : F, path : P]
  BY <1>1
<1> DEFINE T == [col : C, len : L \cup {len}, dir : F \cup {dir}, path : P]
<1>3. /\ [e EXCEPT !.len = len] \in T /\ [e EXCEPT !.dir = dir] \in T
      /\ [e EXCEPT !.len = len, !.dir = dir] \in T /\ [e EXCEPT !.dir = dir, !.len = len] \in T
  BY <1>2
<1>4. \A path : /\ [e EXCEPT !.dir = dir, !.path = path] \in [col : C, len : L \cup {len}, dir : F \cup {dir}, path : {path}]
                /\ [e EXCEPT !.len = len, !.dir = dir, !.path = path] \in [col : C, len : L \cup {len}, dir : F \cup {dir}, path : {path}]
  BY <1>2
<1>5. /\ IsEntry([e EXCEPT !.len = len]) /\ IsEntry([e EXCEPT !.dir = dir])
      /\ IsEntry([e EXCEPT !.len = len, !.dir = dir]) /\ IsEntry([e EXCEPT !.dir = dir, !.len = len])
      /\ \A path : /\ IsEntry([e EXCEPT !.dir = dir, !.path = path])
                   /\ IsEntry([e EXCEPT !.len = len, !.dir = dir, !.path = path])
  <2>1. \A x, A, B, X, Y : x \in [col : A, len : B, dir : X, path : Y] => IsEntry(x)
    BY DEF IsEntry
  <2> HIDE DEF IsEntry
  <2>2. /\ IsEntry([e EXCEPT !.len = len]) /\ IsEntry([e EXCEPT !.dir = dir])
        /\ IsEntry([e EXCEPT !.len = len, !.dir = dir]) /\ IsEntry([e EXCEPT !.dir = dir, !.len = len])
    BY <1>3, <2>1, ZenonT(60)
  <2>3. SUFFICES ASSUME NEW path
                 PROVE  /\ IsEntry([e EXCEPT !.dir = dir, !.path = path])
                        /\ IsEntry([e EXCEPT !.len = len, !.dir = dir, !.path = path])
    BY <2>2, Zenon
  <2>. QED
    BY <1>4, <2>1, ZenonT(60)
<1>. QED
  BY <1>2, <1>5 DEF Alike

\* A rewriting of a list, entry by entry, that leaves the columns the index is over.
LEMMA Rewritten ==
    ASSUME NEW cols, PlainList(cols), NEW new, new = [i \in 1 .. Len(cols) |-> new[i]],
           \A i \in 1 .. Len(cols) : Alike(new[i], cols[i], "")
    PROVE  Leads(new, cols)
<1> DEFINE n == Len(cols)
           T == {new[i] : i \in 1 .. n}
<1>1. n \in Nat
  BY DEF PlainList
<1>2. new \in [1 .. n -> T]
  OBVIOUS
<1> HIDE DEF n, T
<1>3. Len(new) = n
  BY <1>1, <1>2, LengthOf
<1>. QED
  BY <1>1, <1>3 DEF n, Leads, PlainList, Alike

AnIndex(cols, fulltext, unique, where, ts) ==
    [cols |-> cols, fulltext |-> fulltext, unique |-> unique, where |-> where, ts |-> ts]

\* What CREATE INDEX is asked for.
LEMMA ResolvedIs ==
    ASSUME NEW d, NEW spec, IsIndex(spec), spec.form = "cols"
    PROVE  \E cols, ts :
              /\ Resolved(d, spec) = AnIndex(cols, spec.fulltext, spec.unique,
                                             IF Features[d].partialIndexes THEN spec.where ELSE "", ts)
              /\ PlainList(spec.cols) => Leads(cols, spec.cols)
<1> DEFINE list == spec.cols
           cols == [i \in 1 .. Len(spec.cols) |-> [spec.cols[i] EXCEPT !.len = IF spec.fulltext THEN "" ELSE @]]
           ts == Resolved(d, spec).ts
<1>1. Resolved(d, spec) = AnIndex(cols, spec.fulltext, spec.unique /\ spec.form = "cols",
                                  IF Features[d].partialIndexes THEN spec.where ELSE "", ts)
  BY Zenon DEF Resolved, AnIndex
<1>2. (spec.unique /\ spec.form = "cols") = spec.unique
  BY DEF IsIndex
<1>3. ASSUME PlainList(list) PROVE Leads(cols, list)
  <2>1. cols = [i \in 1 .. Len(list) |-> cols[i]]
    OBVIOUS
  <2>2. \A i \in 1 .. Len(list) : Alike(cols[i], list[i], "")
    <3>1. TAKE i \in 1 .. Len(list)
    <3> DEFINE e == list[i]
               len == IF spec.fulltext THEN "" ELSE e.len
    <3>2. cols[i] = [e EXCEPT !.len = len]
      BY Zenon
    <3>3. IsEntry(e) /\ e.path = ""
      BY <1>3 DEF PlainList
    <3> HIDE DEF cols, len, e
    <3>4. Alike([e EXCEPT !.len = len], e, e.path)
      BY <3>3, EntryRewritten
    <3>. QED
      BY <3>2, <3>3, <3>4 DEF e
  <2> HIDE DEF cols, list
  <2>. QED
    BY <1>3, <2>1, <2>2, Rewritten
<1>. QED
  BY <1>1, <1>2, <1>3, Zenon

\* What the catalogue reports of an index that was asked for.
AsReported(d, index, texts) == ReportedIndex(d, CreatedIndex(d, index, texts))

\* The catalogue of each server reports an index over the declared columns, unique
\* and fulltext as it was asked for, with its predicate: paths apart, which two of
\* the three catalogues report in a spelling of their own.
LEMMA MySqlReportsIt ==
    ASSUME NEW c, NEW f \in BOOLEAN, NEW u \in BOOLEAN, NEW w, NEW t, NEW texts, ~(f /\ u)
    PROVE  \E cols : /\ AsReported("mysql", AnIndex(c, f, u, w, t), texts) = AnIndex(cols, f, u, w, t)
                     /\ PlainList(c) => Leads(cols, c)
<1> DEFINE made == MySqlCreated(c, texts)
           cols == MySqlReported(made, f)
           a == AnIndex(c, f, u, w, t)
           b == AnIndex(made, f, u, w, t)
<1>1. MySqlCreateIndex(a, texts) = b
  BY DEF MySqlCreateIndex, AnIndex
<1>2. MySqlIndex(b) = AnIndex(cols, f, u, w, t)
  <2> HIDE DEF made
  <2> DEFINE x == [b EXCEPT !.cols = MySqlReported(b.cols, b.fulltext)]
  <2>1. x = AnIndex(cols, f, u, w, t)
    BY DEF AnIndex
  <2>2. MySqlIndex(b) = [x EXCEPT !.unique = NeverBoth(b.unique, b.fulltext)]
    BY DEF MySqlIndex
  <2>3. NeverBoth(b.unique, b.fulltext) = u
    BY DEF NeverBoth, AnIndex
  <2> HIDE DEF x, cols, b
  <2>. QED
    BY <2>1, <2>2, <2>3 DEF AnIndex
<1>3. AsReported("mysql", a, texts) = MySqlIndex(MySqlCreateIndex(a, texts))
  BY Zenon DEF AsReported, ReportedIndex, CreatedIndex
<1>4. ASSUME PlainList(c) PROVE Leads(cols, c)
  <2>1. Leads(made, c)
    <3>1. made = [i \in 1 .. Len(c) |-> made[i]]
      BY Zenon DEF MySqlCreated
    <3>2. \A i \in 1 .. Len(c) : Alike(made[i], c[i], "")
      <4>1. TAKE i \in 1 .. Len(c)
      <4> DEFINE e == c[i]
                 cut == [e EXCEPT !.len = "255", !.dir = ""]
      <4>2. made[i] \in {cut, e}
        BY Zenon DEF MySqlCreated
      <4>3. IsEntry(e) /\ e.path = ""
        BY <1>4 DEF PlainList
      <4> HIDE DEF e, made
      <4>4. Alike(e, e, "") /\ Alike(cut, e, e.path)
        <5>1. Alike(cut, e, e.path)
          BY <4>3, EntryRewritten
        <5>. QED
          BY <4>3, <5>1 DEF Alike
      <4>. QED
        BY <4>2, <4>3, <4>4 DEF e
    <3> HIDE DEF made
    <3>. QED
      BY <1>4, <3>1, <3>2, Rewritten
  <2>2. Leads(cols, made)
    <3> HIDE DEF made
    <3>1. cols = [i \in 1 .. Len(made) |-> cols[i]]
      BY Zenon DEF MySqlReported
    <3>2. \A i \in 1 .. Len(made) : Alike(cols[i], made[i], "")
      <4>1. TAKE i \in 1 .. Len(made)
      <4> DEFINE e == made[i]
                 len == IF f THEN "" ELSE e.len
                 dir == IF f THEN "" ELSE Direction(e.dir)
      <4>2. cols[i] = [e EXCEPT !.dir = dir, !.len = len]
        BY Zenon DEF MySqlReported
      <4>3. IsEntry(e) /\ e.path = ""
        BY <2>1 DEF PlainList, Leads
      <4> HIDE DEF e, cols, dir, len
      <4>4. Alike([e EXCEPT !.dir = dir, !.len = len], e, e.path)
        BY <4>3, EntryRewritten
      <4>. QED
        BY <4>2, <4>3, <4>4 DEF e
    <3> HIDE DEF cols
    <3>. QED
      BY <2>1, <3>1, <3>2, Rewritten DEF Leads
  <2>. QED
    BY <2>1, <2>2 DEF Leads
<1>. QED
  BY <1>1, <1>2, <1>3, <1>4, Zenon

LEMMA PostgresReportsIt ==
    ASSUME NEW c, NEW f \in BOOLEAN, NEW u \in BOOLEAN, NEW w, NEW t, NEW texts, ~(f /\ u)
    PROVE  \E cols : /\ AsReported("postgres", AnIndex(c, f, u, w, t), texts)
                           = AnIndex(cols, f, u, Parenthesized(w), t)
                     /\ PlainList(c) => Leads(cols, c)
<1> DEFINE made == PostgresCreated(c, f)
           cols == PostgresReported(made)
           a == AnIndex(c, f, u, w, t)
           b == AnIndex(made, f, u, w, t)
<1>1. PostgresCreateIndex(a) = b
  <2> DEFINE x == [a EXCEPT !.cols = PostgresCreated(a.cols, a.fulltext)]
  <2>1. x = b
    BY DEF AnIndex
  <2>2. PostgresCreateIndex(a) = [x EXCEPT !.unique = NeverBoth(a.unique, a.fulltext)]
    BY DEF PostgresCreateIndex
  <2>3. NeverBoth(a.unique, a.fulltext) = u
    BY DEF NeverBoth, AnIndex
  <2> HIDE DEF x, a, made
  <2>. QED
    BY <2>1, <2>2, <2>3 DEF AnIndex
<1>2. PostgresIndex(b) = AnIndex(cols, f, u, Parenthesized(w), t)
  <2> HIDE DEF made
  <2> DEFINE x == [b EXCEPT !.cols = PostgresReported(b.cols)]
  <2>1. x = AnIndex(cols, f, u, w, t)
    BY DEF AnIndex
    <2>2. PostgresIndex(b) = [x EXCEPT !.where = Parenthesized(b.where)]
    BY DEF PostgresIndex
  <2>3. Parenthesized(b.where) = Parenthesized(w)
    BY DEF AnIndex
  <2> HIDE DEF x, cols, b
  <2>. QED
    BY <2>1, <2>2, <2>3 DEF AnIndex
<1>3. AsReported("postgres", a, texts) = PostgresIndex(PostgresCreateIndex(a))
  BY Zenon DEF AsReported, ReportedIndex, CreatedIndex
<1>4. ASSUME PlainList(c) PROVE Leads(cols, c)
  <2>1. Leads(made, c)
    <3>1. made = [i \in 1 .. Len(c) |-> made[i]]
      BY Zenon DEF PostgresCreated
    <3>2. \A i \in 1 .. Len(c) : Alike(made[i], c[i], "")
      <4>1. TAKE i \in 1 .. Len(c)
      <4> DEFINE e == c[i]
                 dir == IF f THEN "" ELSE e.dir
      <4>2. made[i] = [e EXCEPT !.len = "", !.dir = dir, !.path = KeyOfPath(e.path)]
        BY Zenon DEF PostgresCreated
      <4>3. IsEntry(e) /\ e.path = "" /\ KeyOfPath(e.path) = ""
        BY <1>4 DEF PlainList, KeyOfPath
      <4> HIDE DEF e, made, dir
      <4>4. Alike([e EXCEPT !.len = "", !.dir = dir, !.path = KeyOfPath(e.path)], e, KeyOfPath(e.path))
        BY <4>3, EntryRewritten
      <4>. QED
        BY <4>2, <4>3, <4>4 DEF e
    <3> HIDE DEF made
    <3>. QED
      BY <1>4, <3>1, <3>2, Rewritten
  <2> DEFINE list == [i \in 1 .. Len(made) |->
                         [made[i] EXCEPT !.dir = Direction(@), !.path = PathOfKey(@)]]
  <2>2. Leads(list, made)
    <3> HIDE DEF made
    <3>1. list = [i \in 1 .. Len(made) |-> list[i]]
      BY Zenon
    <3>2. \A i \in 1 .. Len(made) : Alike(list[i], made[i], "")
      <4>1. TAKE i \in 1 .. Len(made)
      <4> DEFINE e == made[i]
                 dir == Direction(e.dir)
      <4>2. list[i] = [e EXCEPT !.dir = dir, !.path = PathOfKey(e.path)]
        BY Zenon
      <4>3. IsEntry(e) /\ e.path = "" /\ PathOfKey(e.path) = ""
        BY <2>1 DEF PlainList, Leads, PathOfKey
      <4> HIDE DEF e, list, dir
      <4>4. Alike([e EXCEPT !.dir = dir, !.path = PathOfKey(e.path)], e, PathOfKey(e.path))
        BY <4>3, EntryRewritten
      <4>. QED
        BY <4>2, <4>3, <4>4 DEF e
    <3> HIDE DEF list
    <3>. QED
      BY <2>1, <3>1, <3>2, Rewritten DEF Leads
  <2>3. cols = list
    <3>1. cols = PostgresJsonColumns(list)
      BY Zenon DEF PostgresReported
    <3> HIDE DEF list
    <3>2. {i \in 1 .. Len(list) : IsJson(list[i])} = {}
      BY <2>2 DEF Leads, PlainList, IsJson
    <3>. QED
      BY <3>1, <3>2, Zenon DEF PostgresJsonColumns
  <2>. QED
    BY <2>1, <2>2, <2>3 DEF Leads
<1>. QED
  BY <1>1, <1>2, <1>3, <1>4, Zenon

LEMMA SqliteReportsIt ==
    ASSUME NEW c, NEW f, NEW u, NEW w, NEW t, NEW texts
    PROVE  \E cols : /\ AsReported("sqlite", AnIndex(c, f, u, w, t), texts) = AnIndex(cols, f, u, w, t)
                     /\ PlainList(c) => Leads(cols, c)
<1> DEFINE made == SqliteCreated(c)
           cols == SqliteReported(made)
           a == AnIndex(c, f, u, w, t)
           b == AnIndex(made, f, u, w, t)
<1>1. SqliteCreateIndex(a) = b
  BY DEF SqliteCreateIndex, AnIndex
<1>2. SqliteIndex(b) = AnIndex(cols, f, u, w, t)
  <2> HIDE DEF made
  <2>. QED
    BY DEF SqliteIndex, AnIndex
<1>3. AsReported("sqlite", a, texts) = SqliteIndex(SqliteCreateIndex(a))
  BY Zenon DEF AsReported, ReportedIndex, CreatedIndex
<1>4. ASSUME PlainList(c) PROVE Leads(cols, c)
  <2>1. Leads(made, c)
    <3>1. made = [i \in 1 .. Len(c) |-> made[i]]
      BY Zenon DEF SqliteCreated
    <3>2. \A i \in 1 .. Len(c) : Alike(made[i], c[i], "")
      <4>1. TAKE i \in 1 .. Len(c)
      <4> DEFINE e == c[i]
      <4>2. made[i] = [e EXCEPT !.len = ""]
        BY Zenon DEF SqliteCreated
      <4>3. IsEntry(e) /\ e.path = ""
        BY <1>4 DEF PlainList
      <4> HIDE DEF e, made
      <4>4. Alike([e EXCEPT !.len = ""], e, e.path)
        BY <4>3, EntryRewritten
      <4>. QED
        BY <4>2, <4>3, <4>4 DEF e
    <3> HIDE DEF made
    <3>. QED
      BY <1>4, <3>1, <3>2, Rewritten
  <2>2. Leads(cols, made)
    <3> HIDE DEF made
    <3>1. cols = [i \in 1 .. Len(made) |-> cols[i]]
      BY Zenon DEF SqliteReported
    <3>2. \A i \in 1 .. Len(made) : Alike(cols[i], made[i], "")
      <4>1. TAKE i \in 1 .. Len(made)
      <4> DEFINE e == made[i]
                 dir == Direction(e.dir)
      <4>3. IsEntry(e) /\ e.path = "" /\ ~IsJson(e)
        BY <2>1 DEF PlainList, Leads, IsJson
      <4>2. cols[i] = [e EXCEPT !.dir = dir]
        BY <4>3, Zenon DEF SqliteReported
      <4> HIDE DEF e, cols, dir
      <4>4. Alike([e EXCEPT !.dir = dir], e, e.path)
        BY <4>3, EntryRewritten
      <4>. QED
        BY <4>2, <4>3, <4>4 DEF e
    <3> HIDE DEF cols
    <3>. QED
      BY <2>1, <3>1, <3>2, Rewritten DEF Leads
  <2>. QED
    BY <2>1, <2>2 DEF Leads
<1>. QED
  BY <1>1, <1>2, <1>3, <1>4, Zenon

\* An index that is created is the one that was declared.
\* What is reported of an index that was asked for with that predicate.
Reports(r, spec, asked) ==
    /\ r.unique = spec.unique /\ r.fulltext = spec.fulltext
    /\ r.where \in {asked, Parenthesized(asked)}
    /\ PlainList(spec.cols) => Leads(r.cols, spec.cols)

LEMMA ReportsIt ==
    ASSUME NEW d, d \in {"mysql", "postgres", "sqlite"}, NEW spec, IsIndex(spec), spec.form = "cols",
           ~(spec.fulltext /\ spec.unique), NEW texts
    PROVE  Reports(AsReported(d, Resolved(d, spec), texts), spec,
                   IF Features[d].partialIndexes THEN spec.where ELSE "")
<1> DEFINE f == spec.fulltext
           u == spec.unique
           asked == IF Features[d].partialIndexes THEN spec.where ELSE ""
           printed == Parenthesized(asked)
           r == AsReported(d, Resolved(d, spec), texts)
<1>1. f \in BOOLEAN /\ u \in BOOLEAN /\ ~(f /\ u)
  BY DEF IsIndex
<1>2. PICK c, t : /\ Resolved(d, spec) = AnIndex(c, f, u, asked, t)
                  /\ PlainList(spec.cols) => Leads(c, spec.cols)
  BY ResolvedIs
<1> HIDE DEF f, u, asked
<1>3. \E cols, w : /\ r = AnIndex(cols, f, u, w, t) /\ w \in {asked, printed}
                   /\ PlainList(c) => Leads(cols, c)
  <2> DEFINE x == AnIndex(c, f, u, asked, t)
  <2>1. r = AsReported(d, x, texts)
    BY <1>2
  <2> HIDE DEF r
  <2>2. CASE d = "mysql"
    <3>1. PICK cols : /\ AsReported("mysql", x, texts) = AnIndex(cols, f, u, asked, t)
                      /\ PlainList(c) => Leads(cols, c)
      BY <1>1, MySqlReportsIt
    <3>. QED
      BY <2>1, <2>2, <3>1
  <2>3. CASE d = "postgres"
    <3>1. PICK cols : /\ AsReported("postgres", x, texts) = AnIndex(cols, f, u, printed, t)
                      /\ PlainList(c) => Leads(cols, c)
      BY <1>1, PostgresReportsIt
    <3>. QED
      BY <2>1, <2>3, <3>1
  <2>4. CASE d = "sqlite"
    <3>1. PICK cols : /\ AsReported("sqlite", x, texts) = AnIndex(cols, f, u, asked, t)
                      /\ PlainList(c) => Leads(cols, c)
      BY SqliteReportsIt
    <3>. QED
      BY <2>1, <2>4, <3>1
  <2>. QED
    BY <2>2, <2>3, <2>4
<1>4. PICK cols, w : /\ r = AnIndex(cols, f, u, w, t) /\ w \in {asked, printed}
                     /\ PlainList(c) => Leads(cols, c)
  BY <1>3
<1> HIDE DEF r, printed
<1>5. r.unique = u /\ r.fulltext = f /\ r.where = w /\ r.cols = cols
  BY <1>4 DEF AnIndex
<1>6. PlainList(spec.cols) => Leads(cols, spec.cols)
  BY <1>2, <1>4 DEF Leads
<1>. QED
  BY <1>4, <1>5, <1>6 DEF f, u, asked, printed, r, Reports

\* An index that compares as the one a definition asks for is the one it declares.
Compares(x, spec, asked) ==
    /\ x.unique = spec.unique /\ x.fulltext = spec.fulltext
    /\ NormalizedPredicate(x.where) = NormalizedPredicate(asked)
    /\ PlainList(spec.cols) => [i \in 1 .. Len(x.cols) |-> x.cols[i].col]
                             = [i \in 1 .. Len(spec.cols) |-> spec.cols[i].col]

LEMMA ComparesAlike ==
    ASSUME NEW d, NEW spec, IsIndex(spec), spec.form = "cols", NEW fields,
           NEW x, Comparable(x) = Comparable(Signature(d, spec, fields))
    PROVE  Compares(x, spec, IF Features[d].partialIndexes THEN spec.where ELSE "")
<1> DEFINE f == spec.fulltext
           u == spec.unique
           w == IF Features[d].partialIndexes THEN spec.where ELSE ""
           texts == TextColumns(d, spec, fields)
<1>1. PICK c, t : /\ Resolved(d, spec) = AnIndex(c, f, u, w, t)
                  /\ PlainList(spec.cols) => Leads(c, spec.cols)
  BY ResolvedIs
<1> DEFINE long == WithLengths(c, texts)
           s == AnIndex(long, f, u, w, t)
           shown == IF f THEN t ELSE ""
<1> HIDE DEF f, u, w, texts
<1>2. Signature(d, spec, fields) = s
  <2>1. Signature(d, spec, fields) = [AnIndex(c, f, u, w, t) EXCEPT !.cols = WithLengths(@, texts)]
    BY <1>1 DEF Signature, texts
  <2>. QED
    BY <2>1 DEF AnIndex
<1> HIDE DEF long, shown
<1>3. Comparable(s) = AnIndex(NormalizedColumns(long), f, u, NormalizedPredicate(w), shown)
  <2> DEFINE a == [s EXCEPT !.cols = NormalizedColumns(@)]
             b == [a EXCEPT !.where = NormalizedPredicate(@)]
  <2>1. a = AnIndex(NormalizedColumns(long), f, u, w, t)
    BY DEF AnIndex
  <2>2. b = AnIndex(NormalizedColumns(long), f, u, NormalizedPredicate(w), t)
    <3> HIDE DEF a
    <3>. QED
      BY <2>1 DEF AnIndex
  <2>3. Comparable(s) = [b EXCEPT !.ts = IF s.fulltext THEN @ ELSE ""]
    BY DEF Comparable
  <2>4. s.fulltext = f
    BY DEF AnIndex
  <2> HIDE DEF b, s
  <2>. QED
    BY <2>2, <2>3, <2>4 DEF AnIndex, shown
<1> DEFINE y == Comparable(x)
<1>4. /\ y.unique = u /\ y.fulltext = f /\ y.where = NormalizedPredicate(w) /\ y.cols = NormalizedColumns(long)
      /\ DOMAIN y = {"cols", "fulltext", "unique", "where", "ts"}
  BY <1>2, <1>3 DEF AnIndex
<1>5. DOMAIN y = DOMAIN x
  BY DEF Comparable
<1>6. /\ y.unique = x.unique /\ y.fulltext = x.fulltext
      /\ y.where = NormalizedPredicate(x.where) /\ y.cols = NormalizedColumns(x.cols)
  BY <1>4, <1>5 DEF Comparable
<1>7. ASSUME PlainList(spec.cols)
      PROVE  [i \in 1 .. Len(x.cols) |-> x.cols[i].col] = [i \in 1 .. Len(spec.cols) |-> spec.cols[i].col]
  <2>1. Leads(long, c)
    <3>1. long = [i \in 1 .. Len(c) |-> long[i]]
      BY Zenon DEF WithLengths, long
    <3>2. \A i \in 1 .. Len(c) : Alike(long[i], c[i], "")
      <4>1. TAKE i \in 1 .. Len(c)
      <4> DEFINE e == c[i]
                 longer == [e EXCEPT !.len = "255"]
      <4>2. long[i] \in {longer, e}
        BY Zenon DEF WithLengths, long
      <4>3. IsEntry(e) /\ e.path = ""
        BY <1>1, <1>7 DEF PlainList, Leads
      <4> HIDE DEF e
      <4>4. Alike(e, e, "") /\ Alike(longer, e, e.path)
        <5>1. Alike(longer, e, e.path)
          BY <4>3, EntryRewritten
        <5>. QED
          BY <4>3, <5>1 DEF Alike
      <4>. QED
        BY <4>2, <4>3, <4>4 DEF e
    <3>. QED
      BY <1>1, <1>7, <3>1, <3>2, Rewritten DEF Leads
  <2> DEFINE xs == x.cols
  <2>2. NormalizedColumns(xs) = NormalizedColumns(long)
    BY <1>4, <1>6
  <2> HIDE DEF xs, y
  <2>3. 1 .. Len(xs) = 1 .. Len(long)
    <3>1. \A l : DOMAIN NormalizedColumns(l) = 1 .. Len(l)
      BY DEF NormalizedColumns
    <3>. QED
      BY <2>2, <3>1, Zenon
  <2>4. ASSUME NEW i \in 1 .. Len(xs) PROVE xs[i].col = long[i].col
    <3> DEFINE e == xs[i]
               g == long[i]
    <3>1. NormalizedColumn(e) = NormalizedColumn(g)
      BY <2>2, <2>3, <2>4, Zenon DEF NormalizedColumns
    <3>2. IsEntry(g)
      BY <2>1, <2>3, <2>4 DEF Leads, PlainList
    <3> HIDE DEF e, g
    <3>3. DOMAIN NormalizedColumn(e) = DOMAIN e /\ DOMAIN NormalizedColumn(g) = DOMAIN g
      BY DEF NormalizedColumn
    <3>4. "col" \in DOMAIN g
      BY <3>2 DEF IsEntry
    <3>5. \A z : "col" \in DOMAIN z => NormalizedColumn(z).col = z.col
      BY DEF NormalizedColumn
    <3>6. e.col = g.col
      BY <3>1, <3>3, <3>4, <3>5
    <3>. QED
      BY <3>6 DEF e, g
  <2>5. [i \in 1 .. Len(xs) |-> xs[i].col] = [i \in 1 .. Len(long) |-> long[i].col]
    BY <2>3, <2>4
  <2>. QED
    BY <1>1, <1>7, <2>1, <2>5 DEF Leads, xs
<1>. QED
  BY <1>4, <1>6, <1>7, Zenon DEF f, u, w, Compares

CompleteInv == Inv /\ NotesInv /\ ColumnsInv /\ IndexesInv

LEMMA CompleteInit == Init => CompleteInv
<1>. SUFFICES ASSUME Init PROVE CompleteInv
  OBVIOUS
<1>1. ToSet(<<>>) = {}
  BY DEF ToSet
<1>2. NotesInv
  BY DEF Init, NotesInv, NoteOK
<1>3. pc = "idle" /\ ~Clean /\ changed = <<>>
  BY DEF Init, Clean
<1>4. ColumnsInv
  BY <1>3 DEF ColumnsInv
<1>5. IndexesInv
  BY <1>1, <1>3 DEF IndexesInv
<1>. QED
  BY <1>2, <1>4, <1>5, InvInit DEF CompleteInv

LEMMA CompleteAlways == Spec => []CompleteInv
<1>1. Inv /\ CompleteInv /\ [Next]_vars /\ Inv' => CompleteInv'
  BY NotesStep, ColumnsStep, IndexesStep DEF CompleteInv
<1>. QED
  BY <1>1, CompleteInit, InvAlways, PTL DEF Spec

LEMMA CompleteIsPresent ==
    CompleteInv => (Clean /\ ~sync.blind => /\ ColumnsArePresent /\ IndexesArePresent
                                            /\ NoOtherIndex /\ TriggerIsAttached)
<1>. SUFFICES ASSUME CompleteInv, Clean, ~sync.blind
              PROVE  ColumnsArePresent /\ IndexesArePresent /\ NoOtherIndex /\ TriggerIsAttached
  OBVIOUS
<1>1. Durable = table
  BY DEF CompleteInv, Inv, OwedInv, Clean, Durable, Rebuilding
<1>2. ColumnsArePresent /\ TriggerIsAttached
  BY <1>1 DEF CompleteInv, ColumnsInv, ColumnsArePresent, TriggerIsAttached
<1>3. Indexed
  BY DEF CompleteInv, IndexesInv
<1>4. IndexesArePresent /\ NoOtherIndex
  BY <1>1, <1>3 DEF Indexed, IndexesArePresent, NoOtherIndex, Names
<1>. QED
  BY <1>2, <1>4

\* A sync that reports no error (and could read back what it added) leaves on disk
\* a table with every declared column, with every declared index that is not skipped
\* and none that the definition does not name, and with the id trigger - for any
\* definition, whatever earlier syncs left, lost or were refused.
THEOREM CleanSync ==
    Spec => [](Clean /\ ~sync.blind => /\ ColumnsArePresent /\ IndexesArePresent
                                       /\ NoOtherIndex /\ TriggerIsAttached)
  BY CompleteIsPresent, CompleteAlways, PTL

-----------------------------------------------------------------------------
(* Clean syncs: every index is the one that is declared                    *)

\* A declared index, by its components.
ASpec(form, cols, fulltext, unique, where, ts) ==
    [form |-> form, cols |-> cols, fulltext |-> fulltext, unique |-> unique, where |-> where, ts |-> ts]

\* A list that starts with the word fulltext is read without it.
LEMMA ReadAs ==
    ASSUME NEW s, s = ASpec(s.form, s.cols, s.fulltext, s.unique, s.where, s.ts)
    PROVE  \/ ReadSpec(s) = s
           \/ s.cols # <<>> /\ ReadSpec(s) = ASpec(s.form, Tail(s.cols), TRUE, s.unique, s.where, s.ts)
<1> DEFINE x == s.form  c == s.cols  f == s.fulltext  u == s.unique  w == s.where  z == s.ts
           yes == TRUE
           t == Tail(c)
           a == [s EXCEPT !.fulltext = yes]
           b == [a EXCEPT !.cols = t]
<1>1. s = ASpec(x, c, f, u, w, z)
  OBVIOUS
<1>2. ReadSpec(s) = s \/ (c # <<>> /\ ReadSpec(s) = b)
  BY DEF ReadSpec
<1> HIDE DEF yes, t, x, c, f, u, w, z
<1>3. a = ASpec(x, c, yes, u, w, z)
  BY <1>1 DEF ASpec
<1> HIDE DEF a
<1>4. b = ASpec(x, t, yes, u, w, z)
  BY <1>3 DEF ASpec
<1> HIDE DEF b
<1>. QED
  BY <1>2, <1>4 DEF yes, t, x, c, u, w, z

\* What is declared has the shape of an index.
LEMMA DeclaredIsIndex ==
    ASSUME NEW d, NEW fields, NEW indexes, \A x \in DOMAIN indexes : IsIndex(indexes[x]), NEW tbl,
           NEW n \in DOMAIN Declared(d, fields, indexes, tbl)
    PROVE  IsIndex(Declared(d, fields, indexes, tbl)[n])
<1> DEFINE all == WithIsDeletedIndex(d, fields, indexes, tbl)
           key == IF d = "mysql" THEN "isDeleted" ELSE tbl \o "_isDeleted"
           spec == [form |-> "cols", cols |-> <<Entry("isDeleted")>>, fulltext |-> FALSE,
                    unique |-> FALSE, where |-> "", ts |-> ""]
<1>1. IsIndex(spec)
  <2>1. IsEntry(Entry("isDeleted"))
    BY DEF IsEntry, Entry
  <2> DEFINE e == Entry("isDeleted")
             s == <<e>>
  <2> HIDE DEF e
  <2>2. s \in Seq({e}) /\ ToSet(s) = {e}
    BY DEF ToSet
  <2> HIDE DEF s
  <2>3. IsIndex([form |-> "cols", cols |-> s, fulltext |-> FALSE, unique |-> FALSE, where |-> "", ts |-> ""])
    BY <2>1, <2>2 DEF IsIndex, e
  <2>. QED
    BY <2>3 DEF s, e
<1> HIDE DEF spec
<1>2. all \in {indexes, Entered(indexes, key, spec)}
  BY Zenon DEF WithIsDeletedIndex, spec
<1> HIDE DEF key
<1>3. DOMAIN Declared(d, fields, indexes, tbl) = DOMAIN all /\ Declared(d, fields, indexes, tbl)[n] = ReadSpec(all[n])
  BY DEF Declared
<1>4. IsIndex(all[n])
  <2> HIDE DEF all
  <2>. QED
    BY <1>1, <1>2, <1>3 DEF Entered
<1> DEFINE s == all[n]
<1>5. IsIndex(ReadSpec(s))
  <2> HIDE DEF s, all
  <2> DEFINE x == s.form  c == s.cols  u == s.unique  w == s.where  z == s.ts  f == s.fulltext
             t == Tail(c)
             T == ToSet(c)
  <2>0. s = ASpec(x, c, f, u, w, z)
    BY <1>4 DEF IsIndex, s, ASpec
  <2>1. CASE c # <<>> /\ ReadSpec(s) = ASpec(x, t, TRUE, u, w, z)
    <3>1. c \in Seq(T) /\ u \in BOOLEAN /\ \A e \in T : IsEntry(e)
      BY <1>4 DEF IsIndex, s
    <3> HIDE DEF c, T, x, u, w, z
    <3>2. t \in Seq(T)
      BY <2>1, <3>1
    <3> HIDE DEF t
    <3>3. ToSet(t) \subseteq T /\ t \in Seq(ToSet(t))
      <4> DEFINE m == Len(t)
      <4>1. m \in Nat /\ DOMAIN t = 1 .. m /\ t \in [1 .. m -> T]
        BY <3>2, LenProperties
      <4> HIDE DEF m
      <4>2. \A i \in 1 .. m : t[i] \in ToSet(t)
        BY <4>1 DEF ToSet
      <4>3. t \in [1 .. m -> ToSet(t)]
        BY <4>1, <4>2
      <4>4. t \in Seq(ToSet(t))
        BY <4>1, <4>3, SeqDef, Zenon
      <4>5. ToSet(t) \subseteq T
        BY <4>1 DEF ToSet
      <4>. QED
        BY <4>4, <4>5
    <3>. QED
      BY <2>1, <3>1, <3>3 DEF IsIndex, ASpec
  <2>2. CASE ReadSpec(s) = s
    BY <1>4, <2>2 DEF s
  <2>3. ReadSpec(s) = s \/ (c # <<>> /\ ReadSpec(s) = ASpec(x, t, TRUE, u, w, z))
    BY <2>0, ReadAs
  <2>. QED
    BY <2>1, <2>2, <2>3
<1>. QED
  BY <1>3, <1>5

\* The table has the index under that name, as it is declared.
Settled(d, spec, name, idx) == spec.form = "cols" => name \in DOMAIN idx /\ Same(d, idx[name], spec)
IsSettled(n) == Settled(D, Declarations[n], Physical[n], table.idx)
AllSettled   == \A n \in Created : IsSettled(n)

\* Until an error is noted, every declared index is the declared one or is still to
\* be created, by that very statement.
SameInv ==
    /\ pc = "indexes" /\ ~errors => \A n \in Created : IsSettled(n) \/ Creation(n) \in ToSet(plan)
    /\ (pc \in {"reissue", "trigger"} /\ ~errors) \/ Clean => AllSettled

\* An index over no path into a JSON column is over plain columns.
LEMMA IndexIsPlain ==
    ASSUME NEW spec, IsIndex(spec)
    PROVE  PlainList(spec.cols) \/ \E e \in ToSet(spec.cols) : IsJson(e)
<1> DEFINE c == spec.cols
           T == ToSet(c)
<1>1. c \in Seq(T) /\ \A e \in T : IsEntry(e)
  BY DEF IsIndex
<1>2. \A i \in 1 .. Len(c) : c[i] \in T /\ Len(c) \in Nat
  <2> HIDE DEF T, c
  <2>. QED
    BY <1>1
<1>3. Len(c) \in Nat
  <2> HIDE DEF T, c
  <2>. QED
    BY <1>1
<1> HIDE DEF T
<1>. QED
  BY <1>1, <1>2, <1>3 DEF PlainList, IsJson, T

\* What the hypothesis on the definitions says of the one at hand.
LEMMA PlainHere ==
    ASSUME PlainDefinitions, site \in [server : Servers, allowDrop : BOOLEAN, family : Families],
           schema \in DOMAIN Schemas
    PROVE  /\ D \in {"mysql", "postgres", "sqlite"}
           /\ \A m \in DOMAIN Declarations :
                 /\ IsIndex(Declarations[m])
                 /\ \A n \in DOMAIN Declarations : Physical[m] = Physical[n] => m = n
                 /\ NormalizedPredicate(Declarations[m].where) = Declarations[m].where
                 /\ NormalizedPredicate(Parenthesized(Declarations[m].where)) = Declarations[m].where
<1>1. site.server \in Servers
  OBVIOUS
<1>2. D \in {"mysql", "postgres", "sqlite"}
  BY <1>1 DEF D, Dialect, Servers
<1>3. \A m \in DOMAIN Declarations : IsIndex(Declarations[m])
  <2>1. \A x \in DOMAIN Schemas[schema].indexes : IsIndex(Schemas[schema].indexes[x])
    BY SyncAssumption
  <2>. QED
    BY <2>1, DeclaredIsIndex, Zenon DEF Declarations
<1>4. \A m \in DOMAIN Declarations :
         /\ \A n \in DOMAIN Declarations : Physical[m] = Physical[n] => m = n
         /\ NormalizedPredicate(Declarations[m].where) = Declarations[m].where
         /\ NormalizedPredicate(Parenthesized(Declarations[m].where)) = Declarations[m].where
  BY <1>1, Zenon DEF PlainDefinitions, Declarations, Physical, Fields, D
<1>. QED
  BY <1>2, <1>3, <1>4

\* A predicate that reads as it is written is the declared one, whichever of the two
\* ways the catalogue has of printing it.
LEMMA PredicateIs ==
    ASSUME NEW w, NormalizedPredicate(w) = w, NormalizedPredicate(Parenthesized(w)) = w, NEW partial
    PROVE  LET asked == IF partial THEN w ELSE ""
           IN  NormalizedPredicate(asked) = asked /\ NormalizedPredicate(Parenthesized(asked)) = asked
<1>1. NormalizedPredicate("") = "" /\ Parenthesized("") = ""
  BY DEF NormalizedPredicate, Parenthesized
<1>. QED
  BY <1>1

\* The index that is created for a declared one is the declared one.
LEMMA CreatedIsSame ==
    ASSUME PlainDefinitions, site \in [server : Servers, allowDrop : BOOLEAN, family : Families],
           schema \in DOMAIN Schemas, NEW n \in Created, Declarations[n].form = "cols"
    PROVE  Same(D, ReportedIndex(D, Creation(n).arg), Declarations[n])
<1> DEFINE spec == Declarations[n]
           d == D
           asked == IF Features[d].partialIndexes THEN spec.where ELSE ""
           r == ReportedIndex(d, Creation(n).arg)
<1>1. n \in DOMAIN Declarations /\ ~IsSkipped(site.server, spec, Fields)
  BY DEF Created
<1>2. ~(spec.fulltext /\ spec.unique)
  BY <1>1 DEF IsSkipped
<1>3. /\ d \in {"mysql", "postgres", "sqlite"} /\ IsIndex(spec)
      /\ NormalizedPredicate(spec.where) = spec.where
      /\ NormalizedPredicate(Parenthesized(spec.where)) = spec.where
  BY <1>1, PlainHere
<1>4. spec.form = "cols"
  OBVIOUS
<1>5. NormalizedPredicate(asked) = asked /\ NormalizedPredicate(Parenthesized(asked)) = asked
  <2> HIDE DEF spec, d
  <2>. QED
    BY <1>3, PredicateIs
<1>6. r = AsReported(d, Resolved(d, spec), TextColumns(d, spec, Fields))
  BY DEF Creation, Statement, AsReported
<1>7. /\ r.unique = spec.unique /\ r.fulltext = spec.fulltext
      /\ r.where \in {asked, Parenthesized(asked)}
      /\ PlainList(spec.cols) => Leads(r.cols, spec.cols)
  <2> DEFINE texts == TextColumns(d, spec, Fields)
             x == AsReported(d, Resolved(d, spec), texts)
  <2>1. r = x
    BY <1>6
  <2> HIDE DEF spec, d, texts, r
  <2>2. Reports(x, spec, asked)
    BY <1>2, <1>3, <1>4, ReportsIt
  <2> HIDE DEF x
  <2>. QED
    BY <2>1, <2>2 DEF Reports
<1>8. PlainList(spec.cols) \/ \E e \in ToSet(spec.cols) : IsJson(e)
  BY <1>3, IndexIsPlain
<1> HIDE DEF r, asked
<1>9. NormalizedPredicate(r.where) = asked
  BY <1>5, <1>7
<1>10. \/ \E e \in ToSet(spec.cols) : IsJson(e)
       \/ [i \in 1 .. Len(r.cols) |-> r.cols[i].col] = [i \in 1 .. Len(spec.cols) |-> spec.cols[i].col]
  BY <1>7, <1>8 DEF Leads
<1> HIDE DEF spec, d
<1>11. Same(d, r, spec)
  BY <1>7, <1>9, <1>10, Zenon DEF Same, asked
<1>. QED
  BY <1>11 DEF spec, d, r

\* The index that compares as the declared one is the declared one.
LEMMA LikeIsSame ==
    ASSUME PlainDefinitions, site \in [server : Servers, allowDrop : BOOLEAN, family : Families],
           schema \in DOMAIN Schemas, NEW n \in Created, NEW existing, Physical[n] \in DOMAIN existing,
           ~Unlike(n, existing)
    PROVE  Settled(D, Declarations[n], Physical[n], existing)
<1> DEFINE spec == Declarations[n]
           d == D
           asked == IF Features[d].partialIndexes THEN spec.where ELSE ""
           x == existing[Physical[n]]
<1>1. SUFFICES ASSUME spec.form = "cols" PROVE Same(d, x, spec)
  BY DEF Settled
<1>2. n \in DOMAIN Declarations
  BY DEF Created
<1>3. /\ IsIndex(spec)
      /\ NormalizedPredicate(spec.where) = spec.where
      /\ NormalizedPredicate(Parenthesized(spec.where)) = spec.where
  BY <1>2, PlainHere
<1>4. Comparable(x) = Comparable(Signature(d, spec, Fields))
  BY <1>1 DEF Unlike
<1> HIDE DEF spec, d, x
<1>5. NormalizedPredicate(asked) = asked
  BY <1>3, PredicateIs
<1>6. Compares(x, spec, asked)
  BY <1>1, <1>3, <1>4, ComparesAlike
<1>7. PlainList(spec.cols) \/ \E e \in ToSet(spec.cols) : IsJson(e)
  BY <1>3, IndexIsPlain
<1> HIDE DEF asked
<1>8. NormalizedPredicate(x.where) = asked
  BY <1>5, <1>6 DEF Compares
<1>9. \/ \E e \in ToSet(spec.cols) : IsJson(e)
      \/ [i \in 1 .. Len(x.cols) |-> x.cols[i].col] = [i \in 1 .. Len(spec.cols) |-> spec.cols[i].col]
  BY <1>6, <1>7, Zenon DEF Compares
<1>. QED
  BY <1>6, <1>8, <1>9, Zenon DEF Same, Compares, asked

LEMMA SettledKept ==
    ASSUME site' = site, schema' = schema, table'.idx = table.idx
    PROVE  (AllSettled' <=> AllSettled) /\ Created' = Created /\ \A n : IsSettled(n)' <=> IsSettled(n)
<1>1. D' = D /\ Declarations' = Declarations /\ Physical' = Physical /\ Created' = Created
  BY DefinitionKept
<1>. QED
  BY <1>1 DEF AllSettled, IsSettled

\* A step that leaves the phase, the plan and the indexes.
LEMMA SameStay ==
    ASSUME SameInv, UNCHANGED <<pc, site, schema>>, pc = "indexes" => plan' = plan,
           errors => errors', sync'.clean = sync.clean,
           pc \in {"indexes", "reissue", "trigger", "idle"} => table'.idx = table.idx
    PROVE  SameInv'
<1>1. Clean' <=> Clean
  BY DEF Clean
<1>2. Clean => pc = "idle"
  BY DEF Clean
<1>3. CASE pc \in {"indexes", "reissue", "trigger", "idle"}
  <2>1. (AllSettled' <=> AllSettled) /\ Created' = Created /\ \A n : IsSettled(n)' <=> IsSettled(n)
    BY <1>3, SettledKept
  <2>2. \A n : Creation(n)' = Creation(n)
    BY DefinitionKept
  <2>3. (pc = "indexes" /\ ~errors => \A n \in Created : IsSettled(n) \/ Creation(n) \in ToSet(plan))'
    BY <2>1, <2>2 DEF SameInv
  <2>4. ((pc \in {"reissue", "trigger"} /\ ~errors) \/ Clean => AllSettled)'
    BY <1>1, <2>1 DEF SameInv
  <2>. QED
    BY <2>3, <2>4 DEF SameInv
<1>4. CASE pc \notin {"indexes", "reissue", "trigger", "idle"}
  BY <1>1, <1>2, <1>4 DEF SameInv
<1>. QED
  BY <1>3, <1>4

\* A step to the end of a sync, or to the trigger.
LEMMA SameToTrigger ==
    ASSUME site' = site, schema' = schema, table' = table,
           NEW errs \in BOOLEAN, NEW note, NoteOK(note), Ended(TRUE, note) \/ ToTrigger(errs, note),
           ~errs => AllSettled
    PROVE  SameInv'
<1>1. AllSettled' <=> AllSettled
  BY SettledKept
<1>2. CASE Ended(TRUE, note)
  <2>1. pc' = "idle" /\ sync'.clean = FALSE
    BY <1>2, EndedNotes
  <2>. QED
    BY <2>1 DEF SameInv, Clean
<1>3. CASE ToTrigger(errs, note)
  <2>1. errors' = errs /\ (pc' = "trigger" \/ (pc' = "idle" /\ sync'.clean = ~errs))
    BY <1>3, ToTriggerNotes
  <2>. QED
    BY <1>1, <2>1 DEF SameInv, Clean
<1>. QED
  BY <1>2, <1>3

\* A creation settles its index and disturbs no other; what a removal takes away is
\* created again by a statement that is still in the plan.
LEMMA SameExecute ==
    ASSUME PlainDefinitions, Inv, NotesInv, IndexesInv, SameInv, Execute
    PROVE  SameInv'
<1> DEFINE h == Head(plan)
           rest == ToSet(Tail(plan))
<1>1. /\ pc \in {"columns", "indexes", "reissue"} /\ plan # <<>> /\ plan' = Tail(plan)
      /\ UNCHANGED <<pc, site, schema, changed>>
  BY DEF Execute
<1>2. errors => errors'
  BY DEF Execute
<1>3. D' = D /\ Declarations' = Declarations /\ Physical' = Physical /\ Created' = Created
      /\ \A n : Creation(n)' = Creation(n)
  BY <1>1, DefinitionKept
<1>4. TableOK(table) /\ plan \in Seq(ToSet(plan))
  BY DEF Inv, TablesInv, PlanInv, ListOK
<1>5. /\ ToSet(plan) = {h} \cup rest
      /\ Paired(plan, Names) /\ Removes(h) /\ h.name \in Names =>
            \E x \in rest : Creates(x) /\ x.name = h.name
  <2> DEFINE T == ToSet(plan)
  <2> HIDE DEF T
  <2>1. plan \in Seq(T)
    BY <1>4 DEF T
  <2>. QED
    BY <1>1, <2>1, HeadOfPlan
<1>6. ToSet(plan') = rest
  BY <1>1
<1>7. /\ site \in [server : Servers, allowDrop : BOOLEAN, family : Families]
      /\ schema \in DOMAIN Schemas
  BY <1>1 DEF Inv, PlanInv
<1>8. CASE pc = "columns"
  BY <1>1, <1>8 DEF SameInv, Clean
<1>9. CASE errors'
  BY <1>1, <1>9 DEF SameInv, Clean
<1> HIDE DEF h, rest
<1>10. CASE pc = "reissue" /\ ~errors'
  <2>1. table'.idx = table.idx
    BY <1>5, <1>10, ReissueKeepsIndexes DEF h
  <2>2. AllSettled'
    BY <1>1, <1>2, <1>10, <2>1, SettledKept DEF SameInv
  <2>. QED
    BY <1>1, <1>10, <2>2 DEF SameInv
<1>11. CASE pc = "indexes" /\ ~errors'
  <2>1. \A x \in ToSet(plan) : (\E n \in Created : x = Creation(n)) \/ Removes(x)
    BY <1>11 DEF IndexesInv
  <2>2. /\ \A n \in Created : IsSettled(n) \/ Creation(n) \in ToSet(plan)
        /\ Paired(plan, Names)
    BY <1>2, <1>11 DEF SameInv, IndexesInv, ToCome, Outstanding
  <2>3. (\E n \in Created : h = Creation(n)) \/ Removes(h)
    BY <1>5, <2>1
  <2>4. table' = Executed(table, h)
    <3>1. h.op \notin {"ADD", "CHANGE"}
      <4>1. Creates(h) \/ Removes(h)
        BY <2>3, CreationCreates
      <4>. QED
        BY <4>1 DEF Creates, Removes
    <3>. QED
      BY <1>11, <3>1 DEF Execute, h
  <2>5. \A m, n \in Created : Physical[m] = Physical[n] => m = n
    BY <1>7, PlainHere DEF Created
  <2>6. SUFFICES ASSUME NEW n \in Created
                 PROVE  Settled(D, Declarations[n], Physical[n], table'.idx) \/ Creation(n) \in rest
    <3>1. \A n \in Created : Settled(D, Declarations[n], Physical[n], table'.idx) \/ Creation(n) \in rest
      BY <2>6
    <3>2. (\A n \in Created : IsSettled(n) \/ Creation(n) \in ToSet(plan))'
      BY <1>3, <1>6, <3>1 DEF IsSettled
    <3>. QED
      BY <1>1, <1>11, <3>2 DEF SameInv, Clean
  <2>7. IsSettled(n) \/ Creation(n) \in ToSet(plan)
    BY <2>2
  <2>8. CASE \E m \in Created : h = Creation(m)
    <3>1. PICK m \in Created : h = Creation(m)
      BY <2>8
    <3>2. Creates(h) /\ h.name = Physical[m]
      BY <3>1, CreationCreates
    <3>3. table'.idx = Entered(table.idx, h.name, ReportedIndex(D, h.arg))
      <4>1. Executed(table, h) = Table(table.exists, table.cols, Entered(table.idx, h.name, ReportedIndex(D, h.arg)), table.rows, table.trigger)
        BY <1>4, <3>2, ExecutedIs DEF Creates
      <4>. QED
        BY <2>4, <4>1 DEF Table
    <3>4. CASE n = m
      <4>1. Declarations[n].form = "cols" => Same(D, ReportedIndex(D, h.arg), Declarations[n])
        BY <1>7, <3>1, <3>4, CreatedIsSame
      <4>2. Physical[n] \in DOMAIN table'.idx /\ table'.idx[Physical[n]] = ReportedIndex(D, h.arg)
        BY <3>2, <3>3, <3>4 DEF Entered
      <4>. QED
        BY <4>1, <4>2 DEF Settled
    <3>5. CASE n # m
      <4>1. Physical[n] # h.name
        BY <2>5, <3>2, <3>5
      <4>2. Creation(n) # h
        BY <4>1, CreationCreates
      <4>3. Physical[n] \in DOMAIN table.idx =>
               Physical[n] \in DOMAIN table'.idx /\ table'.idx[Physical[n]] = table.idx[Physical[n]]
        BY <3>3, <4>1 DEF Entered
      <4>. QED
        BY <1>5, <2>7, <4>2, <4>3 DEF Settled, IsSettled
    <3>. QED
      BY <3>4, <3>5
  <2>9. CASE Removes(h)
    <3>1. table'.idx = Without(table.idx, {h.name})
      <4>1. Executed(table, h) = Table(table.exists, table.cols, Without(table.idx, {h.name}), table.rows, table.trigger)
        BY <1>4, <2>9, ExecutedIs DEF Removes
      <4>. QED
        BY <2>4, <4>1 DEF Table
    <3>2. Creation(n) # h
      BY <2>9, CreationCreates, CreatesOrRemoves
    <3>3. CASE Physical[n] = h.name
      <4>1. PICK x \in rest : Creates(x) /\ x.name = h.name
        BY <1>5, <2>2, <2>9, <3>3, CreationCreates
      <4>2. PICK k \in Created : x = Creation(k)
        BY <1>5, <2>1, <4>1, CreatesOrRemoves
      <4>3. k = n
        BY <2>5, <3>3, <4>1, <4>2, CreationCreates
      <4>. QED
        BY <4>1, <4>2, <4>3
    <3>4. CASE Physical[n] # h.name
      <4>1. Physical[n] \in DOMAIN table.idx =>
               Physical[n] \in DOMAIN table'.idx /\ table'.idx[Physical[n]] = table.idx[Physical[n]]
        BY <3>1, <3>4 DEF Without
      <4>. QED
        BY <1>5, <2>7, <3>2, <4>1 DEF Settled, IsSettled
    <3>. QED
      BY <3>3, <3>4
  <2>. QED
    BY <2>3, <2>8, <2>9
<1>. QED
  BY <1>1, <1>8, <1>9, <1>10, <1>11

LEMMA SameBefore ==
    ASSUME Inv, NotesInv, SameInv, Inspect \/ Begin \/ RebuildStep \/ Undo
    PROVE  SameInv'
<1>1. NoteOK(sync) /\ NoteOK(Faulty)
  BY NotesAreOK DEF NotesInv
<1>2. CASE pc' \in Rebuilding \cup {"columns", "begin"}
  BY <1>2 DEF SameInv, Clean, Rebuilding
<1>3. CASE /\ Ended(TRUE, sync) \/ Ended(TRUE, Faulty) \/ ToTrigger(TRUE, Faulty)
           /\ site' = site /\ schema' = schema /\ table' = table
  BY <1>1, <1>3, SameToTrigger
<1>. QED
  BY <1>2, <1>3 DEF Inspect, Compare, Begin, RebuildStep, Undo, Rebuilding

LEMMA SameRead ==
    ASSUME PlainDefinitions, Inv, NotesInv, SameInv, ReadIndexes \/ Verify \/ VerifyAgain
    PROVE  SameInv'
<1>1. site' = site /\ schema' = schema /\ table' = table
  BY DEF ReadIndexes, Verify, VerifyAgain
<1>2. NoteOK(sync) /\ NoteOK(Faulty) /\ NoteOK([Faulty EXCEPT !.blind = TRUE]) /\ errors \in BOOLEAN
  BY NotesAreOK DEF NotesInv
<1>3. CASE ToTrigger(TRUE, Faulty) \/ ToTrigger(TRUE, sync)
  BY <1>1, <1>2, <1>3, SameToTrigger
<1>4. /\ AllSettled' <=> AllSettled
      /\ Created' = Created /\ \A n : (IsSettled(n)' <=> IsSettled(n)) /\ Creation(n)' = Creation(n)
  BY <1>1, SettledKept, DefinitionKept
<1>5. CASE /\ pc = "columns" /\ pc' = "indexes" /\ UNCHANGED <<changed, errors, sync>>
           /\ plan' = IndexPass(site.server, Fields, Schemas[schema].indexes, TableName, table.idx)
  <2>1. /\ site \in [server : Servers, allowDrop : BOOLEAN, family : Families]
        /\ schema \in DOMAIN Schemas /\ IsFiniteSet(DOMAIN table.idx)
    BY <1>5 DEF Inv, PlanInv, TablesInv, TableOK
  <2>2. \A n \in Created : Physical[n] \notin DOMAIN table.idx \/ Unlike(n, table.idx) => Creation(n) \in ToSet(plan')
    BY <1>5, <2>1, IndexPassElements
  <2>3. \A n \in Created : IsSettled(n) \/ Creation(n) \in ToSet(plan')
    BY <2>1, <2>2, LikeIsSame DEF IsSettled
  <2>4. (\A n \in Created : IsSettled(n) \/ Creation(n) \in ToSet(plan))'
    BY <1>4, <2>3
  <2>. QED
    BY <1>5, <2>4 DEF SameInv, Clean
<1>6. ASSUME Verify \/ VerifyAgain
      PROVE  ~errors => AllSettled
  <2>1. CASE Verify
    <3>1. plan = <<>> /\ pc = "indexes"
      BY <2>1 DEF Verify
    <3>2. ToSet(plan) = {}
      BY <3>1 DEF ToSet
    <3>. QED
      BY <3>1, <3>2 DEF SameInv, AllSettled
  <2>2. CASE VerifyAgain
    BY <2>2 DEF VerifyAgain, SameInv
  <2>. QED
    BY <1>6, <2>1, <2>2
<1>7. CASE Verify /\ pc' = "reissue" /\ UNCHANGED <<changed, errors, sync>>
  BY <1>4, <1>6, <1>7 DEF SameInv, Clean
<1>8. CASE (Verify \/ VerifyAgain) /\ (ToTrigger(errors, sync) \/ ToTrigger(errors, [Faulty EXCEPT !.blind = TRUE]))
  BY <1>1, <1>2, <1>6, <1>8, SameToTrigger
<1>9. CASE VerifyAgain /\ ToTrigger(errors \/ MissingColumns(table.cols, changed) # <<>>, sync)
  <2> DEFINE errs == errors \/ MissingColumns(table.cols, changed) # <<>>
  <2>1. errs \in BOOLEAN /\ (~errs => AllSettled) /\ ToTrigger(errs, sync)
    BY <1>2, <1>6, <1>9
  <2> HIDE DEF errs
  <2>. QED
    BY <1>1, <1>2, <2>1, SameToTrigger
<1>. QED
  BY <1>3, <1>5, <1>7, <1>8, <1>9 DEF ReadIndexes, Verify, VerifyAgain

LEMMA SameEnd ==
    ASSUME Inv, NotesInv, SameInv, AttachTrigger \/ Crash
    PROVE  SameInv'
<1>1. pc' = "idle" /\ site' = site /\ schema' = schema
  BY DEF AttachTrigger, Crash, Ended
<1>2. CASE Ended(TRUE, Faulty)
  <2>1. sync'.clean = FALSE
    BY <1>2, EndedNotes, NotesAreOK
  <2>. QED
    BY <1>1, <2>1 DEF SameInv, Clean
<1>3. CASE AttachTrigger /\ Ended(errors, sync) /\ table' = [table EXCEPT !.trigger = table.exists]
  <2>1. pc = "trigger"
    BY <1>3 DEF AttachTrigger
  <2>2. sync'.clean = ~errors
    BY <1>3, EndedNotes DEF NotesInv
  <2>3. table' = Table(table.exists, table.cols, table.idx, table.rows, table.exists)
    BY <1>3, Replacing DEF Inv, TablesInv
  <2>4. table'.idx = table.idx
    BY <2>3 DEF Table
  <2>5. AllSettled' <=> AllSettled
    BY <1>1, <2>4, SettledKept
  <2>. QED
    BY <1>1, <2>1, <2>2, <2>5 DEF SameInv, Clean
<1>. QED
  BY <1>2, <1>3 DEF AttachTrigger, Crash

LEMMA SameInsert ==
    ASSUME Inv, SameInv, NEW r \in Row, NEW full \in BOOLEAN, Insert(r, full)
    PROVE  SameInv'
<1>1. PICK rows : /\ UNCHANGED <<pc, site, schema, errors, sync, plan>>
                  /\ table' = [table EXCEPT !.rows = rows]
  BY DEF Insert
<1>2. table' = Table(table.exists, table.cols, table.idx, rows, table.trigger)
  BY <1>1, Replacing DEF Inv, TablesInv
<1>3. table'.idx = table.idx
  BY <1>2 DEF Table
<1>. QED
  BY <1>1, <1>3, SameStay

LEMMA SameStep ==
    ASSUME PlainDefinitions, Inv, NotesInv, IndexesInv, SameInv, [Next]_vars
    PROVE  SameInv'
<1>1. CASE UNCHANGED vars
  BY <1>1, SameStay DEF vars
<1>2. CASE (\E n \in DOMAIN Schemas : StartSync(n)) \/ Preflight
  BY <1>2 DEF StartSync, Preflight, SameInv, Clean
<1>3. CASE Step
  BY <1>2, <1>3, SameBefore, SameExecute, SameRead, SameEnd DEF Step
<1>. QED
  BY <1>1, <1>2, <1>3, SameInsert, SameEnd DEF Next

\* A clean sync is complete: besides what CleanSync says, every index it
\* leaves is unique, fulltext, partial and over the columns as it is declared, for
\* any definitions whose indexes keep names of their own and whose predicates are
\* written as they are compared.
THEOREM CleanSyncComplete ==
    ASSUME PlainDefinitions
    PROVE  Spec => []CleanSyncIsComplete
<1>1. Init => SameInv
  BY DEF Init, SameInv, Clean
<1>2. CompleteInv /\ SameInv /\ [Next]_vars => SameInv'
  BY SameStep DEF CompleteInv
<1>3. ASSUME CompleteInv, SameInv PROVE CleanSyncIsComplete
  <2>1. SUFFICES ASSUME Clean, ~sync.blind PROVE IndexesAreTheSame
    <3>1. Clean /\ ~sync.blind => ColumnsArePresent /\ IndexesArePresent /\ NoOtherIndex /\ TriggerIsAttached
      BY <1>3, CompleteIsPresent
    <3>. QED
      BY <2>1, <3>1 DEF CleanSyncIsComplete
  <2>2. Durable = table
    BY <1>3, <2>1 DEF CompleteInv, Inv, OwedInv, Clean, Durable, Rebuilding
  <2>3. AllSettled
    BY <1>3, <2>1 DEF SameInv
  <2>. QED
    BY <2>2, <2>3 DEF IndexesAreTheSame, AllSettled, IsSettled, Settled
<1>. QED
  BY <1>1, <1>2, <1>3, CompleteAlways, PTL DEF Spec

-----------------------------------------------------------------------------
(* Why a sync reports an error                                             *)

(***************************************************************************)
(* Until something fails, what is left of the plan fits the table: its     *)
(* statements are apart and in order, each stands, and an index that is    *)
(* created anew is removed before.  For that the columns must be there     *)
(* (ConformInv), the primary keys among them (KeysInv), as the definition  *)
(* declares them (ArgsInv), and no column may become a text under an index *)
(* that bars it (GuardInv).  An error that nothing failed for then stands  *)
(* in the rows or in the definition (CauseInv).                            *)
(***************************************************************************)
\* The kinds of statement.
Builds(x)   == x.op = "CREATE TABLE"
ColumnOp(x) == x.op \in {"ADD", "CHANGE", "DROP"}
IndexOp(x)  == Creates(x) \/ Removes(x)
FieldOp(x)  == x.op \in {"ADD", "CHANGE"}

\* What is in a plan before a statement leaves it alone, or makes room for it.
Apart(x, y) ==
    \/ ColumnOp(y) /\ (Removes(x) \/ (ColumnOp(x) /\ x.name # y.name))
    \/ IndexOp(y) /\ IndexOp(x) /\ (x.name # y.name \/ (Removes(x) /\ Creates(y)))
InOrder(s) == \A i \in 1 .. Len(s) : \A j \in 1 .. i - 1 : Apart(s[j], s[i])

\* What a statement alters is there, and what it adds is not.
Stands(x, t) ==
    /\ Builds(x) <=> ~t.exists
    /\ x.op = "ADD" => x.name \notin DOMAIN t.cols
    /\ x.op \in {"CHANGE", "DROP"} => x.name \in DOMAIN t.cols
    /\ Removes(x) => x.name \in DOMAIN t.idx
    /\ x.check => x.op = "CHANGE" /\ IsNotNull(x.arg)
Freed(s, t) == \A i \in 1 .. Len(s) : Creates(s[i]) /\ s[i].name \in DOMAIN t.idx =>
                  \E j \in 1 .. i - 1 : Removes(s[j]) /\ s[j].name = s[i].name
PlanFits(s, t) == InOrder(s) /\ (\A i \in 1 .. Len(s) : Stands(s[i], t)) /\ Freed(s, t)

\* A sync in which nothing has gone wrong yet.
Smooth    == ~sync.faulty /\ ~errors
Executing == {"columns", "indexes"}
FitInv ==
    /\ pc \in {"inspect", "begin"} \cup Rebuilding => plan = <<>>
    /\ pc = "columns" => \A x \in ToSet(plan) : ~Creates(x)
    /\ Smooth /\ pc \in Executing => PlanFits(plan, table)

\* The statements about a field are those of the definition, the others of what it
\* does not declare.
ForField(x) == /\ FieldOp(x) => \E i \in 1 .. Len(Fields) : x.arg = Fields[i] /\ x.name = Fields[i].field
               /\ x.op = "DROP" => site.allowDrop /\ x.name \notin FieldNames(Fields)
ArgsInv == (\A x \in ToSet(plan) : ForField(x)) /\ (\A x \in ToSet(changed) : ForField(x))

\* Every table has the primary keys of the family.
Keys == {k \in UNION {FieldNames(AllFields[D][n]) : n \in site.family} :
            \E n \in site.family : \E i \in 1 .. Len(AllFields[D][n]) :
                AllFields[D][n][i].field = k /\ AllFields[D][n][i].key = "PRI"}
HasKeys(t) == t.exists => Keys \subseteq DOMAIN t.cols
KeysInv == /\ pc # "idle" => schema \in site.family
           /\ HasKeys(table) /\ HasKeys(temp) /\ HasKeys(saved)

\* An index that bars a column from becoming a text is removed before.
Barred(s, idx) ==
    \A y \in ToSet(s) : y.op = "CHANGE" /\ y.arg.type = "longtext" =>
        \A n \in Guarded(idx, {y.name}) : \E x \in ToSet(s) : Removes(x) /\ x.name = n
GuardInv == pc = "columns" /\ Smooth /\ D = "mysql" => Barred(plan, table.idx)

\* A column is there, and no text unless it is declared as one.
Conforms(f, t) ==
    /\ f.field \in DOMAIN t.cols
    /\ D = "mysql" /\ f.type # "longtext" => t.cols[f.field].type # "longtext"
Awaited(f, s) == \E x \in ToSet(s) : Builds(x) \/ (FieldOp(x) /\ x.arg = f)
ConformInv ==
    /\ pc \in {"begin"} \cup Rebuilding => D = "sqlite"
    /\ pc \in {"begin", "temp", "copy"} => table.exists /\ RequiredMissing(table.cols, Fields) = {}
    /\ pc = "copy" => temp.cols = Built(Fields).cols
    /\ pc = "reissue" /\ ~sync.faulty => errors
    /\ pc \in Executing /\ Smooth => \A i \in 1 .. Len(Fields) : Conforms(Fields[i], table) \/ Awaited(Fields[i], plan)

\* What stands in the rows or the definition: a column they have no value for, a
\* comparison, or what is left of a column, an index or a column to be dropped, if
\* nothing that is still to run is about it.
Unfit(f, t) == t.exists /\ f.field \notin DOMAIN t.cols /\ NeedsNoRows(f) /\ DOMAIN t.rows # {}
Unfilled == \E i \in 1 .. Len(Fields) : Unfit(Fields[i], table)
Throws   == \E i \in 1 .. Len(Fields) : /\ Fields[i].field \in DOMAIN table.cols
                                        /\ ComparisonThrows(table.cols[Fields[i].field], Fields[i])
NullAt(f, t) == IsNotNull(f) /\ \E r \in DOMAIN t.rows : f.field \notin t.rows[r]
Held(f, t) == /\ t.exists /\ f.field \in DOMAIN t.cols
              /\ NullAt(f, t) \/ Retyped(t, f) \/ RebuildIsBarred(t, f)
Spared(c, s) == \A x \in ToSet(s) : x.name = c => IndexOp(x)
LeftColumn == \E i \in 1 .. Len(Fields) : Held(Fields[i], table) /\ Spared(Fields[i].field, plan)
Late == {"indexes", "reissue", "trigger", "idle"}
Barren(n, s) == \A x \in ToSet(s) : x.op # "DROP" /\ (Creates(x) => x.name # Physical[n])
NoJson(t, e, s) == IsJson(e) /\ \/ Filled(t, {e.col}) # {}
                                \/ /\ D = "postgres" /\ e.col \in DOMAIN t.cols /\ t.cols[e.col].type # "jsonb"
                                   /\ Spared(e.col, s)
LeftIndex == /\ pc \in Late /\ table.exists
             /\ \E n \in Created :
                   /\ Physical[n] \notin DOMAIN table.idx /\ Barren(n, plan)
                   /\ MayRepeat(table, Wanted(n)) \/ \E e \in ToSet(Wanted(n).cols) : NoJson(table, e, plan)
LeftThere == /\ site.allowDrop /\ D # "postgres" /\ table.exists
             /\ \E c \in DOMAIN table.cols \ FieldNames(Fields) : Spared(c, plan)
Stuck == Unfilled \/ (pc = "idle" /\ Throws) \/ LeftColumn \/ LeftIndex \/ LeftThere
CauseInv == ~sync.faulty =>
    /\ errors => Stuck
    /\ pc \in {"inspect", "begin"} \cup Rebuilding => ~errors

\* Until an error is noted, the statement at hand fits the table.
StatementsFit == pc \in Executing /\ plan # <<>> /\ Smooth => Fits(table, Head(plan))

-----------------------------------------------------------------------------

\* The kinds of statement: one that creates an index removes none, and so on.
LEMMA Kinds ==
    \A x : /\ ~(Creates(x) /\ Removes(x))
           /\ ~(ColumnOp(x) /\ IndexOp(x))
           /\ ~(Builds(x) /\ (ColumnOp(x) \/ IndexOp(x)))
           /\ FieldOp(x) => ColumnOp(x)
           /\ x.op \in {"CHANGE", "DROP"} => ColumnOp(x)
           /\ x.op = "ADD" => ColumnOp(x) /\ x.op # "CHANGE"
  BY DEF Creates, Removes, ColumnOp, IndexOp, Builds, FieldOp

\* What a statement that was executed leaves of a table.
Leaves(x, t, u) ==
    /\ u.exists = t.exists
    /\ \A c : c # x.name \/ IndexOp(x) => /\ c \in DOMAIN u.cols <=> c \in DOMAIN t.cols
                                          /\ c \in DOMAIN t.cols => u.cols[c] = t.cols[c]
    /\ DOMAIN u.rows = DOMAIN t.rows
    /\ \A c : c # x.name \/ IndexOp(x) => \A r \in DOMAIN t.rows : c \in u.rows[r] <=> c \in t.rows[r]
    /\ \A n \in DOMAIN u.idx : (Creates(x) /\ n = x.name) \/ (n \in DOMAIN t.idx /\ u.idx[n] = t.idx[n])
    /\ Removes(x) => x.name \notin DOMAIN u.idx
    /\ IndexOp(x) => DOMAIN t.idx \ {x.name} \subseteq DOMAIN u.idx

\* A statement that stands behind another stands when that one is done.
LEMMA NextStands ==
    ASSUME NEW x, NEW y, NEW t, NEW u, Apart(x, y), Leaves(x, t, u), Stands(y, t)
    PROVE  Stands(y, u)
<1>1. CASE ColumnOp(y)
  <2>1. IndexOp(x) \/ x.name # y.name
    BY <1>1, Kinds DEF Apart, IndexOp
  <2>2. u.exists = t.exists /\ (y.name \in DOMAIN u.cols <=> y.name \in DOMAIN t.cols)
    BY <2>1 DEF Leaves
  <2>3. ~Removes(y)
    BY <1>1, Kinds DEF IndexOp
  <2>. QED
    BY <2>2, <2>3 DEF Stands
<1>2. CASE IndexOp(y)
  <2>1. IndexOp(x) /\ (x.name # y.name \/ (Removes(x) /\ Creates(y)))
    BY <1>2, Kinds DEF Apart
  <2>2. u.exists = t.exists
    BY DEF Leaves
  <2>3. y.op # "ADD" /\ y.op \notin {"CHANGE", "DROP"} /\ ~y.check
    BY <1>2, Kinds DEF Stands
  <2>4. Removes(y) => y.name \in DOMAIN u.idx
    BY <2>1, Kinds DEF Leaves, Stands
  <2>. QED
    BY <2>2, <2>3, <2>4 DEF Stands
<1>. QED
  BY <1>1, <1>2 DEF Apart

\* A plan, from its first statement on.
LEMMA PlanHead ==
    ASSUME NEW T, NEW s \in Seq(T), s # <<>>, InOrder(s)
    PROVE  /\ Len(s) \in Nat /\ 1 \in 1 .. Len(s) /\ Head(s) = s[1] /\ Len(Tail(s)) = Len(s) - 1
           /\ \A k \in 1 .. Len(s) - 1 : /\ k + 1 \in 1 .. Len(s) /\ Tail(s)[k] = s[k + 1]
                                         /\ Apart(Head(s), Tail(s)[k])
           /\ \A x \in ToSet(Tail(s)) : x \in ToSet(s) /\ Apart(Head(s), x)
           /\ \A x \in ToSet(s) : x = Head(s) \/ x \in ToSet(Tail(s))
<1> DEFINE n == Len(s)
           r == Tail(s)
<1>1. n \in Nat /\ 1 <= n /\ Len(r) = n - 1 /\ Head(s) = s[1] /\ DOMAIN r = 1 .. n - 1 /\ DOMAIN s = 1 .. n
  OBVIOUS
<1>2. \A k \in 1 .. n - 1 : r[k] = s[k + 1]
  OBVIOUS
<1>3. \A i \in 1 .. n : \A j \in 1 .. i - 1 : Apart(s[j], s[i])
  BY DEF InOrder
<1>4. ToSet(s) = {Head(s)} \cup ToSet(r)
  BY HeadOfPlan
<1> HIDE DEF n, r
<1>5. \A k \in 1 .. n - 1 : k + 1 \in 1 .. n /\ 1 \in 1 .. (k + 1) - 1 /\ Apart(Head(s), r[k])
  <2>1. TAKE k \in 1 .. n - 1
  <2>2. k + 1 \in 1 .. n /\ 1 \in 1 .. (k + 1) - 1
    BY <1>1
  <2>. QED
    BY <1>1, <1>2, <1>3, <2>2
<1>6. \A x \in ToSet(r) : x \in ToSet(s) /\ Apart(Head(s), x)
  <2>1. ToSet(r) = {r[k] : k \in 1 .. n - 1}
    BY <1>1 DEF ToSet
  <2>. QED
    BY <1>4, <1>5, <2>1
<1>7. 1 \in 1 .. n
  BY <1>1
<1>. QED
  BY <1>1, <1>2, <1>4, <1>5, <1>6, <1>7 DEF n, r

\* So a plan that fits still fits when its first statement is done.
LEMMA TailFits ==
    ASSUME NEW T, NEW s \in Seq(T), s # <<>>, NEW t, NEW u, PlanFits(s, t),
           ~Builds(Head(s)) => Leaves(Head(s), t, u)
    PROVE  PlanFits(Tail(s), u)
<1> DEFINE n == Len(s)
           h == Head(s)
           r == Tail(s)
<1>1. n \in Nat /\ 1 \in 1 .. n /\ Len(r) = n - 1 /\ h = s[1]
  BY PlanHead DEF PlanFits
<1>2. \A k \in 1 .. n - 1 : k + 1 \in 1 .. n /\ r[k] = s[k + 1] /\ Apart(h, r[k])
  BY PlanHead DEF PlanFits
<1>3. /\ \A i \in 1 .. n : \A j \in 1 .. i - 1 : Apart(s[j], s[i])
      /\ \A i \in 1 .. n : Stands(s[i], t)
      /\ \A i \in 1 .. n : Creates(s[i]) /\ s[i].name \in DOMAIN t.idx =>
            \E j \in 1 .. i - 1 : Removes(s[j]) /\ s[j].name = s[i].name
  BY DEF PlanFits, InOrder, Freed
<1> HIDE DEF n, h, r
<1>4. ASSUME NEW k \in 1 .. n - 1 PROVE Leaves(h, t, u)
  <2>1. Apart(h, r[k])
    BY <1>2
  <2>2. ~Builds(h)
    BY <2>1, Kinds DEF Apart, IndexOp
  <2>. QED
    BY <2>2 DEF h
<1>5. InOrder(r)
  <2>1. SUFFICES ASSUME NEW i \in 1 .. n - 1, NEW j \in 1 .. i - 1 PROVE Apart(r[j], r[i])
    BY <1>1 DEF InOrder
  <2>2. j \in 1 .. n - 1 /\ j + 1 \in 1 .. (i + 1) - 1
    BY <1>1
  <2>. QED
    BY <1>2, <1>3, <2>2
<1>6. \A k \in 1 .. Len(r) : Stands(r[k], u)
  <2>1. SUFFICES ASSUME NEW k \in 1 .. n - 1 PROVE Stands(r[k], u)
    BY <1>1
  <2>2. Leaves(h, t, u) /\ Apart(h, r[k]) /\ Stands(r[k], t)
    BY <1>2, <1>3, <1>4
  <2>. QED
    BY <2>2, NextStands
<1>7. Freed(r, u)
  <2>1. SUFFICES ASSUME NEW k \in 1 .. n - 1, Creates(r[k]), r[k].name \in DOMAIN u.idx
                 PROVE  \E j \in 1 .. k - 1 : Removes(r[j]) /\ r[j].name = r[k].name
    BY <1>1 DEF Freed
  <2>2. IndexOp(h) /\ (h.name # r[k].name \/ Removes(h))
    BY <1>2, <2>1, Kinds DEF Apart, IndexOp
  <2>3. Leaves(h, t, u)
    BY <1>4
  <2>4. r[k].name \in DOMAIN t.idx /\ ~(Removes(h) /\ h.name = r[k].name)
    BY <2>1, <2>2, <2>3, Kinds DEF Leaves
  <2>5. PICK j \in 1 .. (k + 1) - 1 : Removes(s[j]) /\ s[j].name = r[k].name
    BY <1>2, <1>3, <2>1, <2>4
  <2>6. j # 1
    BY <1>1, <2>4, <2>5
  <2>7. j - 1 \in 1 .. k - 1 /\ j - 1 \in 1 .. n - 1 /\ (j - 1) + 1 = j
    BY <1>1, <2>6
  <2>8. r[j - 1] = s[j]
    BY <1>2, <2>7
  <2>. QED
    BY <2>5, <2>7, <2>8
<1>. QED
  BY <1>5, <1>6, <1>7 DEF PlanFits, r

\* An executed statement leaves alone what it is not about.
LEMMA ExecutedLeaves ==
    ASSUME NEW t, TableOK(t), NEW x, x.op \in Ops, ~Builds(x), x.op = "CHANGE" => x.name \in DOMAIN t.cols
    PROVE  Leaves(x, t, Executed(t, x))
<1> DEFINE u == Executed(t, x)
           c == x.name
           f == x.arg
<1>1. CASE x.op = "ADD"
  <2> DEFINE cols == Entered(t.cols, c, NewColumn(site.server, f))
             rows == [r \in DOMAIN t.rows |->
                IF IsNotNull(f) \/ FieldSpec(D, f).default # "" THEN t.rows[r] \cup {c} ELSE t.rows[r]]
  <2>1. u = [t EXCEPT !.cols = cols, !.rows = rows]
    BY <1>1, Zenon DEF Executed
  <2>2. ~IndexOp(x) /\ ~Creates(x) /\ ~Removes(x)
    BY <1>1 DEF IndexOp, Creates, Removes
  <2>3. \A k : k # c => (k \in DOMAIN cols <=> k \in DOMAIN t.cols) /\ (k \in DOMAIN t.cols => cols[k] = t.cols[k])
    <3> DEFINE col == NewColumn(site.server, f)
    <3> HIDE DEF col
    <3>. QED
      BY DEF Entered
  <2>4. DOMAIN rows = DOMAIN t.rows /\ \A k : k # c => \A r \in DOMAIN t.rows : k \in rows[r] <=> k \in t.rows[r]
    OBVIOUS
  <2> HIDE DEF u, cols, rows
  <2>5. u = Table(t.exists, cols, t.idx, rows, t.trigger)
    BY <2>1, Replacing
  <2>6. u.exists = t.exists /\ u.cols = cols /\ u.idx = t.idx /\ u.rows = rows
    BY <2>5 DEF Table
  <2>. QED
    BY <2>2, <2>3, <2>4, <2>6 DEF Leaves, u
<1>2. CASE x.op = "CHANGE"
  <2> DEFINE cols == [t.cols EXCEPT ![c] = ModifiedColumn(site.server, @, f)]
             rows == [r \in DOMAIN t.rows |-> IF IsNotNull(f) THEN t.rows[r] \cup {c} ELSE t.rows[r]]
  <2>1. u = [t EXCEPT !.cols = cols, !.rows = rows]
    BY <1>2 DEF Executed
  <2>2. ~IndexOp(x) /\ ~Creates(x) /\ ~Removes(x)
    BY <1>2 DEF IndexOp, Creates, Removes
  <2>3. \A k : k # c => (k \in DOMAIN cols <=> k \in DOMAIN t.cols) /\ (k \in DOMAIN t.cols => cols[k] = t.cols[k])
    <3> DEFINE col == ModifiedColumn(site.server, t.cols[c], f)
    <3>1. cols = [t.cols EXCEPT ![c] = col]
      OBVIOUS
    <3> HIDE DEF col, cols
    <3>. QED
      BY <3>1
  <2>4. DOMAIN rows = DOMAIN t.rows /\ \A k : k # c => \A r \in DOMAIN t.rows : k \in rows[r] <=> k \in t.rows[r]
    OBVIOUS
  <2> HIDE DEF u, cols, rows
  <2>5. u = Table(t.exists, cols, t.idx, rows, t.trigger)
    BY <2>1, Replacing
  <2>6. u.exists = t.exists /\ u.cols = cols /\ u.idx = t.idx /\ u.rows = rows
    BY <2>5 DEF Table
  <2>. QED
    BY <2>2, <2>3, <2>4, <2>6 DEF Leaves, u
<1>3. CASE x.op = "DROP"
  <2> DEFINE cols == Without(t.cols, {c})
             idx  == Without(t.idx, Over(t.idx, c))
             rows == [r \in DOMAIN t.rows |-> t.rows[r] \ {c}]
  <2>1. u = [t EXCEPT !.cols = cols, !.idx = idx, !.rows = rows]
    BY <1>3, Zenon DEF Executed
  <2>2. ~IndexOp(x) /\ ~Creates(x) /\ ~Removes(x)
    BY <1>3 DEF IndexOp, Creates, Removes
  <2>3. \A k : k # c => (k \in DOMAIN cols <=> k \in DOMAIN t.cols) /\ (k \in DOMAIN t.cols => cols[k] = t.cols[k])
    BY DEF Without
  <2>4. DOMAIN rows = DOMAIN t.rows /\ \A k : k # c => \A r \in DOMAIN t.rows : k \in rows[r] <=> k \in t.rows[r]
    OBVIOUS
  <2>5. \A n \in DOMAIN idx : n \in DOMAIN t.idx /\ idx[n] = t.idx[n]
    BY DEF Without
  <2> HIDE DEF u, cols, idx, rows
  <2>6. u = Table(t.exists, cols, idx, rows, t.trigger)
    BY <2>1, ReplacingThree
  <2>7. u.exists = t.exists /\ u.cols = cols /\ u.idx = idx /\ u.rows = rows
    BY <2>6 DEF Table
  <2>. QED
    BY <2>2, <2>3, <2>4, <2>5, <2>7 DEF Leaves, u
<1>4. CASE x.op = "CREATE INDEX"
  <2> DEFINE new == ReportedIndex(D, f)
             idx == Entered(t.idx, c, new)
  <2>1. u = Table(t.exists, t.cols, idx, t.rows, t.trigger)
    BY <1>4, ExecutedIs
  <2>2. Creates(x) /\ IndexOp(x) /\ ~Removes(x)
    BY <1>4 DEF IndexOp, Creates, Removes
  <2> HIDE DEF u, new
  <2>3. /\ \A n \in DOMAIN idx : n = c \/ (n \in DOMAIN t.idx /\ idx[n] = t.idx[n])
        /\ DOMAIN t.idx \subseteq DOMAIN idx
    BY DEF Entered
  <2> HIDE DEF idx
  <2>4. u.exists = t.exists /\ u.cols = t.cols /\ u.idx = idx /\ u.rows = t.rows
    BY <2>1 DEF Table
  <2>. QED
    BY <2>2, <2>3, <2>4 DEF Leaves, u
<1>5. CASE x.op = "DROP INDEX"
  <2> DEFINE idx == Without(t.idx, {c})
  <2>1. u = Table(t.exists, t.cols, idx, t.rows, t.trigger)
    BY <1>5, ExecutedIs
  <2>2. ~Creates(x) /\ IndexOp(x) /\ Removes(x)
    BY <1>5 DEF IndexOp, Creates, Removes
  <2> HIDE DEF u
  <2>3. DOMAIN idx = DOMAIN t.idx \ {c} /\ \A n \in DOMAIN idx : idx[n] = t.idx[n]
    BY DEF Without
  <2> HIDE DEF idx
  <2>4. u.exists = t.exists /\ u.cols = t.cols /\ u.idx = idx /\ u.rows = t.rows
    BY <2>1 DEF Table
  <2>. QED
    BY <2>2, <2>3, <2>4 DEF Leaves, u
<1>. QED
  BY <1>1, <1>2, <1>3, <1>4, <1>5 DEF Ops, Builds

\* The type that a server stores for a column.
TypeOf(f) == NewColumn(site.server, f).type

\* A field's column is there once it was added or changed, on MySQL with its type.
LEMMA ExecutedField ==
    ASSUME NEW t, TableOK(t), NEW x, FieldOp(x), x.op = "CHANGE" => x.name \in DOMAIN t.cols
    PROVE  /\ x.name \in DOMAIN Executed(t, x).cols
           /\ D = "mysql" => Executed(t, x).cols[x.name].type = TypeOf(x.arg)
<1> DEFINE u == Executed(t, x)
           c == x.name
           f == x.arg
<1>1. CASE x.op = "ADD"
  <2> DEFINE col == NewColumn(site.server, f)
  <2>1. PICK rows : u = Table(t.exists, Entered(t.cols, c, col), t.idx, rows, t.trigger)
    BY <1>1, ExecutedIs
  <2>2. u.cols = Entered(t.cols, c, col)
    <3> HIDE DEF u, col
    <3>. QED
      BY <2>1 DEF Table
  <2>3. TypeOf(f) = col.type
    BY DEF TypeOf
  <2> HIDE DEF u, col
  <2>4. c \in DOMAIN u.cols /\ u.cols[c] = col
    BY <2>2 DEF Entered
  <2>. QED
    BY <2>3, <2>4 DEF u
<1>2. CASE x.op = "CHANGE"
  <2> DEFINE col == ModifiedColumn(site.server, t.cols[c], f)
             cols == [t.cols EXCEPT ![c] = col]
             rows == [r \in DOMAIN t.rows |-> IF IsNotNull(f) THEN t.rows[r] \cup {c} ELSE t.rows[r]]
  <2>1. u = [t EXCEPT !.cols = cols, !.rows = rows]
    BY <1>2 DEF Executed
  <2>2. D = "mysql" => col.type = TypeOf(f)
    <3>1. SUFFICES ASSUME D = "mysql" PROVE col.type = TypeOf(f)
      OBVIOUS
    <3> DEFINE new == NewColumn(site.server, f)
               key == t.cols[c].key
    <3>2. col = [new EXCEPT !.key = key]
      BY <3>1 DEF ModifiedColumn, MySqlModified, D
    <3>3. \E a, b, d, g, h, i : new = [type |-> a, null |-> b, key |-> d, default |-> g, extra |-> h, collation |-> i]
      <4> DEFINE spec == FieldSpec(Dialect(site.server), f)
                 type == Lookup(StoredTypes[site.server], spec.type, spec.type)
                 null == IF spec.notNull \/ (spec.key = "PRI" /\ site.server # "sqlite") THEN "NO" ELSE "YES"
                 collation == IF Dialect(site.server) = "mysql" /\ spec.type \in {"varchar(255)", "char(36)", "longtext"}
                              THEN IF spec.collation # "" THEN spec.collation ELSE DefaultCollation[site.server]
                              ELSE ""
      <4>1. new = [type |-> type, null |-> null, key |-> spec.key, default |-> spec.default,
                   extra |-> spec.extra, collation |-> collation]
        BY ZenonT(60) DEF NewColumn, Stored
      <4> HIDE DEF spec, type, null, collation, new
      <4>. QED
        BY <4>1
    <3> HIDE DEF new, col, key
    <3>4. col.type = new.type
      BY <3>2, <3>3
    <3>. QED
      BY <3>4 DEF TypeOf, new
  <2> HIDE DEF u, col, rows
  <2>3. u = Table(t.exists, cols, t.idx, rows, t.trigger)
    <3> HIDE DEF cols
    <3>. QED
      BY <2>1, Replacing
  <2>4. u.cols = cols
    BY <2>3 DEF Table
  <2>5. c \in DOMAIN u.cols /\ u.cols[c] = col
    BY <1>2, <2>4
  <2>. QED
    BY <2>2, <2>5 DEF u
<1>. QED
  BY <1>1, <1>2 DEF FieldOp

-----------------------------------------------------------------------------
(* Lists in the order of a relation                                        *)

Sorted(s, R) == \A i \in 1 .. Len(s) : \A j \in 1 .. i - 1 : <<s[j], s[i]>> \in R

\* Two sorted lists, each element of the first before each of the second, join sorted.
LEMMA SortedJoin ==
    ASSUME NEW T, NEW R, NEW a \in Seq(T), NEW b \in Seq(T), Sorted(a, R), Sorted(b, R),
           \A x \in ToSet(a), y \in ToSet(b) : <<x, y>> \in R
    PROVE  Sorted(a \o b, R)
<1> DEFINE s == a \o b
           m == Len(a)
           n == Len(b)
<1>1. m \in Nat /\ n \in Nat /\ Len(s) = m + n /\ DOMAIN a = 1 .. m /\ DOMAIN b = 1 .. n
  OBVIOUS
<1>2. \A k \in 1 .. m : s[k] = a[k]
  OBVIOUS
<1>3. \A k \in 1 .. n : s[m + k] = b[k]
  OBVIOUS
<1>4. (\A i \in 1 .. m : \A j \in 1 .. i - 1 : <<a[j], a[i]>> \in R)
      /\ \A i \in 1 .. n : \A j \in 1 .. i - 1 : <<b[j], b[i]>> \in R
  BY DEF Sorted
<1>5. \A i \in 1 .. m : \A j \in 1 .. n : <<a[i], b[j]>> \in R
  BY <1>1 DEF ToSet
<1> HIDE DEF m, n, s
<1>6. SUFFICES ASSUME NEW i \in 1 .. m + n, NEW j \in 1 .. i - 1 PROVE <<s[j], s[i]>> \in R
  BY <1>1 DEF Sorted, s
<1>7. CASE i <= m
  <2>1. i \in 1 .. m /\ j \in 1 .. m
    BY <1>1, <1>7
  <2>. QED
    BY <1>2, <1>4, <2>1
<1>8. CASE i > m
  <2>1. i - m \in 1 .. n /\ i = m + (i - m)
    BY <1>1, <1>8
  <2>2. s[i] = b[i - m]
    BY <1>3, <2>1
  <2>3. CASE j <= m
    <3>1. j \in 1 .. m
      BY <1>1, <2>3
    <3>. QED
      BY <1>2, <1>5, <2>1, <2>2, <3>1
  <2>4. CASE j > m
    <3>1. j - m \in 1 .. n /\ j = m + (j - m) /\ j - m \in 1 .. (i - m) - 1
      BY <1>1, <1>8, <2>4
    <3>2. s[j] = b[j - m]
      BY <1>3, <3>1
    <3>. QED
      BY <1>4, <2>1, <2>2, <3>1, <3>2
  <2>5. j <= m \/ j > m
    BY <1>1
  <2>. QED
    BY <2>3, <2>4, <2>5
<1>9. i <= m \/ i > m
  BY <1>1
<1>. QED
  BY <1>7, <1>8, <1>9

\* FlattenSeq keeps the order of its lists.
LEMMA FlattenSorted ==
    ASSUME NEW T, NEW R, NEW s \in Seq(Seq(T)), \A i \in 1 .. Len(s) : Sorted(s[i], R),
           \A i \in 1 .. Len(s) : \A j \in 1 .. i - 1 : \A x \in ToSet(s[j]), y \in ToSet(s[i]) : <<x, y>> \in R
    PROVE  Sorted(FlattenSeq(s), R)
<1>1. CASE s = <<>>
  BY <1>1, FlattenSeqOfNone DEF Sorted
<1>2. CASE s # <<>>
  <2> DEFINE n == Len(s)
  <2>1. n \in Nat /\ 1 <= n /\ \A i \in 1 .. n : s[i] \in Seq(T)
    BY <1>2
  <2>2. PICK f \in [1 .. n -> Seq(T)] : Flattened(s, n, f) /\ FlattenSeq(s) = f[n]
    BY <1>2, FlattenSeqSteps
  <2>3. \A i \in 1 .. n : f[i] = IF i = 1 THEN s[i] ELSE f[i - 1] \o s[i]
    BY <2>2 DEF Flattened
  <2> HIDE DEF n
  <2> DEFINE Kept(m) == Sorted(f[m], R) /\ \A x \in ToSet(f[m]) : \E i \in 1 .. m : x \in ToSet(s[i])
             B == {m \in 1 .. n : ~Kept(m)}
  <2>4. B = {}
    <3>1. SUFFICES ASSUME B # {} PROVE FALSE
      OBVIOUS
    <3>2. B \subseteq Nat
      BY <2>1
    <3> HIDE DEF B
    <3>3. PICK m \in B : \A d \in B : m <= d
      BY <3>1, <3>2, LeastNumber
    <3>4. m \in 1 .. n /\ ~Kept(m)
      BY DEF B
    <3>5. m # 1
      <4>1. SUFFICES ASSUME m = 1 PROVE FALSE
        OBVIOUS
      <4>2. 1 \in 1 .. 1 /\ 1 \in 1 .. n /\ f[1] = s[1]
        <5>1. 1 \in 1 .. 1 /\ 1 \in 1 .. n
          BY <2>1
        <5>2. f[1] = IF 1 = 1 THEN s[1] ELSE f[1 - 1] \o s[1]
          BY <2>3, <5>1, Zenon
        <5>. QED
          BY <5>1, <5>2
      <4>3. Kept(1)
        <5>1. Sorted(s[1], R)
          BY <4>2 DEF n
        <5>. QED
          BY <4>2, <5>1
      <4>. QED
        BY <3>4, <4>1, <4>3
    <3>6. m - 1 \in 1 .. n /\ m - 1 \notin B
      BY <2>1, <3>2, <3>3, <3>4, <3>5
    <3>7. Kept(m - 1)
      BY <3>6 DEF B
    <3>8. f[m] = f[m - 1] \o s[m] /\ f[m - 1] \in Seq(T) /\ s[m] \in Seq(T)
      BY <2>1, <2>2, <2>3, <3>4, <3>5, <3>6
    <3>9. \A x \in ToSet(f[m - 1]), y \in ToSet(s[m]) : <<x, y>> \in R
      BY <3>4, <3>7 DEF n
    <3>10. Sorted(f[m], R)
      <4>1. Sorted(s[m], R) /\ Sorted(f[m - 1], R)
        BY <3>4, <3>7 DEF n
      <4>. QED
        BY <3>8, <3>9, <4>1, SortedJoin
    <3>11. ToSet(f[m]) = ToSet(f[m - 1]) \cup ToSet(s[m])
      BY <3>8, JoinedElements
    <3>12. m \in 1 .. m /\ \A i \in 1 .. m - 1 : i \in 1 .. m
      BY <3>4
    <3>13. \A x \in ToSet(f[m]) : \E i \in 1 .. m : x \in ToSet(s[i])
      BY <3>7, <3>11, <3>12
    <3>. QED
      BY <3>4, <3>10, <3>13
  <2>5. n \in 1 .. n
    BY <2>1
  <2>6. Sorted(f[n], R)
    BY <2>4, <2>5
  <2>. QED
    BY <2>2, <2>6
<1>. QED
  BY <1>1, <1>2

\* A list that is sorted by Apart is in order.
Aparts(T) == {p \in T \X T : Apart(p[1], p[2])}

\* A list is in order exactly when it is sorted by Apart.
LEMMA SortedInOrder ==
    ASSUME NEW T, NEW s \in Seq(T)
    PROVE  Sorted(s, Aparts(T)) <=> InOrder(s)
<1>1. Len(s) \in Nat /\ \A i \in 1 .. Len(s) : s[i] \in T
  OBVIOUS
<1>2. \A i \in 1 .. Len(s) : \A j \in 1 .. i - 1 : j \in 1 .. Len(s)
  BY <1>1
<1>3. \A x, y \in T : <<x, y>> \in Aparts(T) <=> Apart(x, y)
  BY DEF Aparts
<1>. QED
  BY <1>1, <1>2, <1>3 DEF Sorted, InOrder

-----------------------------------------------------------------------------
(* The index pass fits                                                     *)

\* A set is listed without repetition.
LEMMA SetToSeqInjective ==
    ASSUME NEW S, IsFiniteSet(S)
    PROVE  \A i, j \in 1 .. Len(SetToSeq(S)) : SetToSeq(S)[i] = SetToSeq(S)[j] => i = j
<1> DEFINE n == Cardinality(S)
           f == SetToSeq(S)
<1>1. n \in Nat /\ ExistsBijection(1 .. n, S)
  BY FS_CardinalityType
<1>2. PICK g : g \in Bijection(1 .. n, S)
  BY <1>1 DEF ExistsBijection
<1>3. g \in [1 .. n -> S] /\ IsInjective(g)
  BY <1>2 DEF Bijection, Injection, IsInjective
<1>4. f \in [1 .. n -> S] /\ IsInjective(f)
  BY <1>3 DEF SetToSeq
<1>5. Len(f) = n
  BY <1>1, <1>4, LengthOf
<1> HIDE DEF f, n
<1>6. \A i, j \in 1 .. n : f[i] = f[j] => i = j
  BY <1>4 DEF IsInjective
<1>. QED
  BY <1>5, <1>6 DEF f, n

\* What is freed in the parts is freed in the whole.
LEMMA FreedJoin ==
    ASSUME NEW T, NEW t, NEW a \in Seq(T), NEW b \in Seq(T), Freed(a, t), Freed(b, t)
    PROVE  Freed(a \o b, t)
<1> DEFINE s == a \o b
           m == Len(a)
           n == Len(b)
<1>1. m \in Nat /\ n \in Nat /\ Len(s) = m + n
  OBVIOUS
<1>2. \A k \in 1 .. m : s[k] = a[k]
  OBVIOUS
<1>3. \A k \in 1 .. n : s[m + k] = b[k]
  OBVIOUS
<1>4. /\ \A i \in 1 .. m : Creates(a[i]) /\ a[i].name \in DOMAIN t.idx =>
            \E j \in 1 .. i - 1 : Removes(a[j]) /\ a[j].name = a[i].name
      /\ \A i \in 1 .. n : Creates(b[i]) /\ b[i].name \in DOMAIN t.idx =>
            \E j \in 1 .. i - 1 : Removes(b[j]) /\ b[j].name = b[i].name
  BY DEF Freed
<1> HIDE DEF m, n, s
<1>5. SUFFICES ASSUME NEW i \in 1 .. m + n, Creates(s[i]), s[i].name \in DOMAIN t.idx
               PROVE  \E j \in 1 .. i - 1 : Removes(s[j]) /\ s[j].name = s[i].name
  BY <1>1 DEF Freed, s
<1>6. CASE i <= m
  <2>1. i \in 1 .. m
    BY <1>1, <1>6
  <2>2. PICK j \in 1 .. i - 1 : Removes(a[j]) /\ a[j].name = a[i].name
    BY <1>2, <1>4, <1>5, <2>1
  <2>3. j \in 1 .. m
    BY <1>1, <2>1
  <2>. QED
    BY <1>2, <2>1, <2>2, <2>3
<1>7. CASE i > m
  <2>1. i - m \in 1 .. n /\ i = m + (i - m)
    BY <1>1, <1>7
  <2>2. s[i] = b[i - m]
    BY <1>3, <2>1
  <2>3. PICK j \in 1 .. (i - m) - 1 : Removes(b[j]) /\ b[j].name = b[i - m].name
    BY <1>4, <1>5, <2>1, <2>2
  <2>4. j \in 1 .. n /\ m + j \in 1 .. i - 1
    BY <1>1, <2>1
  <2>5. s[m + j] = b[j]
    BY <1>3, <2>4
  <2>. QED
    BY <2>2, <2>3, <2>4, <2>5
<1>8. i <= m \/ i > m
  BY <1>1
<1>. QED
  BY <1>6, <1>7, <1>8

\* An index that is only created was not there.
LEMMA OnlyCreated ==
    ASSUME NEW n, NEW existing, ForIndex(n, existing) = <<Creation(n)>>
    PROVE  Physical[n] \notin DOMAIN existing
<1> DEFINE create == Creation(n)
           drop == Removal(Physical[n])
           skipped == IsSkipped(site.server, Declarations[n], Fields)
           same == \/ Declarations[n].form = "raw"
                   \/ Comparable(existing[Physical[n]]) = Comparable(Signature(D, Declarations[n], Fields))
<1>1. ForIndex(n, existing) = IF skipped THEN <<>>
                              ELSE IF Physical[n] \notin DOMAIN existing THEN <<create>>
                              ELSE IF same THEN <<>>
                              ELSE <<drop, create>>
  BY Zenon DEF ForIndex, IndexStatements, Replaced, Creation, Removal, D
<1> HIDE DEF create, drop, skipped, same
<1>2. <<>> # <<create>> /\ <<drop, create>> # <<create>>
  OBVIOUS
<1>. QED
  BY <1>1, <1>2 DEF create

\* The parts of the index pass.
LEMMA ForIndexFits ==
    ASSUME NEW n \in DOMAIN Declarations, NEW t, NEW T,
           \A m \in Created : Creation(m) \in T,
           \A p \in DOMAIN t.idx : Removal(p) \in T
    PROVE  LET s == ForIndex(n, t.idx) IN
           s \in Seq(T) /\ Sorted(s, Aparts(T)) /\ Freed(s, t)
           /\ \A x \in ToSet(s) : IndexOp(x) /\ x.name = Physical[n]
<1> DEFINE create == Creation(n)
           drop == Removal(Physical[n])
           s == ForIndex(n, t.idx)
           Good(q) == q \in Seq(T) /\ Sorted(q, Aparts(T)) /\ Freed(q, t)
                      /\ \A x \in ToSet(q) : IndexOp(x) /\ x.name = Physical[n]
<1>1. Creates(create) /\ Removes(drop) /\ create.name = Physical[n] /\ drop.name = Physical[n]
  BY DEF Creation, Removal, Statement, Creates, Removes
<1>2. Apart(drop, create) /\ IndexOp(drop) /\ IndexOp(create)
  BY <1>1 DEF Apart, IndexOp
<1>3. s \in {<<>>, <<create>>, <<drop, create>>}
  BY ForIndexIs
<1>4. s # <<>> => n \in Created /\ create \in T
  BY ForIndexIs
<1>5. s = <<create>> => Physical[n] \notin DOMAIN t.idx
  BY OnlyCreated
<1>6. s # <<>> /\ s # <<create>> => Physical[n] \in DOMAIN t.idx /\ drop \in T
  <2>1. s # <<>> /\ s # <<create>> => Physical[n] \in DOMAIN t.idx
    BY <1>4, ForIndexIs
  <2>. QED
    BY <2>1
<1> HIDE DEF create, drop, s
<1>7. Good(<<>>)
  BY DEF Sorted, Freed, ToSet
<1>8. ASSUME s = <<create>> PROVE Good(s)
  <2> DEFINE q == <<create>>
  <2>0. create \in T
    <3>1. <<create>> # <<>>
      OBVIOUS
    <3>. QED
      BY <1>4, <1>8, <3>1
  <2>1. q \in Seq(T) /\ Len(q) = 1 /\ q[1] = create
    BY <2>0
  <2>2. \A i \in 1 .. 1 : i = 1 /\ \A j \in 1 .. i - 1 : FALSE
    OBVIOUS
  <2>3. ToSet(q) = {create}
    BY <2>1 DEF ToSet
  <2> HIDE DEF q
  <2>4. Sorted(q, Aparts(T))
    BY <2>1, <2>2 DEF Sorted
  <2>5. Freed(q, t)
    BY <1>1, <1>5, <1>8, <2>1, <2>2 DEF Freed
  <2>6. s = q
    BY <1>8 DEF q
  <2>. QED
    BY <1>1, <1>2, <2>1, <2>3, <2>4, <2>5, <2>6
<1>9. ASSUME s # <<>>, s # <<create>> PROVE Good(s)
  <2> DEFINE q == <<drop, create>>
  <2>0. create \in T /\ drop \in T
    BY <1>4, <1>6, <1>9
  <2>1. q \in Seq(T) /\ Len(q) = 2 /\ q[1] = drop /\ q[2] = create
    BY <2>0
  <2>2. \A i \in 1 .. 2 : \A j \in 1 .. i - 1 : i = 2 /\ j = 1
    OBVIOUS
  <2>3. ToSet(q) = {drop, create}
    BY <2>1 DEF ToSet
  <2>4. 1 \in 1 .. 2 - 1 /\ \A i \in 1 .. 2 : i = 1 \/ i = 2
    OBVIOUS
  <2>5. s = q
    BY <1>3, <1>9
  <2> HIDE DEF q
  <2>6. <<drop, create>> \in Aparts(T)
    BY <1>2, <2>0 DEF Aparts
  <2>7. Sorted(q, Aparts(T))
    BY <2>1, <2>2, <2>6 DEF Sorted
  <2>8. Freed(q, t)
    <3>1. SUFFICES ASSUME NEW i \in 1 .. 2, Creates(q[i])
                   PROVE  \E j \in 1 .. i - 1 : Removes(q[j]) /\ q[j].name = q[i].name
      BY <2>1 DEF Freed
    <3>2. i = 2
      BY <1>1, <2>1, <2>4, <3>1, Kinds
    <3>. QED
      BY <1>1, <2>1, <2>4, <3>2
  <2>. QED
    BY <1>1, <1>2, <2>1, <2>3, <2>5, <2>7, <2>8
<1>. QED
  BY <1>7, <1>8, <1>9 DEF s

\* The index pass fits a table that is there.
LEMMA IndexPassFits ==
    ASSUME PlainDefinitions, site \in [server : Servers, allowDrop : BOOLEAN, family : Families],
           schema \in DOMAIN Schemas, NEW t, t.exists, IsFiniteSet(DOMAIN t.idx)
    PROVE  PlanFits(IndexPass(site.server, Fields, Schemas[schema].indexes, TableName, t.idx), t)
<1> DEFINE existing == t.idx
           pass == IndexPass(site.server, Fields, Schemas[schema].indexes, TableName, existing)
           N == DOMAIN Declarations
           names == SetToSeq(N)
           gone == SetToSeq(DOMAIN existing \ Names)
           f == [i \in 1 .. Len(names) |-> ForIndex(names[i], existing)]
           sweep == [i \in 1 .. Len(gone) |-> Removal(gone[i])]
           T == {Creation(n) : n \in Created} \cup {Removal(p) : p \in DOMAIN existing}
           R == Aparts(T)
           Q == {q \in Seq(T) : Freed(q, t)}
<1>1. pass = FlattenSeq(f) \o sweep
  BY Zenon DEF IndexPass, ForIndex, Removal, Declarations, Physical, Names, D
<1>2. /\ Len(names) \in Nat
      /\ \A i \in 1 .. Len(names) : names[i] \in N
      /\ \A i, j \in 1 .. Len(names) : names[i] = names[j] => i = j
  <2>1. IsFiniteSet(N)
    BY SyncAssumption, DeclaredFinite DEF Declarations
  <2>. QED
    BY <2>1, SetToSeqOnto, SetToSeqInjective, Zenon
<1>3. /\ Len(gone) \in Nat
      /\ \A i \in 1 .. Len(gone) : gone[i] \in DOMAIN existing \ Names
      /\ \A i, j \in 1 .. Len(gone) : gone[i] = gone[j] => i = j
  <2>1. IsFiniteSet(DOMAIN existing \ Names)
    BY FS_Subset
  <2>. QED
    BY <2>1, SetToSeqOnto, SetToSeqInjective, Zenon
<1>4. \A m, n \in N : Physical[m] = Physical[n] => m = n
  BY PlainHere
<1>5. \A n \in N : Physical[n] \in Names
  BY DEF Names
<1>6. /\ \A m \in Created : Creation(m) \in T /\ Stands(Creation(m), t)
      /\ \A p \in DOMAIN existing : Removal(p) \in T /\ Stands(Removal(p), t)
  BY DEF Creation, Removal, Statement, Stands, Builds, Removes
<1>7. \A x \in T : Stands(x, t) /\ IndexOp(x)
  <2>1. /\ \A m : Creates(Creation(m))
        /\ \A p : Removes(Removal(p))
    BY DEF Creation, Removal, Statement, Creates, Removes
  <2>2. \A x \in T : IndexOp(x)
    BY <2>1 DEF IndexOp
  <2>. QED
    BY <1>6, <2>2
<1> HIDE DEF names, gone, pass, T, N
<1>8. \A n \in N : LET s == ForIndex(n, existing) IN
                    s \in Seq(T) /\ Sorted(s, R) /\ Freed(s, t)
                    /\ \A x \in ToSet(s) : IndexOp(x) /\ x.name = Physical[n]
  BY <1>6, ForIndexFits DEF N
<1> HIDE DEF existing, R
<1>9. f \in Seq(Seq(T)) /\ f \in Seq(Q) /\ Len(f) = Len(names)
      /\ \A i \in 1 .. Len(names) : f[i] = ForIndex(names[i], existing) /\ f[i] \in Seq(T)
  <2> DEFINE P == Seq(T)
             n == Len(names)
  <2>1. \A i \in 1 .. n : ForIndex(names[i], existing) \in P /\ ForIndex(names[i], existing) \in Q
    BY <1>2, <1>8
  <2>2. n \in Nat
    BY <1>2
  <2> HIDE DEF P, Q, n
  <2>3. f \in [1 .. n -> P] /\ f \in [1 .. n -> Q]
    BY <2>1 DEF n
  <2>4. \A i \in 1 .. n : f[i] = ForIndex(names[i], existing) /\ f[i] \in P
    BY <2>1 DEF n
  <2> HIDE DEF f
  <2>5. f \in Seq(P) /\ f \in Seq(Q) /\ Len(f) = n
    BY <2>2, <2>3, ListType
  <2>. QED
    BY <2>4, <2>5 DEF P, n
<1> HIDE DEF f
<1>10. \A i \in 1 .. Len(names) : \A x \in ToSet(f[i]) : x \in T /\ IndexOp(x) /\ x.name = Physical[names[i]]
  <2>1. \A q \in Seq(T) : ToSet(q) \subseteq T
    BY DEF ToSet
  <2>. QED
    BY <1>2, <1>8, <1>9, <2>1
<1>11. Sorted(FlattenSeq(f), R)
  <2>1. \A i \in 1 .. Len(f) : Sorted(f[i], R)
    BY <1>2, <1>8, <1>9
  <2>2. \A i \in 1 .. Len(f) : \A j \in 1 .. i - 1 : \A x \in ToSet(f[j]), y \in ToSet(f[i]) : <<x, y>> \in R
    <3>1. SUFFICES ASSUME NEW i \in 1 .. Len(names), NEW j \in 1 .. i - 1,
                          NEW x \in ToSet(f[j]), NEW y \in ToSet(f[i])
                   PROVE  <<x, y>> \in R
      BY <1>9
    <3>2. j \in 1 .. Len(names) /\ i # j
      BY <1>2
    <3>3. Physical[names[i]] # Physical[names[j]]
      BY <1>2, <1>4, <3>2
    <3>4. x \in T /\ y \in T /\ Apart(x, y)
      BY <1>10, <3>2, <3>3 DEF Apart
    <3>. QED
      BY <3>4 DEF R, Aparts
  <2>. QED
    BY <1>9, <2>1, <2>2, FlattenSorted
<1>12. Freed(FlattenSeq(f), t)
  <2>1. Q \subseteq Seq(T) /\ <<>> \in Q
    BY DEF Freed
  <2>2. \A a, b \in Q : a \o b \in Q
    <3>1. \A a, b \in Seq(T) : a \o b \in Seq(T)
      OBVIOUS
    <3>. QED
      BY <3>1, FreedJoin
  <2>3. FlattenSeq(f) \in Q
    <3> HIDE DEF Q
    <3>. QED
      BY <1>9, <2>1, <2>2, FlattenSeqIn
  <2>. QED
    BY <2>3
<1>13. FlattenSeq(f) \in Seq(T) /\ \A x \in ToSet(FlattenSeq(f)) : x \in T /\ x.name \in Names
  <2>1. \A x \in ToSet(FlattenSeq(f)) : \E i \in 1 .. Len(f) : x \in ToSet(f[i])
    BY <1>9, FlattenSeqElements
  <2>2. FlattenSeq(f) \in Seq(T)
    BY <1>9, FlattenSeqType
  <2>3. \A i \in 1 .. Len(f) : \A x \in ToSet(f[i]) : x \in T /\ x.name \in Names
    BY <1>2, <1>5, <1>9, <1>10
  <2> HIDE DEF T, Names
  <2>. QED
    BY <2>1, <2>2, <2>3
<1>14. sweep \in Seq(T) /\ Len(sweep) = Len(gone)
       /\ \A i \in 1 .. Len(gone) : /\ sweep[i] = Removal(gone[i]) /\ sweep[i] \in T /\ Removes(sweep[i])
                                    /\ sweep[i].name = gone[i] /\ gone[i] \notin Names
  <2>1. \A i \in 1 .. Len(gone) : /\ Removal(gone[i]) \in T /\ Removes(Removal(gone[i]))
                                  /\ Removal(gone[i]).name = gone[i] /\ gone[i] \notin Names
    BY <1>3, <1>6 DEF Removal, Statement, Removes, existing
  <2>2. sweep \in Seq(T) /\ Len(sweep) = Len(gone) /\ \A i \in 1 .. Len(gone) : sweep[i] = Removal(gone[i])
    BY <1>3, <2>1
  <2>. QED
    BY <2>1, <2>2
<1> HIDE DEF sweep
<1>15. Sorted(sweep, R)
  <2>1. SUFFICES ASSUME NEW i \in 1 .. Len(gone), NEW j \in 1 .. i - 1 PROVE <<sweep[j], sweep[i]>> \in R
    BY <1>14 DEF Sorted
  <2>2. j \in 1 .. Len(gone) /\ i # j
    BY <1>3
  <2>3. Apart(sweep[j], sweep[i])
    BY <1>3, <1>14, <2>2 DEF Apart, IndexOp
  <2>. QED
    BY <1>14, <2>2, <2>3 DEF R, Aparts
<1>16. Freed(sweep, t)
  BY <1>14, Kinds DEF Freed
<1>17. \A y \in ToSet(sweep) : y \in T /\ y.name \notin Names
  <2>1. DOMAIN sweep = 1 .. Len(gone)
    BY <1>3, <1>14
  <2>. QED
    BY <1>14, <2>1 DEF ToSet
<1>18. pass \in Seq(T) /\ Sorted(pass, R) /\ Freed(pass, t)
  <2>1. \A x \in ToSet(FlattenSeq(f)), y \in ToSet(sweep) : <<x, y>> \in R
    <3>1. SUFFICES ASSUME NEW x \in ToSet(FlattenSeq(f)), NEW y \in ToSet(sweep) PROVE <<x, y>> \in R
      OBVIOUS
    <3>2. x \in T /\ y \in T /\ Apart(x, y)
      BY <1>7, <1>13, <1>17 DEF Apart
    <3>. QED
      BY <3>2 DEF R, Aparts
  <2>2. Sorted(pass, R)
    BY <1>1, <1>11, <1>13, <1>14, <1>15, <2>1, SortedJoin
  <2>3. Freed(pass, t)
    BY <1>1, <1>12, <1>13, <1>14, <1>16, FreedJoin
  <2>4. pass \in Seq(T)
    <3> HIDE DEF pass
    <3>. QED
      BY <1>1, <1>13, <1>14
  <2>. QED
    BY <2>2, <2>3, <2>4
<1>19. InOrder(pass)
  BY <1>18, SortedInOrder DEF R
<1>20. \A i \in 1 .. Len(pass) : Stands(pass[i], t)
  BY <1>7, <1>18
<1>. QED
  BY <1>18, <1>19, <1>20 DEF PlanFits, pass, existing

-----------------------------------------------------------------------------
(* The plan of an update fits                                              *)

\* A list without the elements outside a set.
Picked(s, S) == [i \in 1 .. Len(s) |-> IF s[i] \in S THEN <<s[i]>> ELSE <<>>]

\* What is picked from a sorted list is sorted, and is what the list has of the set.
LEMMA PickedIs ==
    ASSUME NEW T, NEW s \in Seq(T), NEW S, NEW R, Sorted(s, R)
    PROVE  /\ FlattenSeq(Picked(s, S)) \in Seq(T)
           /\ Sorted(FlattenSeq(Picked(s, S)), R)
           /\ ToSet(FlattenSeq(Picked(s, S))) = ToSet(s) \cap S
<1> DEFINE f == Picked(s, S)
           n == Len(s)
           P == Seq(T)
<1>1. n \in Nat /\ ToSet(s) = {s[i] : i \in 1 .. n} /\ \A i \in 1 .. n : s[i] \in T /\ <<s[i]>> \in P
  <2>1. DOMAIN s = 1 .. n
    OBVIOUS
  <2>. QED
    BY <2>1 DEF ToSet
<1>2. \A x : ToSet(<<x>>) = {x} /\ Len(<<x>>) = 1
  BY DEF ToSet
<1>3. ToSet(<<>>) = {} /\ Len(<<>>) = 0 /\ <<>> \in P
  BY DEF ToSet
<1>4. \A i \in 1 .. n : f[i] = IF s[i] \in S THEN <<s[i]>> ELSE <<>>
  BY DEF Picked
<1>5. f \in Seq(P) /\ Len(f) = n
  <2>1. f \in [1 .. n -> P]
    <3> HIDE DEF P
    <3>. QED
      BY <1>1, <1>3 DEF Picked
  <2> HIDE DEF f, n, P
  <2>. QED
    BY <1>1, <2>1, ListType
<1> HIDE DEF f, n
<1>6. \A i \in 1 .. n : ToSet(f[i]) = {s[i]} \cap S 
  BY <1>2, <1>3, <1>4
<1>7. FlattenSeq(f) \in Seq(T)
  BY <1>5, FlattenSeqType DEF P
<1>8. Sorted(FlattenSeq(f), R)
  <2>1. \A i \in 1 .. n : Sorted(f[i], R)
    <3>1. SUFFICES ASSUME NEW i \in 1 .. n PROVE \A k \in 1 .. Len(f[i]) : \A j \in 1 .. k - 1 : FALSE
      BY DEF Sorted
    <3>2. Len(f[i]) = 0 \/ Len(f[i]) = 1
      BY <1>2, <1>3, <1>4
    <3>3. \A m \in {0, 1} : \A k \in 1 .. m : \A j \in 1 .. k - 1 : FALSE
      OBVIOUS
    <3>. QED
      BY <3>2, <3>3, Zenon
  <2>2. \A i \in 1 .. n : \A j \in 1 .. i - 1 : <<s[j], s[i]>> \in R
    BY DEF Sorted, n
  <2>3. \A i \in 1 .. n : \A j \in 1 .. i - 1 : j \in 1 .. n
    BY <1>1
  <2>4. \A i \in 1 .. n : \A j \in 1 .. i - 1 : \A x \in ToSet(f[j]), y \in ToSet(f[i]) : <<x, y>> \in R
    BY <1>6, <2>2, <2>3
  <2>. QED
    BY <1>5, <2>1, <2>4, FlattenSorted DEF P
<1>9. ToSet(FlattenSeq(f)) = ToSet(s) \cap S
  <2>1. /\ \A i \in 1 .. n : ToSet(f[i]) \subseteq ToSet(FlattenSeq(f))
        /\ \A x \in ToSet(FlattenSeq(f)) : \E i \in 1 .. n : x \in ToSet(f[i])
    BY <1>5, FlattenSeqElements DEF P
  <2>2. ToSet(s) \cap S \subseteq ToSet(FlattenSeq(f))
    BY <1>1, <1>6, <2>1
  <2>3. ToSet(FlattenSeq(f)) \subseteq ToSet(s) \cap S
    BY <1>1, <1>6, <2>1
  <2>. QED
    BY <2>2, <2>3
<1>. QED
  BY <1>7, <1>8, <1>9 DEF f

\* What the hypothesis on the definitions says of the one at hand.
SoundEntry(n, e) ==
    /\ e.col \in FieldNames(Fields)
    /\ D = "mysql" => \/ Declarations[n].fulltext \/ HasLength(e)
                      \/ FieldNamed(Fields, e.col).type # "longtext"

\* What SoundDefinitions says of the definition that is being synced.
LEMMA SoundHere ==
    ASSUME SoundDefinitions, site \in [server : Servers, allowDrop : BOOLEAN, family : Families],
           schema \in DOMAIN Schemas
    PROVE  /\ \A i, j \in 1 .. Len(Fields) : Fields[i].field = Fields[j].field => i = j
           /\ \A i \in 1 .. Len(Fields) : Fields[i].default # "" => FieldSpec("sqlite", Fields[i]).default # ""
           /\ schema \in site.family => \A i \in 1 .. Len(Fields) : Fields[i].key = "PRI" =>
                 \A n \in site.family : Fields[i].field \in FieldNames(AllFields[D][n])
           /\ \A n \in Created : Declarations[n].form # "cols" =>
                 \A k \in 1 .. Len(Declarations[n].cols) : SoundEntry(n, Declarations[n].cols[k])
<1>1. site.server \in Servers /\ site.family \in Families
  OBVIOUS
<1> DEFINE Conclusion(family, name, server) ==
        LET d        == Dialect(server)
            fields   == AllFields[d][name]
            declared == Declared(d, fields, Schemas[name].indexes, TableName)
        IN  /\ \A i, j \in 1..Len(fields) : fields[i].field = fields[j].field => i = j
            /\ \A i \in 1..Len(fields) :
                  /\ fields[i].default # "" => FieldSpec("sqlite", fields[i]).default # ""
                  /\ fields[i].key = "PRI" /\ name \in family =>
                        \A other \in family : fields[i].field \in FieldNames(AllFields[d][other])
            /\ \A n \in DOMAIN declared : declared[n].form # "cols" /\ ~IsSkipped(server, declared[n], fields) =>
                  \A k \in 1..Len(declared[n].cols) :
                     LET e == declared[n].cols[k] IN
                     /\ e.col \in FieldNames(fields)
                     /\ d = "mysql" => \/ declared[n].fulltext \/ HasLength(e)
                                       \/ FieldNamed(fields, e.col).type # "longtext"
            /\ \A i \in 1..Len(fields) :
                  /\ fields[i].key # "UNI"
                  /\ IsNotNull(fields[i]) /\ fields[i].default = "" => fields[i].type \notin {"date", "datetime"}
                  /\ fields[i].key = "PRI" /\ name \in family =>
                        \A other \in family : FieldNamed(AllFields[d][other], fields[i].field).type = fields[i].type
<1>2. \A family \in Families, name \in DOMAIN Schemas, server \in Servers : Conclusion(family, name, server)
  BY Zenon DEF SoundDefinitions
<1>3. Conclusion(site.family, schema, site.server)
  <2> HIDE DEF Conclusion
  <2>. QED
    BY <1>1, <1>2
<1>4. /\ \A i, j \in 1..Len(Fields) : Fields[i].field = Fields[j].field => i = j
      /\ \A i \in 1..Len(Fields) :
            /\ Fields[i].default # "" => FieldSpec("sqlite", Fields[i]).default # ""
            /\ Fields[i].key = "PRI" /\ schema \in site.family =>
                  \A other \in site.family : Fields[i].field \in FieldNames(AllFields[D][other])
      /\ \A n \in DOMAIN Declarations :
            Declarations[n].form # "cols" /\ ~IsSkipped(site.server, Declarations[n], Fields) =>
               \A k \in 1..Len(Declarations[n].cols) : SoundEntry(n, Declarations[n].cols[k])
  BY <1>3, Zenon DEF Fields, D, Declarations, SoundEntry
<1>. QED
  BY <1>4 DEF Created

\* A column that needs no change is no text unless it is declared as one.
LEMMA Unchanging ==
    ASSUME NEW f, NEW t, f.field \in DOMAIN t.cols, ~NeedsChange(Explained(D, t.cols[f.field]), f)
    PROVE  Conforms(f, t)
<1> DEFINE c == t.cols[f.field]
<1>1. SUFFICES ASSUME D = "mysql", c.type = "longtext" PROVE f.type = "longtext"
  BY DEF Conforms
<1>2. Explained(D, c) = c
  BY <1>1, Zenon DEF Explained, MySqlReports
<1>3. ~Differs("type", c, f)
  BY <1>2, Zenon DEF NeedsChange, ComparedKeys
<1>4. OrEmpty(c["type"]) = "longtext"
  BY <1>1, Zenon DEF OrEmpty
<1>5. ~DeferredCollation("type", c, f)
  BY Zenon DEF DeferredCollation
<1>6. \A y : <<"longtext", y>> \notin SameTypes
  BY Zenon DEF SameTypes
<1>7. ~Tolerated("type", c, f)
  BY <1>4, <1>6, Zenon DEF Tolerated
<1>8. OrEmpty(f["type"]) = "longtext"
  BY <1>3, <1>4, <1>5, <1>7, Zenon DEF Differs
<1>9. f["type"] = "longtext"
  BY <1>8, Zenon DEF OrEmpty
<1>. QED
  BY <1>9, Zenon

\* The statement that brings a field up adds it or changes it, and stands.
LEMMA AlterFits ==
    ASSUME NEW f, NEW t, t.exists
    PROVE  LET x == Alter(D, t.cols, f) IN
           /\ x.name = f.field /\ x.arg = f /\ FieldOp(x) /\ ColumnOp(x) /\ Stands(x, t)
           /\ x.op \in {"ADD", "CHANGE"}
<1> DEFINE x == Alter(D, t.cols, f)
<1>1. CASE f.field \notin DOMAIN t.cols
  <2>1. x = [op |-> "ADD", name |-> f.field, arg |-> f, check |-> FALSE]
    BY <1>1, Zenon DEF Alter, Statement
  <2> HIDE DEF x
  <2>. QED
    BY <1>1, <2>1 DEF FieldOp, ColumnOp, Stands, Builds, Removes, x
<1>2. CASE f.field \in DOMAIN t.cols
  <2> DEFINE c == t.cols[f.field].null = "YES" /\ IsNotNull(f)
  <2>1. x = [op |-> "CHANGE", name |-> f.field, arg |-> f, check |-> c]
    BY <1>2, Zenon DEF Alter, Statement
  <2>2. c => IsNotNull(f)
    OBVIOUS
  <2> HIDE DEF x, c
  <2>3. x.op = "CHANGE" /\ x.name = f.field /\ x.arg = f /\ x.check = c
    BY <2>1
  <2>. QED
    BY <1>2, <2>2, <2>3 DEF FieldOp, ColumnOp, Stands, Builds, Removes, x
<1>. QED
  BY <1>1, <1>2

\* The fields of a definition are a list.
LEMMA FieldsAre ==
    ASSUME site \in [server : Servers, allowDrop : BOOLEAN, family : Families], schema \in DOMAIN Schemas
    PROVE  Fields \in Seq(ToSet(Fields)) /\ Len(Fields) \in Nat /\ ToSet(Fields) = {Fields[i] : i \in 1 .. Len(Fields)}
<1>1. PICK S : Fields \in Seq(S)
  BY FieldsLength
<1>2. DOMAIN Fields = 1 .. Len(Fields) /\ Len(Fields) \in Nat
  BY <1>1
<1>3. Fields \in Seq({Fields[i] : i \in 1 .. Len(Fields)})
  BY <1>1
<1>. QED
  BY <1>2, <1>3 DEF ToSet

\* The ALTERs fit the table, and come for every column that does not conform.
LEMMA AltersFit ==
    ASSUME SoundDefinitions, site \in [server : Servers, allowDrop : BOOLEAN, family : Families],
           schema \in DOMAIN Schemas, NEW t, t.exists, IsFiniteSet(DOMAIN t.cols)
    PROVE  LET s == Alters(D, t.cols, Fields, site.allowDrop) IN
           /\ s \in Seq(ToSet(s)) /\ InOrder(s)
           /\ \A x \in ToSet(s) : ColumnOp(x) /\ Stands(x, t) /\ ForField(x)
           /\ \A i \in 1 .. Len(Fields) : Conforms(Fields[i], t) \/ Awaited(Fields[i], s)
<1> DEFINE cols == t.cols
           P(f) == \/ f.field \notin DOMAIN cols
                   \/ NeedsChange(Explained(D, cols[f.field]), f)
           U == {f \in ToSet(Fields) : P(f)}
           touched == Where(Fields, LAMBDA f : \/ f.field \notin DOMAIN cols
                                               \/ NeedsChange(Explained(D, cols[f.field]), f))
           drop == ToDrop(cols, Fields)
           q == SetToSeq(drop)
           s == [i \in 1 .. Len(touched) |-> Alter(D, cols, touched[i])]
           r == [i \in 1 .. Cardinality(drop) |-> Statement("DROP", q[i], "")]
           rest == IF site.allowDrop THEN r ELSE <<>>
           F == {p \in ToSet(Fields) \X ToSet(Fields) : p[1].field # p[2].field}
<1>1. Fields \in Seq(ToSet(Fields)) /\ Len(Fields) \in Nat /\ ToSet(Fields) = {Fields[i] : i \in 1 .. Len(Fields)}
  BY FieldsAre
<1>2. touched = FlattenSeq(Picked(Fields, U))
  <2>1. \A i \in 1 .. Len(Fields) : Fields[i] \in U <=> P(Fields[i])
    <3> HIDE DEF P
    <3>. QED
      BY <1>1
  <2>2. Picked(Fields, U) = [i \in 1 .. Len(Fields) |-> IF P(Fields[i]) THEN <<Fields[i]>> ELSE <<>>]
    <3> HIDE DEF P, U
    <3>. QED
      BY <2>1 DEF Picked
  <2>3. touched = FlattenSeq([i \in 1 .. Len(Fields) |-> IF P(Fields[i]) THEN <<Fields[i]>> ELSE <<>>])
    BY Zenon DEF Where
  <2> HIDE DEF touched, P, U
  <2>. QED
    BY <2>2, <2>3
<1>3. Sorted(Fields, F)
  <2>1. \A i, j \in 1 .. Len(Fields) : Fields[i].field = Fields[j].field => i = j
    BY SoundHere
  <2>2. \A i \in 1 .. Len(Fields) : \A j \in 1 .. i - 1 : j \in 1 .. Len(Fields) /\ i # j
    BY <1>1
  <2>. QED
    BY <1>1, <2>1, <2>2 DEF Sorted
<1> HIDE DEF touched, F, P
<1>4. touched \in Seq(ToSet(Fields)) /\ Sorted(touched, F) /\ ToSet(touched) = U
  <2>1. ToSet(Fields) \cap U = U
    OBVIOUS
  <2> HIDE DEF U
  <2>. QED
    BY <1>1, <1>2, <1>3, <2>1, PickedIs
<1>5. Len(touched) \in Nat /\ ToSet(touched) = {touched[i] : i \in 1 .. Len(touched)}
  <2>1. DOMAIN touched = 1 .. Len(touched)
    BY <1>4
  <2>. QED
    BY <1>4, <2>1 DEF ToSet
<1> DEFINE N == {Alter(D, cols, f) : f \in U}
           M == {Statement("DROP", c, "") : c \in drop}
           T == N \cup M
<1>6. s \in Seq(N) /\ Len(s) = Len(touched) /\ \A i \in 1 .. Len(touched) : s[i] = Alter(D, cols, touched[i])
  <2> DEFINE n == Len(touched)
  <2>1. \A i \in 1 .. n : Alter(D, cols, touched[i]) \in N
    BY <1>4, <1>5
  <2> HIDE DEF N, U
  <2>2. s \in [1 .. n -> N] /\ \A i \in 1 .. n : s[i] = Alter(D, cols, touched[i])
    BY <2>1
  <2> HIDE DEF s, n
  <2>. QED
    BY <1>5, <2>2, ListType DEF n
<1>7. /\ Cardinality(drop) \in Nat
      /\ q \in [1 .. Cardinality(drop) -> drop]
      /\ \A i, j \in 1 .. Cardinality(drop) : q[i] = q[j] => i = j
  <2>1. IsFiniteSet(drop)
    BY FS_Subset DEF ToDrop
  <2> HIDE DEF drop
  <2>. QED
    BY <2>1, SetToSeqType, SetToSeqOnto, SetToSeqInjective
<1> HIDE DEF q, s
<1>8. r \in Seq(M) /\ Len(r) = Cardinality(drop) /\ \A i \in 1 .. Cardinality(drop) : r[i] = Statement("DROP", q[i], "")
  <2> DEFINE n == Cardinality(drop)
  <2>1. \A i \in 1 .. n : Statement("DROP", q[i], "") \in M
    <3>1. \A i \in 1 .. n : q[i] \in drop
      <4> HIDE DEF n, drop
      <4>. QED
        BY <1>7 DEF n
    <3>. QED
      BY <3>1
  <2> HIDE DEF M, drop, n
  <2>2. r \in [1 .. n -> M] /\ \A i \in 1 .. n : r[i] = Statement("DROP", q[i], "")
    BY <2>1 DEF n
  <2> HIDE DEF r
  <2>. QED
    BY <1>7, <2>2, ListType DEF n
<1> HIDE DEF r
<1>9. \A f \in U : LET x == Alter(D, cols, f) IN
         /\ x \in T /\ x.name = f.field /\ x.arg = f /\ FieldOp(x) /\ ColumnOp(x) /\ Stands(x, t) /\ ForField(x)
         /\ x.op \in {"ADD", "CHANGE"} /\ x.name \in FieldNames(Fields)
  <2>1. SUFFICES ASSUME NEW f \in U
                 PROVE LET x == Alter(D, cols, f) IN
                       /\ x \in T /\ x.name = f.field /\ x.arg = f /\ FieldOp(x) /\ ColumnOp(x) /\ Stands(x, t)
                       /\ ForField(x) /\ x.op \in {"ADD", "CHANGE"} /\ x.name \in FieldNames(Fields)
    BY Zenon
  <2> DEFINE x == Alter(D, cols, f)
  <2>2. x \in T
    BY <2>1
  <2>3. PICK i \in 1 .. Len(Fields) : f = Fields[i]
    BY <1>1, <2>1
  <2>4. x.name = f.field /\ x.arg = f /\ FieldOp(x) /\ ColumnOp(x) /\ Stands(x, t) /\ x.op \in {"ADD", "CHANGE"}
    BY AlterFits
  <2> HIDE DEF x
  <2>5. ForField(x) /\ x.name \in FieldNames(Fields)
    BY <2>3, <2>4 DEF ForField, FieldNames
  <2>. QED
    BY <2>2, <2>4, <2>5 DEF x
<1>10. \A c \in drop : LET x == Statement("DROP", c, "") IN
         /\ x \in T /\ x.name = c /\ ColumnOp(x) /\ Stands(x, t) /\ (site.allowDrop => ForField(x))
         /\ x.name \notin FieldNames(Fields)
  BY DEF Statement, ColumnOp, Stands, Builds, Removes, ForField, FieldOp, ToDrop
<1>11. \A x \in T : ColumnOp(x) /\ Stands(x, t) /\ (site.allowDrop \/ x \in N => ForField(x))
  <2>1. ASSUME NEW x \in N PROVE ColumnOp(x) /\ Stands(x, t) /\ ForField(x)
    <3>1. PICK f \in U : x = Alter(D, cols, f)
      BY <2>1
    <3>. QED
      BY <1>9, <3>1, Zenon
  <2>2. ASSUME NEW x \in M PROVE ColumnOp(x) /\ Stands(x, t) /\ (site.allowDrop \/ x \in N => ForField(x))
    <3>1. PICK c \in drop : x = Statement("DROP", c, "")
      BY <2>2
    <3>2. ColumnOp(x) /\ Stands(x, t) /\ (site.allowDrop => ForField(x))
      BY <1>10, <3>1, Zenon
    <3>. QED
      BY <2>1, <3>2
  <2>. QED
    BY <2>1, <2>2
<1>12. (\A x \in N : x \in T /\ x.name \in FieldNames(Fields)) /\ (\A x \in M : x \in T /\ x.name \notin FieldNames(Fields))
  <2>1. ASSUME NEW x \in N PROVE x \in T /\ x.name \in FieldNames(Fields)
    <3>1. PICK f \in U : x = Alter(D, cols, f)
      BY <2>1
    <3>. QED
      BY <1>9, <3>1, Zenon
  <2>2. ASSUME NEW x \in M PROVE x \in T /\ x.name \notin FieldNames(Fields)
    <3>1. PICK c \in drop : x = Statement("DROP", c, "")
      BY <2>2
    <3>. QED
      BY <1>10, <3>1, Zenon
  <2>. QED
    BY <2>1, <2>2
<1>13. Sorted(s, Aparts(T))
  <2>1. SUFFICES ASSUME NEW i \in 1 .. Len(touched), NEW j \in 1 .. i - 1 PROVE <<s[j], s[i]>> \in Aparts(T)
    BY <1>6 DEF Sorted
  <2>2. j \in 1 .. Len(touched)
    BY <1>5
  <2>3. touched[j].field # touched[i].field
    BY <1>4 DEF Sorted, F
  <2>4. touched[i] \in U /\ touched[j] \in U
    BY <1>4, <1>5, <2>2
  <2> HIDE DEF T, U, cols
  <2>5. /\ s[i] \in T /\ s[j] \in T /\ ColumnOp(s[i]) /\ ColumnOp(s[j])
        /\ s[i].name = touched[i].field /\ s[j].name = touched[j].field
    BY <1>6, <1>9, <2>2, <2>4
  <2>6. Apart(s[j], s[i])
    BY <2>3, <2>5 DEF Apart
  <2>. QED
    BY <2>5, <2>6 DEF Aparts
<1>14. rest \in Seq(M) /\ Sorted(rest, Aparts(T)) /\ (site.allowDrop \/ rest = <<>>)
  <2>1. Sorted(r, Aparts(T))
    <3>1. SUFFICES ASSUME NEW i \in 1 .. Cardinality(drop), NEW j \in 1 .. i - 1 PROVE <<r[j], r[i]>> \in Aparts(T)
      BY <1>8 DEF Sorted
    <3>2. j \in 1 .. Cardinality(drop) /\ i # j
      <4> HIDE DEF drop
      <4>. QED
        BY <1>7
    <3> HIDE DEF drop
    <3>3. q[i] \in drop /\ q[j] \in drop /\ q[i] # q[j]
      BY <1>7, <3>2
    <3> HIDE DEF T
    <3>4. r[i] \in T /\ r[j] \in T /\ ColumnOp(r[i]) /\ ColumnOp(r[j]) /\ r[i].name = q[i] /\ r[j].name = q[j]
      BY <1>8, <1>10, <3>2, <3>3
    <3>5. Apart(r[j], r[i])
      BY <3>3, <3>4 DEF Apart
    <3>. QED
      BY <3>4, <3>5 DEF Aparts
  <2>2. <<>> \in Seq(M) /\ Sorted(<<>>, Aparts(T))
    BY DEF Sorted
  <2> HIDE DEF M, T
  <2>. QED
    BY <1>8, <2>1, <2>2
<1> HIDE DEF N, M, T, rest
<1>15. Alters(D, t.cols, Fields, site.allowDrop) = s \o rest
  BY Zenon DEF Alters, s, rest, r, touched, q
<1>16. s \in Seq(T) /\ rest \in Seq(T)
  <2>1. N \subseteq T /\ M \subseteq T
    BY DEF T
  <2>. QED
    BY <1>6, <1>14, <2>1, SeqMonotonic
<1>17. s \o rest \in Seq(T) /\ Sorted(s \o rest, Aparts(T)) /\ ToSet(s \o rest) = ToSet(s) \cup ToSet(rest)
  <2>1. ToSet(s) \subseteq N /\ ToSet(rest) \subseteq M
    BY <1>6, <1>14 DEF ToSet
  <2>2. \A x \in ToSet(s), y \in ToSet(rest) : <<x, y>> \in Aparts(T)
    <3>1. SUFFICES ASSUME NEW x \in ToSet(s), NEW y \in ToSet(rest) PROVE <<x, y>> \in Aparts(T)
      OBVIOUS
    <3>2. x \in T /\ y \in T /\ x.name # y.name
      BY <1>12, <2>1
    <3>3. Apart(x, y)
      BY <1>11, <3>2 DEF Apart
    <3>. QED
      BY <3>2, <3>3 DEF Aparts
  <2>3. s \o rest \in Seq(T)
    BY <1>16
  <2>. QED
    BY <1>13, <1>14, <1>16, <2>2, <2>3, SortedJoin, JoinedElements
<1>18. InOrder(s \o rest) /\ \A x \in ToSet(s \o rest) : ColumnOp(x) /\ Stands(x, t) /\ ForField(x)
  <2>1. ToSet(s \o rest) \subseteq T
    BY <1>17 DEF ToSet
  <2>2. ToSet(s) \subseteq N /\ (site.allowDrop \/ ToSet(rest) = {})
    BY <1>6, <1>14 DEF ToSet
  <2>3. \A x \in ToSet(s \o rest) : site.allowDrop \/ x \in N
    BY <1>17, <2>2
  <2>. QED
    BY <1>11, <1>17, <2>1, <2>3, SortedInOrder
<1>19. ASSUME NEW i \in 1 .. Len(Fields) PROVE Conforms(Fields[i], t) \/ Awaited(Fields[i], s \o rest)
  <2>1. CASE P(Fields[i])
    <3>1. Fields[i] \in U
      BY <1>1, <2>1
    <3>2. PICK k \in 1 .. Len(touched) : touched[k] = Fields[i]
      BY <1>4, <1>5, <3>1
    <3>3. s[k] \in ToSet(s)
      <4>1. DOMAIN s = 1 .. Len(touched)
        BY <1>6
      <4>. QED
        BY <4>1 DEF ToSet
    <3>4. s[k] = Alter(D, cols, Fields[i])
      BY <1>6, <3>2
    <3> HIDE DEF U, cols
    <3>5. FieldOp(s[k]) /\ s[k].arg = Fields[i]
      BY <1>9, <3>1, <3>4
    <3>. QED
      BY <1>17, <3>3, <3>5 DEF Awaited
  <2>2. CASE ~P(Fields[i])
    <3>1. Fields[i].field \in DOMAIN t.cols /\ ~NeedsChange(Explained(D, t.cols[Fields[i].field]), Fields[i])
      BY <2>2 DEF P
    <3>. QED
      BY <3>1, Unchanging
  <2>. QED
    BY <2>1, <2>2
<1>20. s \o rest \in Seq(ToSet(s \o rest))
  <2> DEFINE z == s \o rest
  <2>1. z \in Seq(T)
    BY <1>17
  <2> HIDE DEF z
  <2>2. z \in Seq(ToSet(z))
    BY <2>1 DEF ToSet
  <2>. QED
    BY <2>2 DEF z
<1>. QED
  BY <1>15, <1>18, <1>19, <1>20

\* The ALTERs fit behind the removals of the errno-1170 guard, which come for every
\* index that bars one.
LEMMA GuardedFits ==
    ASSUME NEW t, t.exists, IsFiniteSet(DOMAIN t.idx),
           NEW s, s \in Seq(ToSet(s)), InOrder(s),
           \A x \in ToSet(s) : ColumnOp(x) /\ Stands(x, t) /\ ForField(x)
    PROVE  LET p == GuardedPlan(s, t.idx) IN
           /\ PlanFits(p, t) /\ ToSet(s) \subseteq ToSet(p)
           /\ \A x \in ToSet(p) : ForField(x) /\ ~Creates(x)
           /\ D = "mysql" => Barred(p, t.idx)
<1> DEFINE texts == TextChanged(D, s)
           G == Guarded(t.idx, texts)
           q == SetToSeq(G)
           n == Len(q)
           r == [i \in 1 .. n |-> Removal(q[i])]
           p == r \o s
           M == {Removal(c) : c \in G}
           S == ToSet(s)
           T == S \cup M
<1>1. GuardedPlan(s, t.idx) = p
  BY Zenon DEF GuardedPlan, Removal
<1>2. G \subseteq DOMAIN t.idx /\ IsFiniteSet(G)
  <2>1. G \subseteq DOMAIN t.idx
    BY DEF Guarded
  <2>. QED
    BY <2>1, FS_Subset
<1> HIDE DEF G
<1>3. /\ n \in Nat
      /\ \A i \in 1 .. n : q[i] \in G
      /\ \A c \in G : \E i \in 1 .. n : q[i] = c
      /\ \A i, j \in 1 .. n : q[i] = q[j] => i = j
  BY <1>2, SetToSeqOnto, SetToSeqInjective
<1> HIDE DEF q, n
<1>4. \A c \in G : LET x == Removal(c) IN
         /\ x \in M /\ x.name = c /\ Removes(x) /\ IndexOp(x) /\ Stands(x, t) /\ ForField(x)
  <2>1. SUFFICES ASSUME NEW c \in G
                 PROVE LET x == Removal(c) IN
                       /\ x \in M /\ x.name = c /\ Removes(x) /\ IndexOp(x) /\ Stands(x, t) /\ ForField(x)
    BY Zenon
  <2> DEFINE x == Removal(c)
  <2>2. x \in M
    OBVIOUS
  <2>3. x.op = "DROP INDEX" /\ x.name = c /\ ~x.check
    BY DEF Removal, Statement
  <2>4. c \in DOMAIN t.idx
    BY <1>2, <2>1
  <2> HIDE DEF x, M
  <2>. QED
    BY <2>2, <2>3, <2>4 DEF IndexOp, Removes, Stands, Builds, ForField, FieldOp, x
<1>5. r \in Seq(M) /\ Len(r) = n /\ \A i \in 1 .. n : r[i] = Removal(q[i])
  <2>1. \A i \in 1 .. n : Removal(q[i]) \in M
    BY <1>3, <1>4
  <2> HIDE DEF M
  <2>2. r \in [1 .. n -> M] /\ \A i \in 1 .. n : r[i] = Removal(q[i])
    BY <2>1
  <2> HIDE DEF r
  <2>. QED
    BY <1>3, <2>2, ListType
<1> HIDE DEF r
<1>6. \A x \in M : Removes(x) /\ IndexOp(x) /\ Stands(x, t) /\ ForField(x)
  <2>1. SUFFICES ASSUME NEW x \in M PROVE Removes(x) /\ IndexOp(x) /\ Stands(x, t) /\ ForField(x)
    OBVIOUS
  <2>2. PICK c \in G : x = Removal(c)
    BY <2>1
  <2>. QED
    BY <1>4, <2>2, Zenon
<1> HIDE DEF M
<1>7. \A i \in 1 .. n : r[i] \in M /\ r[i].name = q[i]
  BY <1>3, <1>4, <1>5
<1>8. r \in Seq(T) /\ s \in Seq(T)
  <2>1. M \subseteq T /\ S \subseteq T
    OBVIOUS
  <2> HIDE DEF S, T
  <2>2. s \in Seq(S)
    BY DEF S
  <2>. QED
    BY <1>5, <2>1, <2>2, SeqMonotonic
<1>9. \A x \in S : ~Creates(x) /\ ~Removes(x) /\ ColumnOp(x) /\ Stands(x, t) /\ ForField(x)
  BY Kinds DEF IndexOp
<1>10. \A x \in T : ~Creates(x) /\ Stands(x, t) /\ ForField(x) /\ x \in T
  BY <1>6, <1>9, Kinds
<1>11. Sorted(r, Aparts(T))
  <2>1. SUFFICES ASSUME NEW i \in 1 .. n, NEW j \in 1 .. i - 1 PROVE <<r[j], r[i]>> \in Aparts(T)
    BY <1>5 DEF Sorted
  <2>2. j \in 1 .. n /\ i # j
    BY <1>3
  <2>3. r[i].name # r[j].name /\ r[i] \in M /\ r[j] \in M
    BY <1>3, <1>7, <2>2
  <2>4. Apart(r[j], r[i])
    BY <1>6, <2>3 DEF Apart
  <2>. QED
    BY <2>3, <2>4 DEF Aparts
<1>12. Sorted(s, Aparts(T))
  BY <1>8, SortedInOrder
<1> HIDE DEF S
<1>13. ToSet(p) = ToSet(r) \cup ToSet(s) /\ p \in Seq(T)
  <2> HIDE DEF T
  <2>. QED
    BY <1>8, JoinedElements
<1>14. ToSet(r) \subseteq M /\ ToSet(p) \subseteq T
  <2>1. ToSet(r) \subseteq M
    <3>1. DOMAIN r = 1 .. n
      BY <1>3, <1>5
    <3>. QED
      BY <1>7, <3>1 DEF ToSet
  <2>. QED
    BY <1>13, <2>1 DEF S
<1>15. Sorted(p, Aparts(T))
  <2>1. \A x \in ToSet(r), y \in ToSet(s) : <<x, y>> \in Aparts(T)
    <3>1. SUFFICES ASSUME NEW x \in ToSet(r), NEW y \in ToSet(s) PROVE <<x, y>> \in Aparts(T)
      OBVIOUS
    <3>2. x \in M /\ y \in S /\ x \in T /\ y \in T
      BY <1>14 DEF S
    <3>3. Apart(x, y)
      BY <1>6, <1>9, <3>2 DEF Apart
    <3>. QED
      BY <3>2, <3>3 DEF Aparts
  <2> HIDE DEF T
  <2>. QED
    BY <1>8, <1>11, <1>12, <2>1, SortedJoin
<1> HIDE DEF p, T
<1>16. PlanFits(p, t)
  <2>1. InOrder(p)
    BY <1>13, <1>15, SortedInOrder
  <2>2. \A i \in 1 .. Len(p) : p[i] \in T
    BY <1>13
  <2>3. Freed(p, t) /\ \A i \in 1 .. Len(p) : Stands(p[i], t)
    BY <1>10, <2>2 DEF Freed
  <2>. QED
    BY <2>1, <2>3 DEF PlanFits
<1>17. ASSUME D = "mysql" PROVE Barred(p, t.idx)
  <2>1. SUFFICES ASSUME NEW y \in ToSet(p), y.op = "CHANGE", y.arg.type = "longtext",
                        NEW c \in Guarded(t.idx, {y.name})
                 PROVE  \E x \in ToSet(p) : Removes(x) /\ x.name = c
    BY DEF Barred
  <2>2. y \in ToSet(s)
    <3>1. ~Removes(y)
      BY <2>1, Kinds DEF Removes
    <3>. QED
      BY <1>6, <1>13, <1>14, <3>1
  <2>3. PICK k \in 1 .. Len(s) : s[k] = y
    <3>1. DOMAIN s = 1 .. Len(s)
      OBVIOUS
    <3>. QED
      BY <2>2, <3>1 DEF ToSet
  <2>4. FieldSpec(D, y.arg).type = "longtext"
    BY <1>17, <2>1, Zenon DEF FieldSpec, MySqlFieldSpec
  <2>5. y.name \in texts
    <3>1. k \in {j \in 1 .. Len(s) : s[j].op = "CHANGE" /\ FieldSpec(D, s[j].arg).type \in {"longtext", "TEXT"}}
      BY <2>1, <2>3, <2>4, Zenon
    <3>. QED
      BY <2>3, <3>1 DEF TextChanged
  <2>6. c \in G
    <3> HIDE DEF texts
    <3>. QED
      BY <2>1, <2>5 DEF Guarded, G
  <2>7. PICK i \in 1 .. n : q[i] = c
    BY <1>3, <2>6
  <2>8. r[i] \in ToSet(r) /\ Removes(r[i]) /\ r[i].name = c
    <3>1. DOMAIN r = 1 .. n
      BY <1>3, <1>5
    <3>. QED
      BY <1>6, <1>7, <2>7, <3>1 DEF ToSet
  <2>. QED
    BY <1>13, <2>8
<1>18. \A x \in ToSet(p) : ForField(x) /\ ~Creates(x)
  BY <1>10, <1>14
<1>. QED
  BY <1>1, <1>13, <1>16, <1>17, <1>18

\* Statements that differ in the count they ask for alone.
SameStatement(x, y) == x.op = y.op /\ x.name = y.name /\ x.arg = y.arg

\* A plan whose first statement has been counted is the plan it was.
LEMMA CountedFits ==
    ASSUME NEW s, ListOK(s, Fields), s # <<>>
    PROVE  LET q == [s EXCEPT ![1].check = FALSE] IN
           /\ \A x \in ToSet(q) : \E y \in ToSet(s) : SameStatement(x, y)
           /\ \A y \in ToSet(s) : \E x \in ToSet(q) : SameStatement(x, y)
           /\ \A t : PlanFits(s, t) => PlanFits(q, t)
<1> DEFINE h == [s[1] EXCEPT !.check = FALSE]
           q == [s EXCEPT ![1].check = FALSE]
           S == ToSet(s)
           n == Len(s)
<1>1. s \in Seq(S) /\ (\A x \in S : StatementOK(x, Fields))
  BY DEF ListOK
<1>2. s[1] \in S /\ n \in Nat /\ 1 \in 1 .. n /\ DOMAIN s = 1 .. n
  <2> HIDE DEF S
  <2>. QED
    BY <1>1
<1>3. h = [op |-> s[1].op, name |-> s[1].name, arg |-> s[1].arg, check |-> FALSE]
  <2>1. s[1] = [op |-> s[1].op, name |-> s[1].name, arg |-> s[1].arg, check |-> s[1].check]
    BY <1>1, <1>2 DEF StatementOK
  <2> DEFINE no == FALSE
  <2> HIDE DEF no
  <2>2. [s[1] EXCEPT !.check = no] = [op |-> s[1].op, name |-> s[1].name, arg |-> s[1].arg, check |-> no]
    BY <2>1, Unchecked
  <2>. QED
    BY <2>2, Zenon DEF no
<1>4. SameStatement(h, s[1]) /\ ~h.check
  <2> HIDE DEF h
  <2>. QED
    BY <1>3 DEF SameStatement
<1>5. q = [s EXCEPT ![1] = h]
  OBVIOUS
<1> HIDE DEF h, q, S, n
<1>6. Len(q) = n /\ q[1] = h /\ DOMAIN q = 1 .. n /\ \A i \in 1 .. n : i # 1 => q[i] = s[i]
  BY <1>1, <1>2, <1>5 DEF n
<1>7. \A i \in 1 .. n : SameStatement(q[i], s[i]) /\ (q[i].check => s[i].check)
  <2>1. \A x : SameStatement(x, x)
    BY DEF SameStatement
  <2>. QED
    BY <1>4, <1>6, <2>1
<1>8. /\ \A x \in ToSet(q) : \E y \in ToSet(s) : SameStatement(x, y)
      /\ \A y \in ToSet(s) : \E x \in ToSet(q) : SameStatement(x, y)
  BY <1>2, <1>6, <1>7 DEF ToSet
<1>9. ASSUME NEW t, PlanFits(s, t) PROVE PlanFits(q, t)
  <2>1. /\ \A i \in 1 .. n : \A j \in 1 .. i - 1 : Apart(s[j], s[i])
        /\ \A i \in 1 .. n : Stands(s[i], t)
        /\ \A i \in 1 .. n : Creates(s[i]) /\ s[i].name \in DOMAIN t.idx =>
              \E j \in 1 .. i - 1 : Removes(s[j]) /\ s[j].name = s[i].name
    BY <1>9 DEF PlanFits, InOrder, Freed, n
  <2>2. \A i \in 1 .. n : \A j \in 1 .. i - 1 : j \in 1 .. n
    BY <1>2
  <2>3. \A x, y, u, v : Apart(u, v) /\ SameStatement(x, u) /\ SameStatement(y, v) => Apart(x, y)
    <3>1. \A x, u : SameStatement(x, u) => /\ x.name = u.name
                                           /\ ColumnOp(x) <=> ColumnOp(u)
                                           /\ Creates(x) <=> Creates(u)
                                           /\ Removes(x) <=> Removes(u)
                                           /\ IndexOp(x) <=> IndexOp(u)
      BY DEF SameStatement, ColumnOp, IndexOp, Creates, Removes
    <3>. QED
      BY <3>1 DEF Apart
  <2>4. \A x, u : Stands(u, t) /\ SameStatement(x, u) /\ (x.check => u.check) => Stands(x, t)
    BY DEF Stands, SameStatement, Builds, Removes
  <2>5. InOrder(q)
    BY <1>6, <1>7, <2>1, <2>2, <2>3 DEF InOrder
  <2>6. \A i \in 1 .. Len(q) : Stands(q[i], t)
    BY <1>6, <1>7, <2>1, <2>4
  <2>7. Freed(q, t)
    <3>1. SUFFICES ASSUME NEW i \in 1 .. n, Creates(q[i]), q[i].name \in DOMAIN t.idx
                   PROVE  \E j \in 1 .. i - 1 : Removes(q[j]) /\ q[j].name = q[i].name
      BY <1>6 DEF Freed
    <3>2. Creates(s[i]) /\ s[i].name = q[i].name
      BY <1>7, <3>1 DEF SameStatement, Creates
    <3>3. PICK j \in 1 .. i - 1 : Removes(s[j]) /\ s[j].name = s[i].name
      BY <2>1, <3>1, <3>2
    <3>4. Removes(q[j]) /\ q[j].name = s[j].name
      BY <1>7, <2>2, <3>3 DEF SameStatement, Removes
    <3>. QED
      BY <3>2, <3>3, <3>4
  <2>. QED
    BY <2>5, <2>6, <2>7 DEF PlanFits
<1>. QED
  BY <1>8, <1>9 DEF q

-----------------------------------------------------------------------------
(* The steps of a sync                                                     *)

\* What an executed, a refused and a failing statement leave.
Issuing == {"columns", "indexes", "reissue"}
Refused(x, t) == \/ ~Fits(t, x) \/ ~Suits(t, x) \/ MayRefuse(t, x)
                 \/ x.op = "CHANGE" /\ IsNotNull(x.arg) /\ \E r \in DOMAIN t.rows : x.name \notin t.rows[r]
\* A statement runs, is refused for what it meets, or fails and is noted as faulty.
LEMMA ExecuteOutcomes ==
    ASSUME Inv, NotesInv, Execute
    PROVE  /\ pc \in Issuing /\ plan # <<>> /\ plan' = Tail(plan)
           /\ UNCHANGED <<pc, site, schema, changed, temp, saved, open>>
           /\ StatementOK(Head(plan), Fields) /\ TableOK(table)
           /\ \/ /\ Fits(table, Head(plan)) /\ Suits(table, Head(plan))
                 /\ table' = Executed(table, Head(plan)) /\ errors' = errors /\ sync'.faulty = sync.faulty
              \/ /\ table' = table /\ Refused(Head(plan), table) /\ sync'.faulty = sync.faulty
                 /\ errors' = IF pc = "reissue" THEN errors ELSE TRUE
              \/ /\ table' = table /\ sync'.faulty /\ (errors => errors')
<1> DEFINE noted == [sync EXCEPT !.issued = TRUE]
           lost == [noted EXCEPT !.faulty = TRUE]
           stmt == Head(plan)
<1>1. noted.faulty = sync.faulty /\ lost.faulty
  BY DEF NotesInv, NoteOK
<1>2. /\ pc \in Issuing /\ plan # <<>> /\ plan' = Tail(plan)
      /\ UNCHANGED <<pc, site, schema, changed, temp, saved, open>>
  BY DEF Execute, Issuing
<1>3. StatementOK(stmt, Fields) /\ TableOK(table)
  BY <1>2, HeadAndTail DEF Inv, PlanInv, TablesInv
<1> HIDE DEF noted, lost, stmt
<1>4. \/ /\ Fits(table, stmt) /\ Suits(table, stmt)
         /\ table' = Executed(table, stmt) /\ errors' = errors /\ sync' = noted
      \/ /\ table' = table /\ Refused(stmt, table) /\ sync' = noted
         /\ errors' = IF pc = "reissue" THEN errors ELSE TRUE
      \/ /\ table' = table /\ sync' = lost /\ (errors => errors')
  BY Zenon DEF Execute, Refused, noted, lost, stmt
<1>. QED
  BY <1>1, <1>2, <1>3, <1>4 DEF stmt

\* A table in which nothing but rows and the trigger is new.
Grown(t, u) == /\ u.exists = t.exists /\ u.cols = t.cols /\ u.idx = t.idx
               /\ \A r \in DOMAIN t.rows : r \in DOMAIN u.rows /\ u.rows[r] = t.rows[r]

\* An insert adds a row and disturbs nothing else.
LEMMA InsertGrows ==
    ASSUME Inv, NEW r \in Row, NEW full \in BOOLEAN, Insert(r, full)
    PROVE  /\ Grown(table, table') /\ (saved' = saved \/ saved' = table')
           /\ UNCHANGED <<site, temp, open, pc, schema, plan, changed, errors, sync>>
<1>1. PICK v : table' = [table EXCEPT !.rows = Entered(@, r, v)]
  BY DEF Insert
<1> DEFINE w == Entered(table.rows, r, v)
<1>2. table' = [table EXCEPT !.rows = w]
  BY <1>1
<1>3. r \notin DOMAIN table.rows /\ TableOK(table)
  BY DEF Insert, Inv, TablesInv
<1>4. \A k \in DOMAIN table.rows : k \in DOMAIN w /\ w[k] = table.rows[k]
  BY <1>3 DEF Entered
<1> HIDE DEF w
<1>5. table' = Table(table.exists, table.cols, table.idx, w, table.trigger)
  BY <1>2, <1>3, Replacing
<1>6. Grown(table, table')
  BY <1>4, <1>5 DEF Grown, Table
<1>7. UNCHANGED <<site, temp, open, pc, schema, plan, changed, errors, sync>>
  BY DEF Insert
<1>8. saved' = saved \/ saved' = table'
  BY DEF Insert
<1>. QED
  BY <1>6, <1>7, <1>8

\* Attaching a trigger disturbs nothing that a definition declares.
LEMMA TriggerGrows ==
    ASSUME Inv, AttachTrigger
    PROVE  Grown(table, table')
<1>1. TableOK(table)
  BY DEF Inv, TablesInv
<1>2. table' = table \/ \E g : table' = [table EXCEPT !.trigger = g]
  BY DEF AttachTrigger
<1>3. CASE table' = table
  BY <1>3 DEF Grown
<1>4. CASE \E g : table' = [table EXCEPT !.trigger = g]
  <2>1. PICK g : table' = [table EXCEPT !.trigger = g]
    BY <1>4
  <2>2. table' = Table(table.exists, table.cols, table.idx, table.rows, g)
    BY <1>1, <2>1, Replacing
  <2>. QED
    BY <2>2 DEF Grown, Table
<1>. QED
  BY <1>2, <1>3, <1>4

\* The copy of a rebuild has the columns of its table.
LEMMA CopyColumns ==
    ASSUME Inv
    PROVE  CopyOf(table).cols = temp.cols /\ CopyOf(table).exists = temp.exists
<1>1. PICK w : CopyOf(table) = [temp EXCEPT !.rows = w]
  BY DEF CopyOf
<1>2. CopyOf(table) = Table(temp.exists, temp.cols, temp.idx, w, temp.trigger)
  BY <1>1, Replacing DEF Inv, TablesInv
<1>. QED
  BY <1>2 DEF Table

-----------------------------------------------------------------------------
(* The primary keys                                                        *)

\* Each version of a family declares the primary keys of all of them.
LEMMA KeysDeclared ==
    ASSUME SoundDefinitions, site \in [server : Servers, allowDrop : BOOLEAN, family : Families],
           schema \in site.family
    PROVE  /\ Keys \subseteq FieldNames(Fields) /\ schema \in DOMAIN Schemas
           /\ \A i \in 1 .. Len(Fields) : Fields[i].key = "PRI" => Fields[i].field \in Keys
<1>1. site.server \in Servers /\ site.family \in Families /\ site.family \subseteq DOMAIN Schemas
  BY SyncAssumption
<1>2. ASSUME NEW n \in site.family, NEW i \in 1 .. Len(AllFields[D][n]), AllFields[D][n][i].key = "PRI"
      PROVE  AllFields[D][n][i].field \in FieldNames(Fields)
  <2> DEFINE fields == AllFields[D][n]
             keyed == \A k \in 1 .. Len(fields) : fields[k].key = "PRI" /\ n \in site.family =>
                          \A other \in site.family : fields[k].field \in FieldNames(AllFields[D][other])
  <2>1. n \in DOMAIN Schemas
    BY <1>1, <1>2
  <2>2. keyed
    BY <1>1, <2>1, ZenonT(60) DEF SoundDefinitions, D
  <2>. QED
    BY <1>2, <2>2, Zenon DEF Fields
<1>3. Keys \subseteq FieldNames(Fields)
  BY <1>2 DEF Keys
<1>4. ASSUME NEW i \in 1 .. Len(Fields), Fields[i].key = "PRI" PROVE Fields[i].field \in Keys
  <2>1. Fields[i].field \in FieldNames(AllFields[D][schema])
    BY DEF FieldNames, Fields
  <2>2. Fields[i] = AllFields[D][schema][i] /\ i \in 1 .. Len(AllFields[D][schema])
    BY DEF Fields
  <2>. QED
    BY <1>4, <2>1, <2>2, Zenon DEF Keys
<1>. QED
  BY <1>1, <1>3, <1>4

\* The keys are those of the site, which no step changes.
LEMMA KeysKept ==
    ASSUME site' = site
    PROVE  Keys' = Keys
  BY DEF Keys, D

\* A table that loses none of its keys keeps them all.
LEMMA HasKeysThere ==
    ASSUME NEW t, NEW u, HasKeys(t), u.exists => t.exists, Keys \cap DOMAIN t.cols \subseteq DOMAIN u.cols
    PROVE  HasKeys(u)
  BY DEF HasKeys

\* Before the first sync there is no table that could lack a key.
LEMMA KeysInit == Init => KeysInv
<1>1. ~NoTable.exists
  BY DEF NoTable
<1>. QED
  BY <1>1 DEF Init, KeysInv, HasKeys

\* No step loses a primary key.
LEMMA KeysStep ==
    ASSUME SoundDefinitions, Inv, NotesInv, KeysInv, [Next]_vars
    PROVE  KeysInv'
<1>1. site' = site /\ Keys' = Keys
  <2>1. site' = site
    BY DEF Next, Step, StartSync, Crash, Insert, Inspect, Preflight, Execute, Begin, RebuildStep, Undo,
           ReadIndexes, Verify, VerifyAgain, AttachTrigger, vars, world
  <2>. QED
    BY <2>1, KeysKept
<1>2. site \in [server : Servers, allowDrop : BOOLEAN, family : Families]
  BY DEF Inv, PlanInv
<1>3. HasKeys(table) /\ HasKeys(temp) /\ HasKeys(saved) /\ (pc # "idle" => schema \in site.family)
  BY DEF KeysInv
<1>4. ~NoTable.exists
  BY DEF NoTable
<1>5. HasKeys(NoTable)
  BY <1>4 DEF HasKeys
<1>6. ASSUME pc # "idle" PROVE Keys \subseteq FieldNames(Fields)
  BY <1>2, <1>3, <1>6, KeysDeclared
<1>7. SUFFICES /\ HasKeys(table') /\ HasKeys(temp') /\ HasKeys(saved')
               /\ pc' # "idle" => schema' \in site.family
  BY <1>1 DEF KeysInv, HasKeys
<1>8. CASE UNCHANGED vars
  BY <1>3, <1>8 DEF vars
<1>9. CASE \E n \in DOMAIN Schemas : StartSync(n)
  BY <1>3, <1>9 DEF StartSync
<1>10. CASE Inspect \/ Preflight \/ ReadIndexes \/ Verify \/ VerifyAgain
  BY <1>3, <1>10 DEF Inspect, Preflight, ReadIndexes, Verify, VerifyAgain
<1>11. CASE Execute
  <2>1. /\ pc # "idle" /\ UNCHANGED <<pc, schema, temp, saved>>
        /\ StatementOK(Head(plan), Fields) /\ TableOK(table)
        /\ table' = table \/ table' = Executed(table, Head(plan))
        /\ table' = table \/ Fits(table, Head(plan))
    BY <1>11, ExecuteOutcomes DEF Issuing
  <2>2. HasKeys(table')
    <3>1. CASE table' = table
      BY <1>3, <3>1
    <3>2. CASE table' = Executed(table, Head(plan)) /\ Head(plan).op = "CREATE TABLE"
      BY <1>6, <2>1, <3>2, ExecutedColumns DEF HasKeys
    <3>3. CASE table' = Executed(table, Head(plan)) /\ table' # table /\ Head(plan).op # "CREATE TABLE"
      <4>1. Leaves(Head(plan), table, Executed(table, Head(plan)))
        <5>1. Head(plan).op = "CHANGE" => Head(plan).name \in DOMAIN table.cols
          BY <2>1, <3>3 DEF Fits
        <5>. QED
          BY <2>1, <3>3, <5>1, ExecutedLeaves DEF StatementOK, Builds
      <4>2. table'.exists = table.exists
        BY <3>3, <4>1 DEF Leaves
      <4>3. FieldNames(Fields) \cap DOMAIN table.cols \subseteq DOMAIN table'.cols
        BY <2>1, <3>3, ExecutedColumns
      <4>. QED
        BY <1>3, <1>6, <2>1, <4>2, <4>3, HasKeysThere
    <3>. QED
      BY <2>1, <3>1, <3>2, <3>3
  <2>. QED
    BY <1>3, <2>1, <2>2
<1>12. CASE Begin
  BY <1>3, <1>12 DEF Begin, Ended
<1>13. CASE Undo \/ Crash
  <2>1. table' \in {table, saved} /\ temp' = NoTable /\ saved' = NoTable /\ schema' = schema /\ pc # "idle"
    BY <1>13 DEF Undo, Crash, Durable
  <2>. QED
    BY <1>3, <1>5, <2>1
<1>14. CASE RebuildStep
  <2>1. /\ pc # "idle" /\ schema' = schema
        /\ table' \in {table, NoTable, temp}
        /\ temp' \in {temp, NoTable, Built(Fields), CopyOf(table)}
        /\ saved' \in {saved, NoTable}
    BY <1>14 DEF RebuildStep
  <2>2. HasKeys(Built(Fields))
    <3>1. DOMAIN Built(Fields).cols = FieldNames(Fields)
      BY DEF Built
    <3> DEFINE b == Built(Fields)
    <3> HIDE DEF b
    <3>2. DOMAIN b.cols = FieldNames(Fields)
      BY <3>1 DEF b
    <3>3. HasKeys(b)
      BY <1>6, <2>1, <3>2 DEF HasKeys
    <3>. QED
      BY <3>3 DEF b
  <2>3. HasKeys(CopyOf(table))
    BY <1>3, CopyColumns DEF HasKeys
  <2>. QED
    BY <1>3, <1>5, <2>1, <2>2, <2>3
<1>15. CASE AttachTrigger
  <2>1. Grown(table, table') /\ UNCHANGED <<temp, saved, schema>> /\ pc # "idle"
    BY <1>15, TriggerGrows DEF AttachTrigger
  <2>. QED
    BY <1>3, <2>1 DEF HasKeys, Grown
<1>16. CASE \E r \in Row, full \in BOOLEAN : Insert(r, full)
  <2>1. Grown(table, table') /\ UNCHANGED <<temp, schema, pc>> /\ (saved' = saved \/ saved' = table')
    BY <1>16, InsertGrows
  <2>. QED
    BY <1>3, <2>1 DEF HasKeys, Grown
<1>. QED
  BY <1>8, <1>9, <1>10, <1>11, <1>12, <1>13, <1>14, <1>15, <1>16 DEF Next, Step

-----------------------------------------------------------------------------
(* What a step makes of the plan                                           *)

\* What is picked from a list is what the list has of the set.
LEMMA PickedPart ==
    ASSUME NEW s, s \in Seq(ToSet(s)), NEW S
    PROVE  ToSet(FlattenSeq(Picked(s, S))) = ToSet(s) \cap S
<1> DEFINE R == ToSet(s) \X ToSet(s)
<1>1. Sorted(s, R)
  <2>1. Len(s) \in Nat /\ \A i \in 1 .. Len(s) : s[i] \in ToSet(s)
    OBVIOUS
  <2>2. \A i \in 1 .. Len(s) : \A j \in 1 .. i - 1 : j \in 1 .. Len(s)
    BY <2>1
  <2>. QED
    BY <2>1, <2>2 DEF Sorted
<1> HIDE DEF R
<1>. QED
  BY <1>1, PickedIs

\* The additions that are run again on SQLite are among the changes that were planned.
LEMMA AddsPart ==
    ASSUME NEW s, s \in Seq(ToSet(s))
    PROVE  /\ ToSet(Adds(s)) \subseteq ToSet(s)
           /\ ToSet(Where(s, LAMBDA c : c.op = "ADD")) \subseteq ToSet(s)
<1> DEFINE S == {x \in ToSet(s) : x.op \in {"ADD", "CHANGE"}}
           A == {x \in ToSet(s) : x.op = "ADD"}
<1>1. \A i \in 1 .. Len(s) : s[i] \in ToSet(s)
  OBVIOUS
<1>2. Picked(s, S) = [i \in 1 .. Len(s) |-> IF s[i].op \in {"ADD", "CHANGE"} THEN <<s[i]>> ELSE <<>>]
  BY <1>1 DEF Picked
<1>3. Picked(s, A) = [i \in 1 .. Len(s) |-> IF s[i].op = "ADD" THEN <<s[i]>> ELSE <<>>]
  BY <1>1 DEF Picked
<1>4. Adds(s) = FlattenSeq(Picked(s, S))
  BY <1>2, Zenon DEF Adds, Where
<1>5. Where(s, LAMBDA c : c.op = "ADD") = FlattenSeq(Picked(s, A))
  BY <1>3, Zenon DEF Where
<1>6. ToSet(FlattenSeq(Picked(s, S))) = ToSet(s) \cap S /\ ToSet(FlattenSeq(Picked(s, A))) = ToSet(s) \cap A
  <2> HIDE DEF S, A
  <2>. QED
    BY PickedPart
<1>. QED
  BY <1>4, <1>5, <1>6

\* A column that is issued again is not there.
LEMMA MissingAreMissing ==
    ASSUME NEW cols, NEW s, s \in Seq(ToSet(s))
    PROVE  \A x \in ToSet(MissingColumns(cols, s)) : x \in ToSet(s) /\ x.name \notin DOMAIN cols
<1> DEFINE S == {x \in ToSet(s) : x.name \notin DOMAIN cols}
<1>1. \A i \in 1 .. Len(s) : s[i] \in ToSet(s)
  OBVIOUS
<1>2. Picked(s, S) = [i \in 1 .. Len(s) |-> IF s[i].name \notin DOMAIN cols THEN <<s[i]>> ELSE <<>>]
  BY <1>1 DEF Picked
<1>3. MissingColumns(cols, s) = FlattenSeq(Picked(s, S))
  BY <1>2, Zenon DEF MissingColumns, Where
<1>4. ToSet(FlattenSeq(Picked(s, S))) = ToSet(s) \cap S
  <2> HIDE DEF S
  <2>. QED
    BY PickedPart
<1>. QED
  BY <1>3, <1>4

\* A plan that a sync can follow to its end.
Sufficient(s, t) == /\ PlanFits(s, t)
                    /\ D = "mysql" => Barred(s, t.idx)
                    /\ \A i \in 1 .. Len(Fields) : Conforms(Fields[i], t) \/ Awaited(Fields[i], s)
Tame(s) == \A x \in ToSet(s) : ForField(x) /\ ~Creates(x)

\* A rebuild that a new required column forbids is wanted for a column that differs.
LEMMA BarredWhen ==
    ASSUME site \in [server : Servers, allowDrop : BOOLEAN, family : Families], schema \in DOMAIN Schemas,
           D = "sqlite", NEW t, ToChange(D, t.cols, Fields) # <<>>, RequiredMissing(t.cols, Fields) # {}
    PROVE  \E i \in 1 .. Len(Fields) : Fields[i].field \in DOMAIN t.cols /\ RebuildIsBarred(t, Fields[i])
<1> DEFINE P(f) == f.field \in DOMAIN t.cols /\ NeedsChange(Explained(D, t.cols[f.field]), f)
           U == {f \in ToSet(Fields) : P(f)}
           change == ToChange(D, t.cols, Fields)
<1>1. Fields \in Seq(ToSet(Fields)) /\ Len(Fields) \in Nat /\ ToSet(Fields) = {Fields[i] : i \in 1 .. Len(Fields)}
  BY FieldsAre
<1>2. change = FlattenSeq(Picked(Fields, U))
  <2>1. \A i \in 1 .. Len(Fields) : Fields[i] \in U <=> P(Fields[i])
    <3> HIDE DEF P
    <3>. QED
      BY <1>1
  <2>2. Picked(Fields, U) = [i \in 1 .. Len(Fields) |-> IF P(Fields[i]) THEN <<Fields[i]>> ELSE <<>>]
    <3> HIDE DEF P, U
    <3>. QED
      BY <2>1 DEF Picked
  <2>3. change = FlattenSeq([i \in 1 .. Len(Fields) |-> IF P(Fields[i]) THEN <<Fields[i]>> ELSE <<>>])
    BY Zenon DEF ToChange, Where
  <2> HIDE DEF change, P, U
  <2>. QED
    BY <2>2, <2>3
<1> DEFINE R == ToSet(Fields) \X ToSet(Fields)
<1>3. Sorted(Fields, R)
  <2>1. \A i \in 1 .. Len(Fields) : \A j \in 1 .. i - 1 : j \in 1 .. Len(Fields)
    BY <1>1
  <2>. QED
    BY <1>1, <2>1 DEF Sorted
<1> HIDE DEF R, U, P
<1>4. change \in Seq(ToSet(Fields)) /\ ToSet(change) = ToSet(Fields) \cap U
  <2> HIDE DEF change
  <2>. QED
    BY <1>1, <1>2, <1>3, PickedIs
<1>5. PICK f \in U : f \in ToSet(Fields)
  <2>1. ToSet(change) = {Head(change)} \cup ToSet(Tail(change))
    BY <1>4, HeadOfPlan
  <2>. QED
    BY <1>4, <2>1
<1>6. PICK i \in 1 .. Len(Fields) : f = Fields[i]
  BY <1>1, <1>5
<1>7. P(Fields[i])
  BY <1>5, <1>6 DEF U
<1>8. PICK g \in RequiredMissing(t.cols, Fields) : TRUE
  OBVIOUS
<1>9. PICK k \in 1 .. Len(Fields) : Required(Fields[k])
  <2>1. g \in {Fields[k] : k \in 1 .. Len(Fields)} /\ IsNotNull(g) /\ g.default = "" /\ g.key # "PRI"
    BY <1>8, Zenon DEF RequiredMissing
  <2>. QED
    BY <2>1 DEF Required
<1>. QED
  BY <1>7, <1>9 DEF P, RebuildIsBarred

\* A comparison plans what suffices, or rebuilds on SQLite, or reports what SQLite cannot add.
LEMMA CompareOutcomes ==
    ASSUME SoundDefinitions, Inv, pc # "idle", table.exists, Compare
    PROVE  /\ \A x \in ToSet(changed') : ForField(x)
           /\ Tame(plan')
           /\ \/ /\ D = "sqlite" /\ plan' = <<>> /\ sync' = sync
                 /\ \/ /\ pc' = "columns" /\ errors'
                       /\ \E i \in 1 .. Len(Fields) : Fields[i].field \in DOMAIN table.cols /\ RebuildIsBarred(table, Fields[i])
                    \/ pc' = "begin" /\ errors' = errors /\ RequiredMissing(table.cols, Fields) = {}
              \/ /\ pc' = "columns" /\ errors' = errors
                 /\ (sync' = sync /\ Sufficient(plan', table)) \/ sync' = Faulty
<1> DEFINE alters == Alters(D, table.cols, Fields, site.allowDrop)
<1>1. site \in [server : Servers, allowDrop : BOOLEAN, family : Families] /\ schema \in DOMAIN Schemas
      /\ IsFiniteSet(DOMAIN table.cols) /\ IsFiniteSet(DOMAIN table.idx)
  BY DEF Inv, PlanInv, TablesInv, TableOK
<1>2. /\ alters \in Seq(ToSet(alters)) /\ InOrder(alters)
      /\ \A x \in ToSet(alters) : ColumnOp(x) /\ Stands(x, table) /\ ForField(x)
      /\ \A i \in 1 .. Len(Fields) : Conforms(Fields[i], table) \/ Awaited(Fields[i], alters)
  BY <1>1, AltersFit
<1>3. ~Features[D].alterColumn => D = "sqlite"
  <2>1. D \in {"mysql", "postgres", "sqlite"}
    BY <1>1 DEF D, Dialect, Servers
  <2>2. Features["mysql"].alterColumn /\ Features["postgres"].alterColumn
    BY DEF Features, MySqlFeatures, PostgresFeatures, NoFeatures
  <2>. QED
    BY <2>1, <2>2
<1> DEFINE adds == Where(alters, LAMBDA c : c.op = "ADD")
           missing == RequiredMissing(table.cols, Fields)
           rebuild == ~Features[D].alterColumn /\ ToChange(D, table.cols, Fields) # <<>>
<1>4. \/ /\ rebuild /\ changed' = adds /\ plan' = <<>> /\ sync' = sync
         /\ \/ pc' = "columns" /\ errors' = TRUE /\ missing # {}
            \/ pc' = "begin" /\ errors' = errors /\ missing = {}
      \/ /\ changed' = Adds(alters) /\ pc' = "columns" /\ errors' = errors
         /\ (plan' = GuardedPlan(alters, table.idx) /\ sync' = sync) \/ (plan' = alters /\ sync' = Faulty)
  BY Zenon DEF Compare
<1>5. rebuild => D = "sqlite"
  BY <1>3
<1> DEFINE barred == \E i \in 1 .. Len(Fields) : Fields[i].field \in DOMAIN table.cols /\ RebuildIsBarred(table, Fields[i])
<1>14. rebuild /\ missing # {} => barred
  BY <1>1, <1>5, BarredWhen
<1> HIDE DEF adds, missing, rebuild, alters, barred
<1>6. ToSet(adds) \subseteq ToSet(alters) /\ ToSet(Adds(alters)) \subseteq ToSet(alters)
  BY <1>2, AddsPart DEF adds
<1>7. \A x \in ToSet(changed') : ForField(x)
  BY <1>2, <1>4, <1>6
<1>8. \A x \in ToSet(alters) : ~Creates(x)
  BY <1>2, Kinds DEF IndexOp
<1>9. /\ PlanFits(GuardedPlan(alters, table.idx), table) /\ ToSet(alters) \subseteq ToSet(GuardedPlan(alters, table.idx))
      /\ \A x \in ToSet(GuardedPlan(alters, table.idx)) : ForField(x) /\ ~Creates(x)
      /\ D = "mysql" => Barred(GuardedPlan(alters, table.idx), table.idx)
  BY <1>1, <1>2, GuardedFits
<1>10. \A i \in 1 .. Len(Fields) : Conforms(Fields[i], table) \/ Awaited(Fields[i], GuardedPlan(alters, table.idx))
  BY <1>2, <1>9 DEF Awaited
<1>11. ToSet(<<>>) = {}
  BY DEF ToSet
<1>12. Tame(plan')
  BY <1>2, <1>4, <1>8, <1>9, <1>11 DEF Tame
<1>13. Sufficient(GuardedPlan(alters, table.idx), table)
  BY <1>9, <1>10 DEF Sufficient
<1>. QED
  BY <1>4, <1>5, <1>7, <1>12, <1>13, <1>14 DEF missing, barred

\* The creation of the table is all there is to do when it is not there.
LEMMA CreationSuffices ==
    ASSUME NEW t, ~t.exists
    PROVE  LET s == <<Statement("CREATE TABLE", TableName, Fields)>> IN Sufficient(s, t) /\ Tame(s)
<1> DEFINE x == Statement("CREATE TABLE", TableName, Fields)
           s == <<x>>
<1>1. Builds(x) /\ ~Creates(x) /\ ~Removes(x) /\ ~FieldOp(x) /\ ~x.check /\ x.op = "CREATE TABLE"
  BY DEF Statement, Builds, Creates, Removes, FieldOp
<1> HIDE DEF x
<1>2. Len(s) = 1 /\ s[1] = x /\ ToSet(s) = {x}
  BY DEF ToSet
<1> HIDE DEF s
<1>3. Stands(x, t)
  BY <1>1 DEF Stands
<1>4. \A i \in 1 .. 1 : i = 1 /\ \A j \in 1 .. i - 1 : FALSE
  OBVIOUS
<1>5. PlanFits(s, t)
  BY <1>1, <1>2, <1>3, <1>4 DEF PlanFits, InOrder, Freed
<1>6. Barred(s, t.idx)
  BY <1>1, <1>2 DEF Barred
<1>7. \A i \in 1 .. Len(Fields) : Awaited(Fields[i], s)
  BY <1>1, <1>2 DEF Awaited
<1>8. Tame(s)
  BY <1>1, <1>2 DEF Tame, ForField
<1>. QED
  BY <1>5, <1>6, <1>7, <1>8 DEF Sufficient, s, x

\* A sync that ends has nothing left to run, and reports what it was told.
LEMMA EndedIs ==
    ASSUME NotesInv, NEW errs \in BOOLEAN, NEW note, NoteOK(note), Ended(errs, note) \/ ToTrigger(errs, note)
    PROVE  /\ pc' \in {"idle", "trigger"} /\ plan' = <<>> /\ errors' = errs /\ sync'.faulty = note.faulty
           /\ changed' \in {<<>>, changed}
<1>1. ASSUME Ended(errs, note) PROVE sync'.faulty = note.faulty
  BY <1>1 DEF Ended, NoteOK
<1>. QED
  BY <1>1 DEF Ended, ToTrigger

-----------------------------------------------------------------------------
(* The statements about a field are those of the definition                *)

\* A fault is noted as one.
LEMMA FitFaulty == ASSUME NotesInv PROVE Faulty.faulty
  BY DEF NotesInv, NoteOK, Faulty

\* The empty list has no element.
LEMMA Nothing == ToSet(<<>>) = {}
  BY DEF ToSet

\* What is in the index pass concerns indexes.
LEMMA PassOfIndexes ==
    ASSUME Inv, pc # "idle"
    PROVE  \A x \in ToSet(IndexPass(site.server, Fields, Schemas[schema].indexes, TableName, table.idx)) :
              IndexOp(x)
<1>1. IsFiniteSet(DOMAIN table.idx) /\ schema \in DOMAIN Schemas
      /\ site \in [server : Servers, allowDrop : BOOLEAN, family : Families]
  BY DEF Inv, PlanInv, TablesInv, TableOK
<1>2. (\A n \in Created : Creates(Creation(n))) /\ \A p : Removes(Removal(p))
  <2>1. \A p : Removes(Removal(p))
    BY DEF Removal, Statement, Removes
  <2>. QED
    BY <2>1, CreationCreates
<1>. QED
  BY <1>1, <1>2, IndexPassElements DEF IndexOp

\* No step plans a statement about a field that the definition does not have.
LEMMA ArgsStep ==
    ASSUME SoundDefinitions, Inv, NotesInv, IndexesInv, ArgsInv, [Next]_vars
    PROVE  ArgsInv'
<1>1. CASE \E n \in DOMAIN Schemas : StartSync(n)
  BY <1>1, Nothing DEF StartSync, Inv, PlanInv, ArgsInv
<1>2. ASSUME site' = site, schema' = schema,
             \A x \in ToSet(plan') : ForField(x), \A x \in ToSet(changed') : ForField(x)
      PROVE  ArgsInv'
  <2>1. Fields' = Fields
    BY <1>2, FieldsKept
  <2>2. \A x : ForField(x)' <=> ForField(x)
    BY <1>2, <2>1 DEF ForField, FieldOp
  <2>. QED
    BY <1>2, <2>2 DEF ArgsInv
<1>3. NoteOK(sync) /\ NoteOK(Faulty) /\ NoteOK([Faulty EXCEPT !.blind = TRUE]) /\ errors \in BOOLEAN
  BY NotesAreOK DEF NotesInv
<1>4. ASSUME site' = site, schema' = schema, NEW errs \in BOOLEAN, NEW note, NoteOK(note),
             Ended(errs, note) \/ ToTrigger(errs, note)
      PROVE  ArgsInv'
  <2>1. plan' = <<>> /\ changed' \in {<<>>, changed}
    BY <1>4, EndedIs
  <2>. QED
    BY <1>2, <1>4, <2>1, Nothing DEF ArgsInv
<1>5. CASE Inspect
  <2>1. site' = site /\ schema' = schema
    BY <1>5 DEF Inspect
  <2>2. CASE ~table.exists
    <3>1. plan' = <<Statement("CREATE TABLE", TableName, Fields)>> /\ changed' = changed
      BY <1>5, <2>2 DEF Inspect
    <3>2. Tame(plan')
      BY <2>2, <3>1, CreationSuffices
    <3>. QED
      BY <1>2, <2>1, <3>1, <3>2 DEF Tame, ArgsInv
  <2>3. CASE table.exists
    <3>1. Ended(TRUE, sync) \/ Compare \/ ToTrigger(TRUE, Faulty)
      BY <1>5, <2>3 DEF Inspect
    <3>2. CASE Compare
      <4>1. pc # "idle"
        BY <1>5 DEF Inspect
      <4>. QED
        BY <1>2, <2>1, <2>3, <3>2, <4>1, CompareOutcomes DEF Tame
    <3>. QED
      BY <1>3, <1>4, <2>1, <3>1, <3>2
  <2>. QED
    BY <2>2, <2>3
<1>6. CASE Preflight
  <2>1. /\ site' = site /\ schema' = schema /\ changed' = changed /\ plan # <<>>
        /\ plan' = Tail(plan) \/ plan' = [plan EXCEPT ![1].check = FALSE]
    BY <1>6 DEF Preflight
  <2>2. ListOK(plan, Fields)
    BY DEF Inv, PlanInv
  <2>3. CASE plan' = Tail(plan)
    <3>1. ToSet(plan') \subseteq ToSet(plan)
      BY <2>1, <2>2, <2>3, HeadOfPlan DEF ListOK
    <3>. QED
      BY <1>2, <2>1, <3>1 DEF ArgsInv
  <2>4. CASE plan' = [plan EXCEPT ![1].check = FALSE]
    <3>1. \A x \in ToSet(plan') : \E y \in ToSet(plan) : SameStatement(x, y)
      BY <2>1, <2>2, <2>4, CountedFits
    <3>2. \A x \in ToSet(plan') : ForField(x)
      BY <3>1 DEF SameStatement, ForField, FieldOp, ArgsInv
    <3>. QED
      BY <1>2, <2>1, <3>2 DEF ArgsInv
  <2>. QED
    BY <2>1, <2>3, <2>4
<1>7. CASE Execute
  <2>1. site' = site /\ schema' = schema /\ changed' = changed /\ plan # <<>> /\ plan' = Tail(plan)
    BY <1>7, ExecuteOutcomes
  <2>2. ToSet(plan') \subseteq ToSet(plan)
    BY <2>1, HeadOfPlan DEF ListOK, Inv, PlanInv
  <2>. QED
    BY <1>2, <2>1, <2>2 DEF ArgsInv
<1>8. CASE Begin \/ RebuildStep \/ Undo
  <2>1. site' = site /\ schema' = schema /\ ((plan' = plan /\ changed' = changed) \/ Ended(TRUE, Faulty))
    BY <1>8 DEF Begin, RebuildStep, Undo, world
  <2>. QED
    BY <1>2, <1>3, <1>4, <2>1 DEF ArgsInv
<1>9. CASE ReadIndexes
  <2>1. site' = site /\ schema' = schema
    BY <1>9 DEF ReadIndexes
  <2>2. \/ /\ plan' = IndexPass(site.server, Fields, Schemas[schema].indexes, TableName, table.idx)
           /\ changed' = changed
        \/ ToTrigger(TRUE, sync) \/ ToTrigger(TRUE, Faulty)
    BY <1>9 DEF ReadIndexes
  <2>3. CASE /\ plan' = IndexPass(site.server, Fields, Schemas[schema].indexes, TableName, table.idx)
             /\ changed' = changed
    <3>1. \A x \in ToSet(plan') : IndexOp(x)
      BY <1>9, <2>3, PassOfIndexes DEF ReadIndexes
    <3>2. \A x : IndexOp(x) => ~FieldOp(x) /\ x.op # "DROP"
      BY Kinds
    <3>. QED
      BY <1>2, <2>1, <2>3, <3>1, <3>2 DEF ForField, ArgsInv
  <2>. QED
    BY <1>3, <1>4, <2>1, <2>2, <2>3
<1>10. CASE Verify \/ VerifyAgain
  <2>1. site' = site /\ schema' = schema
    BY <1>10 DEF Verify, VerifyAgain
  <2>2. \/ plan' = MissingColumns(table.cols, changed) /\ changed' = changed
        \/ \E errs \in BOOLEAN, note \in {sync, [Faulty EXCEPT !.blind = TRUE]} : ToTrigger(errs, note)
    <3>1. (errors \/ MissingColumns(table.cols, changed) # <<>>) \in BOOLEAN
      BY <1>3
    <3>. QED
      BY <1>3, <1>10, <3>1 DEF Verify, VerifyAgain
  <2>3. CASE plan' = MissingColumns(table.cols, changed) /\ changed' = changed
    <3>1. \A x \in ToSet(plan') : x \in ToSet(changed)
      BY <2>3, MissingElements DEF Inv, PlanInv
    <3>. QED
      BY <1>2, <2>1, <2>3, <3>1 DEF ArgsInv
  <2>. QED
    BY <1>3, <1>4, <2>1, <2>2, <2>3
<1>11. CASE AttachTrigger \/ Crash
  <2>1. site' = site /\ schema' = schema /\ (Ended(errors, sync) \/ Ended(TRUE, Faulty))
    BY <1>11 DEF AttachTrigger, Crash
  <2>. QED
    BY <1>3, <1>4, <2>1
<1>12. CASE (\E r \in Row, full \in BOOLEAN : Insert(r, full)) \/ UNCHANGED vars
  <2>1. site' = site /\ schema' = schema /\ plan' = plan /\ changed' = changed
    BY <1>12 DEF Insert, vars
  <2>. QED
    BY <1>2, <2>1 DEF ArgsInv
<1>. QED
  BY <1>1, <1>5, <1>6, <1>7, <1>8, <1>9, <1>10, <1>11, <1>12 DEF Next, Step

-----------------------------------------------------------------------------
(* The statement at hand fits                                              *)

\* What may be asked of MySQL for an entry of an index: a length for a text column.
Measured(a, e) == a.fulltext \/ HasLength(e) \/ FieldNamed(Fields, e.col).type # "longtext"

\* An entry as it is asked for, given the one that is declared.
Asked(n, e, x) ==
    /\ x.col = e.col
    /\ D = "mysql" => \/ Declarations[n].fulltext \/ HasLength(x)
                      \/ ~HasLength(e) /\ (IsJson(e) \/ e.col \notin TextColumns(D, Declarations[n], Fields))

\* A list that is made by a function on 1 .. n has n elements.
LEMMA MadeLength ==
    ASSUME NEW n \in Nat, NEW f, f = [i \in 1 .. n |-> f[i]]
    PROVE  Len(f) = n
<1> DEFINE T == {f[i] : i \in 1 .. n}
<1>1. f \in [1 .. n -> T]
  OBVIOUS
<1> HIDE DEF T
<1>. QED
  BY <1>1, LengthOf

\* What CREATE INDEX asks for, part by part, beside the declaration.
LEMMA CreationAsks ==
    ASSUME PlainDefinitions, site \in [server : Servers, allowDrop : BOOLEAN, family : Families],
           schema \in DOMAIN Schemas, NEW n \in DOMAIN Declarations
    PROVE  LET a == Creation(n).arg IN
           /\ a.fulltext = Declarations[n].fulltext /\ Len(a.cols) = Len(Declarations[n].cols)
           /\ Len(a.cols) \in Nat
           /\ \A i \in 1 .. Len(a.cols) : Asked(n, Declarations[n].cols[i], a.cols[i])
<1> DEFINE spec == Declarations[n]
           list == spec.cols
           cols == [i \in 1 .. Len(spec.cols) |-> [spec.cols[i] EXCEPT !.len = IF spec.fulltext THEN "" ELSE @]]
           unique == spec.unique /\ spec.form = "cols"
           where == IF Features[D].partialIndexes THEN spec.where ELSE ""
           ts == Resolved(D, spec).ts
           texts == TextColumns(D, spec, Fields)
           index == Resolved(D, spec)
           a == CreatedIndex(D, index, texts)
<1>1. D \in {"mysql", "postgres", "sqlite"} /\ IsIndex(spec)
  BY PlainHere
<1>2. Creation(n).arg = a
  BY DEF Creation, Statement
<1>3. index = AnIndex(cols, spec.fulltext, unique, where, ts)
  BY Zenon DEF Resolved, AnIndex
<1>4. Len(list) \in Nat /\ \A i \in 1 .. Len(list) : IsEntry(list[i])
  <2> DEFINE T == ToSet(list)
  <2>1. list \in Seq(T) /\ \A e \in T : IsEntry(e)
    BY <1>1 DEF IsIndex
  <2> HIDE DEF T, list
  <2>. QED
    BY <2>1
<1>5. Len(cols) = Len(list) /\ \A i \in 1 .. Len(list) :
         Alike(cols[i], list[i], list[i].path) /\ cols[i].len = IF spec.fulltext THEN "" ELSE list[i].len
  <2>1. \A i \in 1 .. Len(list) :
           Alike(cols[i], list[i], list[i].path) /\ cols[i].len = IF spec.fulltext THEN "" ELSE list[i].len
    <3>1. TAKE i \in 1 .. Len(list)
    <3> DEFINE e == list[i]
               len == IF spec.fulltext THEN "" ELSE e.len
    <3>2. cols[i] = [e EXCEPT !.len = len]
      BY Zenon
    <3>3. IsEntry(e)
      BY <1>4
    <3> HIDE DEF cols, len, e
    <3>4. Alike([e EXCEPT !.len = len], e, e.path) /\ [e EXCEPT !.len = len].len = len
      <4>1. [e EXCEPT !.len = len].len = len
        <5>1. e = [col |-> e.col, len |-> e.len, dir |-> e.dir, path |-> e.path]
          BY <3>3 DEF IsEntry
        <5>. QED
          BY <5>1
      <4>. QED
        BY <3>3, <4>1, EntryRewritten
    <3>. QED
      BY <3>2, <3>4 DEF e, len
  <2>2. Len(cols) = Len(list)
    BY <1>4
  <2>. QED
    BY <2>1, <2>2
<1> HIDE DEF cols, index, where, unique, ts, spec, list
<1>6. CASE D = "mysql"
  <2> DEFINE made == MySqlCreated(cols, texts)
  <2>1. a = AnIndex(made, spec.fulltext, unique, where, ts)
    <3>1. a = [index EXCEPT !.cols = MySqlCreated(@, texts)]
      BY <1>6 DEF CreatedIndex, MySqlCreateIndex
    <3>2. index.cols = cols
      BY <1>3 DEF AnIndex
    <3>3. a = [index EXCEPT !.cols = made]
      BY <3>1, <3>2
    <3> HIDE DEF made, a, texts
    <3>. QED
      BY <1>3, <3>3 DEF AnIndex
  <2>2. Len(made) = Len(cols)
    <3>1. made = [i \in 1 .. Len(cols) |-> made[i]] /\ Len(cols) \in Nat
      <4>1. made = [i \in 1 .. Len(cols) |-> made[i]]
        BY Zenon DEF MySqlCreated
      <4>. QED
        BY <1>4, <1>5, <4>1
    <3> HIDE DEF made
    <3>. QED
      BY <3>1, MadeLength
  <2>3. \A i \in 1 .. Len(list) : Asked(n, list[i], made[i])
    <3>1. TAKE i \in 1 .. Len(list)
    <3> DEFINE c == cols[i]
    <3>2. Alike(c, list[i], list[i].path) /\ c.len = IF spec.fulltext THEN "" ELSE list[i].len
      BY <1>5
    <3>3. i \in 1 .. Len(cols)
      BY <1>5
    <3>4. made[i] = IF ~IsJson(c) /\ c.col \in texts THEN [c EXCEPT !.len = "255", !.dir = ""] ELSE c
      BY <3>3, Zenon DEF MySqlCreated
    <3> HIDE DEF c, made
    <3>5. CASE ~IsJson(c) /\ c.col \in texts
      <4>1. made[i] = [c EXCEPT !.len = "255", !.dir = ""]
        BY <3>4, <3>5
      <4>2. c = [col |-> c.col, len |-> c.len, dir |-> c.dir, path |-> c.path]
        BY <3>2 DEF Alike, IsEntry
      <4>3. made[i].col = c.col /\ made[i].len = "255"
        BY <4>1, <4>2
      <4>. QED
        BY <3>2, <4>3 DEF Asked, Alike, HasLength
    <3>6. CASE IsJson(c) \/ c.col \notin texts
      <4>1. made[i] = c
        BY <3>4, <3>6
      <4>2. IsJson(c) <=> IsJson(list[i])
        BY <3>2 DEF Alike, IsJson
      <4>3. c.col = list[i].col
        BY <3>2 DEF Alike
      <4>. QED
        BY <3>2, <3>6, <4>1, <4>2, <4>3 DEF Asked, HasLength, spec
    <3>. QED
      BY <3>5, <3>6
  <2>4. a.fulltext = spec.fulltext /\ a.cols = made
    BY <2>1 DEF AnIndex
  <2> HIDE DEF a, made
  <2>. QED
    BY <1>2, <1>4, <1>5, <2>2, <2>3, <2>4 DEF spec, list
<1>7. CASE D = "postgres"
  <2> DEFINE made == PostgresCreated(cols, spec.fulltext)
             only == NeverBoth(unique, spec.fulltext)
  <2>1. a = AnIndex(made, spec.fulltext, only, where, ts)
    <3>1. a = [index EXCEPT !.cols = PostgresCreated(index.cols, index.fulltext),
                            !.unique = NeverBoth(index.unique, index.fulltext)]
      BY <1>7 DEF CreatedIndex, PostgresCreateIndex
    <3>2. index.cols = cols /\ index.fulltext = spec.fulltext /\ index.unique = unique
      BY <1>3 DEF AnIndex
    <3>3. a = [index EXCEPT !.cols = made, !.unique = only]
      BY <3>1, <3>2
    <3> HIDE DEF made, a, texts, only
    <3>. QED
      BY <1>3, <3>3 DEF AnIndex
  <2>2. Len(made) = Len(cols)
    <3>1. made = [i \in 1 .. Len(cols) |-> made[i]] /\ Len(cols) \in Nat
      <4>1. made = [i \in 1 .. Len(cols) |-> made[i]]
        BY Zenon DEF PostgresCreated
      <4>. QED
        BY <1>4, <1>5, <4>1
    <3> HIDE DEF made
    <3>. QED
      BY <3>1, MadeLength
  <2>3. \A i \in 1 .. Len(list) : Asked(n, list[i], made[i])
    <3>1. TAKE i \in 1 .. Len(list)
    <3> DEFINE c == cols[i]
               dir == IF spec.fulltext THEN "" ELSE c.dir
               path == KeyOfPath(c.path)
               none == ""
    <3>2. Alike(c, list[i], list[i].path)
      BY <1>5
    <3>3. i \in 1 .. Len(cols)
      BY <1>5
    <3>4. made[i] = [c EXCEPT !.len = none, !.dir = dir, !.path = path]
      BY <3>3, Zenon DEF PostgresCreated
    <3> HIDE DEF c, made, dir, path, none
    <3>5. Alike(made[i], c, path)
      <4>1. IsEntry(c)
        BY <3>2 DEF Alike
      <4>2. Alike([c EXCEPT !.len = none, !.dir = dir, !.path = path], c, path)
        BY <4>1, EntryRewritten
      <4>. QED
        BY <3>4, <4>2, Zenon
    <3>. QED
      BY <1>7, <3>2, <3>5 DEF Asked, Alike
  <2>4. a.fulltext = spec.fulltext /\ a.cols = made
    BY <2>1 DEF AnIndex
  <2> HIDE DEF a, made
  <2>. QED
    BY <1>2, <1>4, <1>5, <2>2, <2>3, <2>4 DEF spec, list
<1>8. CASE D = "sqlite"
  <2> DEFINE made == SqliteCreated(cols)
  <2>1. a = AnIndex(made, spec.fulltext, unique, where, ts)
    <3>1. a = [index EXCEPT !.cols = SqliteCreated(@)]
      BY <1>8 DEF CreatedIndex, SqliteCreateIndex
    <3>2. index.cols = cols
      BY <1>3 DEF AnIndex
    <3>3. a = [index EXCEPT !.cols = made]
      BY <3>1, <3>2
    <3> HIDE DEF made, a, texts
    <3>. QED
      BY <1>3, <3>3 DEF AnIndex
  <2>2. Len(made) = Len(cols)
    <3>1. made = [i \in 1 .. Len(cols) |-> made[i]] /\ Len(cols) \in Nat
      <4>1. made = [i \in 1 .. Len(cols) |-> made[i]]
        BY Zenon DEF SqliteCreated
      <4>. QED
        BY <1>4, <1>5, <4>1
    <3> HIDE DEF made
    <3>. QED
      BY <3>1, MadeLength
  <2>3. \A i \in 1 .. Len(list) : Asked(n, list[i], made[i])
    <3>1. TAKE i \in 1 .. Len(list)
    <3> DEFINE c == cols[i]
               none == ""
    <3>2. Alike(c, list[i], list[i].path)
      BY <1>5
    <3>3. i \in 1 .. Len(cols)
      BY <1>5
    <3>4. made[i] = [c EXCEPT !.len = none]
      BY <3>3, Zenon DEF SqliteCreated
    <3> HIDE DEF c, made, none
    <3>5. Alike(made[i], c, c.path)
      <4>1. IsEntry(c)
        BY <3>2 DEF Alike
      <4>2. Alike([c EXCEPT !.len = none], c, c.path)
        BY <4>1, EntryRewritten
      <4>. QED
        BY <3>4, <4>2, Zenon
    <3>. QED
      BY <1>8, <3>2, <3>5 DEF Asked, Alike
  <2>4. a.fulltext = spec.fulltext /\ a.cols = made
    BY <2>1 DEF AnIndex
  <2> HIDE DEF a, made
  <2>. QED
    BY <1>2, <1>4, <1>5, <2>2, <2>3, <2>4 DEF spec, list
<1>. QED
  BY <1>1, <1>6, <1>7, <1>8

\* An index that is created is over declared columns, and on MySQL over no text
\* column without a length.
LEMMA CreationIsMeasured ==
    ASSUME PlainDefinitions, SoundDefinitions,
           site \in [server : Servers, allowDrop : BOOLEAN, family : Families],
           schema \in DOMAIN Schemas, NEW n \in Created
    PROVE  LET a == Creation(n).arg IN
           \A i \in 1 .. Len(a.cols) : /\ a.cols[i].col \in FieldNames(Fields)
                                       /\ D = "mysql" => Measured(a, a.cols[i])
<1> DEFINE a == Creation(n).arg
           spec == Declarations[n]
<1>1. n \in DOMAIN Declarations /\ ~IsSkipped(site.server, spec, Fields)
  BY DEF Created
<1>2. /\ a.fulltext = spec.fulltext /\ Len(a.cols) = Len(spec.cols) /\ Len(a.cols) \in Nat
      /\ \A i \in 1 .. Len(a.cols) : Asked(n, spec.cols[i], a.cols[i])
  BY <1>1, CreationAsks
<1>3. IsIndex(spec)
  BY <1>1, PlainHere
<1>4. \A i \in 1 .. Len(spec.cols) : spec.cols[i] \in ToSet(spec.cols)
  <2> DEFINE list == spec.cols
             T == ToSet(list)
  <2>1. list \in Seq(T)
    BY <1>3 DEF IsIndex
  <2> HIDE DEF list, T
  <2>2. \A i \in 1 .. Len(list) : list[i] \in T
    BY <2>1
  <2>. QED
    BY <2>2 DEF list, T
<1>5. SUFFICES ASSUME NEW i \in 1 .. Len(a.cols)
               PROVE  a.cols[i].col \in FieldNames(Fields) /\ (D = "mysql" => Measured(a, a.cols[i]))
  OBVIOUS
<1> DEFINE e == spec.cols[i]
           x == a.cols[i]
<1>6. Asked(n, e, x) /\ i \in 1 .. Len(spec.cols) /\ e \in ToSet(spec.cols) /\ a.fulltext = spec.fulltext
  BY <1>2, <1>4
<1>7. CASE spec.form # "cols"
  <2>1. SoundEntry(n, e)
    BY <1>6, <1>7, SoundHere
  <2>. QED
    BY <1>6, <2>1 DEF SoundEntry, Asked, Measured
<1>8. CASE spec.form = "cols"
  <2>1. e.col \in FieldNames(Fields)
    BY <1>1, <1>6, <1>8, Zenon DEF IsSkipped
  <2>2. D = "mysql" /\ ~spec.fulltext /\ ~IsJson(e) /\ FieldNamed(Fields, e.col).type = "longtext"
           => e.col \in TextColumns(D, spec, Fields)
    <3>1. SUFFICES ASSUME D = "mysql", ~spec.fulltext, ~IsJson(e), FieldNamed(Fields, e.col).type = "longtext"
                   PROVE  e.col \in TextColumns(D, spec, Fields)
      OBVIOUS
    <3> DEFINE X == {y \in ToSet(spec.cols) : ~IsJson(y) /\ y.col \in FieldNames(Fields)
                                               /\ FieldNamed(Fields, y.col).type = "longtext"}
    <3>2. spec.form # "raw"
      BY <1>8
    <3>3. TextColumns(D, spec, Fields) = {y.col : y \in X}
      BY <3>1, <3>2, Zenon DEF TextColumns
    <3>4. e \in X
      BY <1>6, <2>1, <3>1
    <3>. QED
      BY <3>3, <3>4
  <2>3. IsJson(e) => HasLength(e)
    BY DEF HasLength
  <2>. QED
    BY <1>6, <2>1, <2>2, <2>3 DEF Asked, Measured
<1>. QED
  BY <1>7, <1>8

\* What a statement needs beside standing.
NoLongPart(c, idx) == \A n \in DOMAIN idx : \A i \in 1 .. Len(idx[n].cols) :
    LET e == idx[n].cols[i] IN e.col # c \/ HasLength(e) \/ idx[n].fulltext
Indexable(a, cols) == \A i \in 1 .. Len(a.cols) :
    LET e == a.cols[i] IN
    /\ e.col \in DOMAIN cols
    /\ D # "mysql" \/ cols[e.col].type # "longtext" \/ a.fulltext \/ HasLength(e)

\* A statement that stands, and that no index bars, fits.
LEMMA FitsWhen ==
    ASSUME NEW t, NEW x, x.op \in Ops, Stands(x, t),
           x.op = "CHANGE" /\ D = "mysql" /\ x.arg.type = "longtext" => NoLongPart(x.name, t.idx),
           Creates(x) => x.name \notin DOMAIN t.idx /\ Indexable(x.arg, t.cols)
    PROVE  Fits(t, x)
<1>1. Builds(x) <=> ~t.exists
  BY DEF Stands
<1>2. CASE x.op = "CREATE TABLE"
  BY <1>1, <1>2 DEF Fits, Builds
<1>3. CASE x.op = "ADD"
  BY <1>1, <1>3 DEF Fits, Builds, Stands
<1>4. CASE x.op = "CHANGE"
  BY <1>1, <1>4 DEF Fits, Builds, Stands, NoLongPart
<1>5. CASE x.op = "DROP"
  BY <1>1, <1>5 DEF Fits, Builds, Stands
<1>6. CASE x.op = "DROP INDEX"
  BY <1>1, <1>6 DEF Fits, Builds, Stands, Removes
<1>7. CASE x.op = "CREATE INDEX"
  <2>1. t.exists /\ x.name \notin DOMAIN t.idx /\ Indexable(x.arg, t.cols)
    BY <1>1, <1>7 DEF Builds, Creates
  <2>. QED
    BY <1>7, <2>1, Zenon DEF Fits, Indexable
<1>. QED
  BY <1>2, <1>3, <1>4, <1>5, <1>6, <1>7 DEF Ops

\* A plan whose statements all stand, barred from nothing, over columns that conform.
LEMMA ConformingAreIndexable ==
    ASSUME PlainDefinitions, SoundDefinitions,
           site \in [server : Servers, allowDrop : BOOLEAN, family : Families],
           schema \in DOMAIN Schemas, NEW t, \A i \in 1 .. Len(Fields) : Conforms(Fields[i], t),
           NEW n \in Created
    PROVE  Indexable(Creation(n).arg, t.cols)
<1> DEFINE a == Creation(n).arg
<1>1. SUFFICES ASSUME NEW k \in 1 .. Len(a.cols)
               PROVE  LET e == a.cols[k] IN
                      /\ e.col \in DOMAIN t.cols
                      /\ D # "mysql" \/ t.cols[e.col].type # "longtext" \/ a.fulltext \/ HasLength(e)
  BY Zenon DEF Indexable
<1> DEFINE e == a.cols[k]
<1>2. e.col \in FieldNames(Fields) /\ (D = "mysql" => Measured(a, e))
  BY CreationIsMeasured
<1>3. \E i \in 1 .. Len(Fields) : Fields[i].field = e.col
  BY <1>2 DEF FieldNames
<1> DEFINE j == CHOOSE i \in 1 .. Len(Fields) : Fields[i].field = e.col
<1>4. j \in 1 .. Len(Fields) /\ Fields[j].field = e.col
  BY <1>3, Zenon
<1>5. FieldNamed(Fields, e.col) = Fields[j]
  BY Zenon DEF FieldNamed
<1>6. Conforms(Fields[j], t)
  BY <1>4
<1> HIDE DEF j, a
<1>. QED
  BY <1>2, <1>4, <1>5, <1>6 DEF Conforms, Measured

\* Where nothing has gone wrong, the statement at hand fits.
LEMMA FitsNow ==
    ASSUME PlainDefinitions, SoundDefinitions, Inv, IndexesInv, FitInv, GuardInv, ConformInv
    PROVE  StatementsFit
<1> DEFINE h == Head(plan)
<1>1. SUFFICES ASSUME pc \in Executing, plan # <<>>, Smooth PROVE Fits(table, h)
  BY DEF StatementsFit
<1>2. /\ site \in [server : Servers, allowDrop : BOOLEAN, family : Families]
      /\ schema \in DOMAIN Schemas /\ plan \in Seq(ToSet(plan))
      /\ \A x \in ToSet(plan) : x.op \in Ops
  BY <1>1 DEF Executing, Inv, PlanInv, ListOK, StatementOK
<1>3. PlanFits(plan, table)
  BY <1>1 DEF FitInv
<1>4. /\ Len(plan) \in Nat /\ 1 \in 1 .. Len(plan) /\ h = plan[1]
      /\ \A x \in ToSet(plan) : x = h \/ (x \in ToSet(Tail(plan)) /\ Apart(h, x))
  BY <1>1, <1>2, <1>3, PlanHead DEF PlanFits
<1>5. h \in ToSet(plan)
  BY <1>1, <1>2, HeadOfPlan
<1> HIDE DEF h
<1>6. Stands(h, table)
  BY <1>3, <1>4 DEF PlanFits
<1>7. pc = "indexes" => \A x \in ToSet(plan) : IndexOp(x) /\ ((\E n \in Created : x = Creation(n)) \/ Removes(x))
  BY CreationCreates DEF IndexesInv, IndexOp
<1>8. ASSUME h.op = "CHANGE", D = "mysql", h.arg.type = "longtext" PROVE NoLongPart(h.name, table.idx)
  <2>1. ColumnOp(h) /\ ~IndexOp(h)
    BY <1>8, Kinds
  <2>2. pc = "columns"
    BY <1>1, <1>5, <1>7, <2>1 DEF Executing
  <2>3. \A n \in Guarded(table.idx, {h.name}) : \E x \in ToSet(plan) : Removes(x) /\ x.name = n
    BY <1>1, <1>5, <1>8, <2>2 DEF GuardInv, Barred
  <2>4. \A x \in ToSet(plan) : ~Removes(x)
    <3>1. SUFFICES ASSUME NEW x \in ToSet(plan), Removes(x) PROVE FALSE
      OBVIOUS
    <3>2. IndexOp(x) /\ ~ColumnOp(x) /\ x # h
      BY <2>1, <3>1, Kinds DEF IndexOp
    <3>3. Apart(h, x)
      BY <1>4, <3>2
    <3>. QED
      BY <2>1, <3>2, <3>3 DEF Apart
  <2>5. Guarded(table.idx, {h.name}) = {}
    BY <2>3, <2>4
  <2>6. ASSUME NEW n \in DOMAIN table.idx, NEW i \in 1 .. Len(table.idx[n].cols),
               table.idx[n].cols[i].col = h.name, ~HasLength(table.idx[n].cols[i]), ~table.idx[n].fulltext
        PROVE  FALSE
    <3>1. n \in Guarded(table.idx, {h.name})
      BY <2>6 DEF Guarded, HasLength
    <3>. QED
      BY <2>5, <3>1
  <2>. QED
    BY <2>6, Zenon DEF NoLongPart
<1>9. ASSUME Creates(h) PROVE h.name \notin DOMAIN table.idx /\ Indexable(h.arg, table.cols)
  <2>1. pc = "indexes"
    BY <1>1, <1>5, <1>9 DEF Executing, FitInv
  <2>2. PICK n \in Created : h = Creation(n)
    BY <1>5, <1>7, <1>9, <2>1, Kinds
  <2>3. h.name \notin DOMAIN table.idx
    <3>1. \A j \in 1 .. 1 - 1 : FALSE
      OBVIOUS
    <3>. QED
      BY <1>3, <1>4, <1>9, <3>1 DEF PlanFits, Freed
  <2>4. \A i \in 1 .. Len(Fields) : Conforms(Fields[i], table)
    <3>1. \A x \in ToSet(plan) : ~Builds(x) /\ ~FieldOp(x)
      BY <1>7, <2>1, Kinds
    <3>. QED
      BY <1>1, <3>1 DEF ConformInv, Awaited
  <2>. QED
    BY <1>2, <2>2, <2>3, <2>4, ConformingAreIndexable
<1>. QED
  BY <1>2, <1>5, <1>6, <1>8, <1>9, FitsWhen

-----------------------------------------------------------------------------
(* The plan of a sync keeps fitting the table                              *)

\* The empty plan fits every table that is there.
LEMMA NothingFits ==
    ASSUME NEW t
    PROVE  PlanFits(<<>>, t)
<1>1. Len(<<>>) = 0 /\ \A i \in 1 .. 0 : FALSE
  OBVIOUS
<1>. QED
  BY <1>1 DEF PlanFits, InOrder, Freed

\* A plan that fits a table fits it when rows were added.
LEMMA GrownFits ==
    ASSUME NEW s, NEW t, NEW u, Grown(t, u), PlanFits(s, t)
    PROVE  PlanFits(s, u)
<1>1. u.exists = t.exists /\ u.cols = t.cols /\ u.idx = t.idx
  BY DEF Grown
<1>2. \A x : Stands(x, t) => Stands(x, u)
  BY <1>1 DEF Stands
<1>. QED
  BY <1>1, <1>2, Zenon DEF PlanFits, Freed

\* A step that ends the sync, or nearly.
LEMMA EndedAtLast ==
    ASSUME Inv, NotesInv, \/ ToTrigger(TRUE, sync) \/ ToTrigger(TRUE, Faulty) \/ ToTrigger(errors, sync)
                          \/ ToTrigger(errors, [Faulty EXCEPT !.blind = TRUE])
                          \/ ToTrigger(errors \/ MissingColumns(table.cols, changed) # <<>>, sync)
                          \/ Ended(TRUE, sync) \/ Ended(TRUE, Faulty) \/ Ended(errors, sync)
    PROVE  /\ pc' \in {"idle", "trigger"} /\ plan' = <<>>
           /\ sync'.faulty \/ sync'.faulty = sync.faulty
           /\ errors' \/ ~errors'
<1>1. NoteOK(sync) /\ NoteOK(Faulty) /\ NoteOK([Faulty EXCEPT !.blind = TRUE]) /\ errors \in BOOLEAN
  BY NotesAreOK DEF NotesInv
<1>2. Faulty.faulty /\ [Faulty EXCEPT !.blind = TRUE].faulty
  BY <1>1 DEF NoteOK, Faulty
<1>3. (errors \/ MissingColumns(table.cols, changed) # <<>>) \in BOOLEAN
  BY <1>1
<1> DEFINE missing == errors \/ MissingColumns(table.cols, changed) # <<>>
           blind == [Faulty EXCEPT !.blind = TRUE]
<1> HIDE DEF missing, blind
<1>4. PICK errs \in BOOLEAN, note \in {sync, Faulty, blind} :
         Ended(errs, note) \/ ToTrigger(errs, note)
  BY <1>1, <1>3 DEF missing, blind
<1>5. NoteOK(note) /\ (note.faulty \/ note.faulty = sync.faulty)
  BY <1>1, <1>2 DEF blind
<1>. QED
  BY <1>4, <1>5, EndedIs

\* What a step of the phases without statements is.
Ending == /\ pc' \in {"idle", "trigger"} /\ plan' = <<>>

\* A sync that ends leaves no plan.
LEMMA EndingFits == Ending => FitInv'
  BY Nothing DEF Ending, FitInv, Executing, Rebuilding

\* No step leaves a plan that does not fit the table.
LEMMA FitStep ==
    ASSUME PlainDefinitions, SoundDefinitions, Inv, NotesInv, ColumnsInv, FitInv, [Next]_vars
    PROVE  FitInv'
<1>1. CASE \E n \in DOMAIN Schemas : StartSync(n)
  BY <1>1 DEF StartSync, Inv, PlanInv, FitInv, Executing, Rebuilding
<1>2. CASE Inspect
  <2>1. table' = table /\ pc = "inspect"
    BY <1>2 DEF Inspect
  <2>2. CASE ~table.exists
    <3>1. plan' = <<Statement("CREATE TABLE", TableName, Fields)>> /\ pc' = "columns"
      BY <1>2, <2>2 DEF Inspect
    <3>2. Tame(plan') /\ Sufficient(plan', table)
      BY <2>2, <3>1, CreationSuffices
    <3>. QED
      BY <2>1, <3>1, <3>2 DEF Tame, Sufficient, FitInv, Rebuilding
  <2>3. CASE table.exists
    <3>1. Ended(TRUE, sync) \/ Compare \/ ToTrigger(TRUE, Faulty)
      BY <1>2, <2>3 DEF Inspect
    <3>2. CASE Compare
      <4>1. /\ Tame(plan')
            /\ \/ plan' = <<>> /\ ((pc' = "columns" /\ errors') \/ pc' = "begin")
               \/ pc' = "columns" /\ (Sufficient(plan', table) \/ sync' = Faulty)
        BY <2>1, <2>3, <3>2, CompareOutcomes
      <4>2. sync' = Faulty => ~Smooth'
        BY FitFaulty DEF Smooth
      <4>3. errors' => ~Smooth'
        BY DEF Smooth
      <4>. QED
        BY <2>1, <4>1, <4>2, <4>3 DEF Tame, Sufficient, FitInv, Rebuilding, Executing
    <3>3. CASE Ended(TRUE, sync) \/ ToTrigger(TRUE, Faulty)
      BY <3>3, EndedAtLast, EndingFits DEF Ending
    <3>. QED
      BY <3>1, <3>2, <3>3
  <2>. QED
    BY <2>2, <2>3
<1>3. CASE Preflight
  <2>1. /\ pc = "columns" /\ pc' = pc /\ table' = table /\ plan # <<>>
        /\ \/ plan' = Tail(plan) /\ errors'
           \/ plan' = [plan EXCEPT ![1].check = FALSE] /\ errors' = errors /\ (sync' = sync \/ sync' = Faulty)
    BY <1>3 DEF Preflight
  <2>2. ListOK(plan, Fields) /\ \A x \in ToSet(plan) : ~Creates(x)
    BY <2>1 DEF Inv, PlanInv, FitInv
  <2>3. CASE plan' = Tail(plan) /\ errors'
    <3>1. ToSet(plan') \subseteq ToSet(plan)
      BY <2>1, <2>2, <2>3, HeadOfPlan DEF ListOK
    <3>2. ~Smooth'
      BY <2>3 DEF Smooth
    <3>. QED
      BY <2>1, <2>2, <3>1, <3>2 DEF FitInv, Rebuilding
  <2>4. CASE plan' = [plan EXCEPT ![1].check = FALSE] /\ errors' = errors /\ (sync' = sync \/ sync' = Faulty)
    <3>1. /\ \A x \in ToSet(plan') : \E y \in ToSet(plan) : SameStatement(x, y)
          /\ PlanFits(plan, table) => PlanFits(plan', table)
      BY <2>1, <2>2, <2>4, CountedFits
    <3>2. \A x \in ToSet(plan') : ~Creates(x)
      BY <2>2, <3>1 DEF SameStatement, Creates
    <3>3. Smooth' => Smooth
      BY <2>4, FitFaulty DEF Smooth
    <3>4. Smooth => PlanFits(plan, table)
      BY <2>1 DEF FitInv, Executing
    <3>. QED
      BY <2>1, <3>1, <3>2, <3>3, <3>4 DEF FitInv, Rebuilding
  <2>. QED
    BY <2>1, <2>3, <2>4
<1>4. CASE Execute
  <2> DEFINE h == Head(plan)
  <2>1. /\ pc \in Issuing /\ plan # <<>> /\ plan' = Tail(plan) /\ pc' = pc
        /\ StatementOK(h, Fields) /\ TableOK(table)
        /\ \/ /\ table' = Executed(table, h) /\ errors' = errors /\ sync'.faulty = sync.faulty
           \/ errors' = IF pc = "reissue" THEN errors ELSE TRUE
           \/ sync'.faulty
    BY <1>4, ExecuteOutcomes
  <2>2. ListOK(plan, Fields)
    BY DEF Inv, PlanInv
  <2>3. ToSet(plan') \subseteq ToSet(plan) /\ h \in ToSet(plan)
    BY <2>1, <2>2, HeadOfPlan DEF ListOK
  <2> HIDE DEF h
  <2>4. ASSUME pc' \in Executing, Smooth' PROVE PlanFits(plan', table')
    <3>1. table' = Executed(table, h) /\ Smooth
      <4>1. ~errors' /\ ~sync'.faulty /\ pc # "reissue"
        BY <2>1, <2>4 DEF Smooth, Executing
      <4>2. table' = Executed(table, h) /\ errors' = errors /\ sync'.faulty = sync.faulty
        BY <2>1, <4>1
      <4>. QED
        BY <4>1, <4>2, Zenon DEF Smooth
    <3>2. PlanFits(plan, table)
      BY <2>1, <2>4, <3>1 DEF FitInv
    <3>3. h = plan[1] /\ 1 \in 1 .. Len(plan)
      BY <2>1, <2>2, <3>2, PlanHead DEF ListOK, PlanFits, h
    <3>4. Stands(h, table)
      BY <3>2, <3>3 DEF PlanFits
    <3>5. h.op = "CHANGE" => h.name \in DOMAIN table.cols
      BY <3>4 DEF Stands
    <3>6. ~Builds(h) => Leaves(h, table, table')
      BY <2>1, <3>1, <3>5, ExecutedLeaves DEF StatementOK
    <3>. QED
      BY <2>1, <2>2, <3>2, <3>6, TailFits DEF ListOK, h
  <2>5. pc = "columns" => \A x \in ToSet(plan') : ~Creates(x)
    BY <2>3 DEF FitInv
  <2>6. pc' \notin {"inspect", "begin"} \cup Rebuilding
    BY <2>1 DEF Issuing, Rebuilding
  <2>. QED
    BY <2>1, <2>4, <2>5, <2>6 DEF FitInv
<1>5. CASE Begin
  <2>1. pc = "begin" /\ plan = <<>>
    BY <1>5 DEF Begin, FitInv
  <2>2. (pc' = "temp" /\ plan' = plan) \/ Ended(TRUE, Faulty)
    BY <1>5 DEF Begin
  <2>3. CASE pc' = "temp" /\ plan' = plan
    BY <2>1, <2>3 DEF FitInv, Executing
  <2>. QED
    BY <2>2, <2>3, EndedAtLast, EndingFits DEF Ending
<1>6. CASE RebuildStep \/ Undo
  <2>1. pc \in Rebuilding /\ plan' = plan /\ pc' \in Rebuilding \cup {"columns"}
    BY <1>6 DEF RebuildStep, Undo, Rebuilding
  <2>2. plan' = <<>>
    BY <2>1 DEF FitInv
  <2>. QED
    BY <2>2, NothingFits, Nothing DEF FitInv
<1>7. CASE ReadIndexes
  <2>1. pc = "columns" /\ plan = <<>> /\ table' = table
    BY <1>7 DEF ReadIndexes
  <2>2. \/ /\ plan' = IndexPass(site.server, Fields, Schemas[schema].indexes, TableName, table.idx)
           /\ pc' = "indexes" /\ errors' = errors /\ sync' = sync
        \/ ToTrigger(TRUE, sync) \/ ToTrigger(TRUE, Faulty)
    BY <1>7 DEF ReadIndexes
  <2>3. CASE /\ plan' = IndexPass(site.server, Fields, Schemas[schema].indexes, TableName, table.idx)
             /\ pc' = "indexes" /\ errors' = errors /\ sync' = sync
    <3>1. ASSUME Smooth' PROVE PlanFits(plan', table')
      <4>1. ~errors
        BY <2>3, <3>1 DEF Smooth
      <4>2. plan # <<Statement("CREATE TABLE", TableName, Fields)>>
        <5> DEFINE x == Statement("CREATE TABLE", TableName, Fields)
        <5> HIDE DEF x
        <5>1. plan # <<x>>
          BY <2>1
        <5>. QED
          BY <5>1 DEF x
      <4>3. table.exists
        BY <2>1, <4>1, <4>2 DEF ColumnsInv
      <4>4. schema \in DOMAIN Schemas /\ IsFiniteSet(DOMAIN table.idx)
            /\ site \in [server : Servers, allowDrop : BOOLEAN, family : Families]
        BY <2>1 DEF Inv, PlanInv, TablesInv, TableOK
      <4>. QED
        BY <2>1, <2>3, <4>3, <4>4, IndexPassFits
    <3>. QED
      BY <2>3, <3>1 DEF FitInv, Rebuilding
  <2>. QED
    BY <2>2, <2>3, EndedAtLast, EndingFits DEF Ending
<1>8. CASE Verify
  <2>1. \/ pc' = "reissue"
        \/ ToTrigger(errors, sync) \/ ToTrigger(errors, [Faulty EXCEPT !.blind = TRUE])
    BY <1>8 DEF Verify
  <2>2. CASE pc' = "reissue"
    BY <2>2 DEF FitInv, Executing, Rebuilding
  <2>. QED
    BY <2>1, <2>2, EndedAtLast, EndingFits DEF Ending
<1>9. CASE VerifyAgain \/ AttachTrigger \/ Crash
  <2>1. \/ ToTrigger(errors \/ MissingColumns(table.cols, changed) # <<>>, sync)
        \/ ToTrigger(errors, [Faulty EXCEPT !.blind = TRUE])
        \/ Ended(TRUE, Faulty) \/ Ended(errors, sync)
    BY <1>9 DEF VerifyAgain, AttachTrigger, Crash
  <2>. QED
    BY <2>1, EndedAtLast, EndingFits DEF Ending
<1>10. CASE \E r \in Row, full \in BOOLEAN : Insert(r, full)
  <2>1. Grown(table, table') /\ UNCHANGED <<pc, plan, errors, sync>>
    BY <1>10, InsertGrows
  <2>2. PlanFits(plan, table) => PlanFits(plan, table')
    BY <2>1, GrownFits
  <2>. QED
    BY <2>1, <2>2 DEF FitInv, Smooth
<1>11. CASE UNCHANGED vars
  BY <1>11 DEF vars, FitInv, Smooth
<1>. QED
  BY <1>1, <1>2, <1>3, <1>4, <1>5, <1>6, <1>7, <1>8, <1>9, <1>10, <1>11 DEF Next, Step

-----------------------------------------------------------------------------
(* No text column comes to stand under an index that bars it               *)

\* The server, and with it the dialect, stays.
LEMMA SiteKept == [Next]_vars => site' = site /\ D' = D
  BY DEF Next, Step, StartSync, Crash, Insert, Inspect, Preflight, Execute, Begin, RebuildStep, Undo,
         ReadIndexes, Verify, VerifyAgain, AttachTrigger, vars, world, D

\* A successful statement of a sync in which nothing has gone wrong.
LEMMA ExecutesWell ==
    ASSUME Inv, NotesInv, FitInv, Execute, pc \in Executing, Smooth'
    PROVE  /\ Smooth /\ plan # <<>> /\ plan' = Tail(plan) /\ pc' = pc /\ site' = site /\ schema' = schema
           /\ table' = Executed(table, Head(plan)) /\ TableOK(table)
           /\ StatementOK(Head(plan), Fields) /\ Head(plan) \in ToSet(plan)
           /\ ToSet(plan) = {Head(plan)} \cup ToSet(Tail(plan))
           /\ PlanFits(plan, table) /\ Stands(Head(plan), table)
           /\ ~Builds(Head(plan)) => Leaves(Head(plan), table, table')
<1> DEFINE h == Head(plan)
<1>1. /\ plan # <<>> /\ plan' = Tail(plan) /\ pc' = pc /\ site' = site /\ schema' = schema
      /\ StatementOK(h, Fields) /\ TableOK(table)
      /\ \/ /\ table' = Executed(table, h) /\ errors' = errors /\ sync'.faulty = sync.faulty
         \/ errors' = IF pc = "reissue" THEN errors ELSE TRUE
         \/ sync'.faulty
  BY ExecuteOutcomes
<1>2. ListOK(plan, Fields)
  BY DEF Inv, PlanInv
<1>3. ToSet(plan) = {h} \cup ToSet(Tail(plan))
  BY <1>1, <1>2, HeadOfPlan DEF ListOK
<1> HIDE DEF h
<1>4. ~errors' /\ ~sync'.faulty /\ pc # "reissue"
  BY DEF Smooth, Executing
<1>5. table' = Executed(table, h) /\ errors' = errors /\ sync'.faulty = sync.faulty
  BY <1>1, <1>4
<1>6. Smooth
  BY <1>4, <1>5, Zenon DEF Smooth
<1>7. PlanFits(plan, table)
  BY <1>6 DEF FitInv
<1>8. Stands(h, table)
  BY <1>1, <1>2, <1>7, PlanHead DEF ListOK, PlanFits, h
<1>9. h.op = "CHANGE" => h.name \in DOMAIN table.cols
  BY <1>8 DEF Stands
<1>10. ~Builds(h) => Leaves(h, table, table')
  BY <1>1, <1>5, <1>9, ExecutedLeaves DEF StatementOK
<1>. QED
  BY <1>1, <1>3, <1>5, <1>6, <1>7, <1>8, <1>10 DEF h

\* No step leaves a column to become a text under an index that bars it.
LEMMA GuardStep ==
    ASSUME PlainDefinitions, SoundDefinitions, Inv, NotesInv, FitInv, GuardInv, ConformInv, [Next]_vars
    PROVE  GuardInv'
<1> DEFINE Barring == Barred(plan', table'.idx)
<1>1. D' = D
  BY SiteKept
<1>2. SUFFICES ASSUME pc' = "columns", Smooth', D = "mysql" PROVE Barring
  BY <1>1 DEF GuardInv
<1>3. CASE \E n \in DOMAIN Schemas : StartSync(n)
  BY <1>2, <1>3 DEF StartSync
<1>4. CASE Inspect
  <2>1. table' = table /\ pc = "inspect"
    BY <1>4 DEF Inspect
  <2>2. CASE ~table.exists
    <3>1. plan' = <<Statement("CREATE TABLE", TableName, Fields)>>
      BY <1>4, <2>2 DEF Inspect
    <3>2. Sufficient(plan', table)
      BY <2>2, <3>1, CreationSuffices
    <3>. QED
      BY <1>2, <2>1, <3>2 DEF Sufficient
  <2>3. CASE table.exists
    <3>1. Ended(TRUE, sync) \/ Compare \/ ToTrigger(TRUE, Faulty)
      BY <1>4, <2>3 DEF Inspect
    <3>2. CASE Compare
      <4>1. D = "sqlite" \/ Sufficient(plan', table) \/ sync' = Faulty
        BY <2>1, <2>3, <3>2, CompareOutcomes
      <4>2. sync' # Faulty
        BY <1>2, FitFaulty DEF Smooth
      <4>. QED
        BY <1>2, <2>1, <4>1, <4>2 DEF Sufficient
    <3>. QED
      BY <1>2, <3>1, <3>2, EndedAtLast
  <2>. QED
    BY <2>2, <2>3
<1>5. CASE Preflight
  <2>1. /\ pc = "columns" /\ table' = table /\ plan # <<>>
        /\ errors' \/ ( plan' = [plan EXCEPT ![1].check = FALSE] /\ errors' = errors /\ (sync' = sync \/ sync' = Faulty))
    BY <1>5 DEF Preflight
  <2>2. plan' = [plan EXCEPT ![1].check = FALSE] /\ Smooth
    BY <1>2, <2>1, FitFaulty DEF Smooth
  <2>3. ListOK(plan, Fields)
    BY DEF Inv, PlanInv
  <2>4. /\ \A x \in ToSet(plan') : \E y \in ToSet(plan) : SameStatement(x, y)
        /\ \A y \in ToSet(plan) : \E x \in ToSet(plan') : SameStatement(x, y)
    BY <2>1, <2>2, <2>3, CountedFits
  <2>5. Barred(plan, table.idx)
    BY <1>2, <2>1, <2>2 DEF GuardInv
  <2>6. \A x, y : SameStatement(x, y) => x.op = y.op /\ x.name = y.name /\ x.arg = y.arg /\ (Removes(x) <=> Removes(y))
    BY DEF SameStatement, Removes
  <2>7. SUFFICES ASSUME NEW y \in ToSet(plan'), y.op = "CHANGE", y.arg.type = "longtext",
                        NEW n \in Guarded(table.idx, {y.name})
                 PROVE  \E x \in ToSet(plan') : Removes(x) /\ x.name = n
    BY <2>1 DEF Barred
  <2>8. PICK z \in ToSet(plan) : SameStatement(y, z)
    BY <2>4
  <2>9. PICK x \in ToSet(plan) : Removes(x) /\ x.name = n
    BY <2>5, <2>6, <2>7, <2>8 DEF Barred
  <2>. QED
    BY <2>4, <2>6, <2>9
<1>6. CASE Execute
  <2> DEFINE h == Head(plan)
  <2>1. pc = "columns"
    BY <1>2, <1>6, ExecuteOutcomes
  <2>2. /\ Smooth /\ plan' = Tail(plan) /\ table' = Executed(table, h) /\ StatementOK(h, Fields)
        /\ ToSet(plan) = {h} \cup ToSet(Tail(plan)) /\ (~Builds(h) => Leaves(h, table, table'))
    BY <1>2, <1>6, <2>1, ExecutesWell DEF Executing
  <2>3. Barred(plan, table.idx) /\ ~Creates(h)
    BY <1>2, <2>1, <2>2 DEF GuardInv, FitInv
  <2> HIDE DEF h
  <2>4. CASE Builds(h)
    <3>1. table'.idx = <<>>
      BY <2>2, <2>4 DEF Executed, Builds, Built
    <3>2. \A S : Guarded(<<>>, S) = {}
      BY DEF Guarded
    <3>. QED
      BY <3>1, <3>2 DEF Barred
  <2>5. CASE ~Builds(h)
    <3>1. SUFFICES ASSUME NEW y \in ToSet(plan'), y.op = "CHANGE", y.arg.type = "longtext",
                          NEW n \in Guarded(table'.idx, {y.name})
                   PROVE  \E x \in ToSet(plan') : Removes(x) /\ x.name = n
      BY DEF Barred
    <3>2. n \in DOMAIN table'.idx
      BY DEF Guarded
    <3>3. n \in DOMAIN table.idx /\ table'.idx[n] = table.idx[n] /\ ~(Removes(h) /\ h.name = n)
      BY <2>2, <2>3, <2>5, <3>2 DEF Leaves
    <3>4. n \in Guarded(table.idx, {y.name})
      BY <3>3 DEF Guarded
    <3>5. y \in ToSet(plan)
      BY <2>2
    <3>6. PICK x \in ToSet(plan) : Removes(x) /\ x.name = n
      BY <2>3, <3>1, <3>4, <3>5 DEF Barred
    <3>. QED
      BY <2>2, <3>3, <3>6
  <2>. QED
    BY <2>4, <2>5
<1>7. CASE Begin \/ RebuildStep
  <2>1. pc \in {"begin"} \cup Rebuilding
    BY <1>7 DEF Begin, RebuildStep, Rebuilding
  <2>. QED
    BY <1>2, <2>1 DEF ConformInv
<1>8. CASE Undo
  BY <1>2, <1>8 DEF Undo, Smooth
<1>9. CASE ReadIndexes \/ Verify \/ VerifyAgain \/ AttachTrigger \/ Crash
  <2>1. \/ pc' \in {"indexes", "reissue"}
        \/ ToTrigger(TRUE, sync) \/ ToTrigger(TRUE, Faulty)
        \/ ToTrigger(errors, sync) \/ ToTrigger(errors, [Faulty EXCEPT !.blind = TRUE])
        \/ ToTrigger(errors \/ MissingColumns(table.cols, changed) # <<>>, sync)
        \/ Ended(TRUE, Faulty) \/ Ended(errors, sync)
    BY <1>9 DEF ReadIndexes, Verify, VerifyAgain, AttachTrigger, Crash
  <2>. QED
    BY <1>2, <2>1, EndedAtLast
<1>10. CASE \E r \in Row, full \in BOOLEAN : Insert(r, full)
  <2>1. Grown(table, table') /\ UNCHANGED <<pc, plan, errors, sync>>
    BY <1>10, InsertGrows
  <2>. QED
    BY <1>2, <2>1 DEF GuardInv, Smooth, Grown
<1>11. CASE UNCHANGED vars
  BY <1>2, <1>11 DEF vars, GuardInv, Smooth
<1>. QED
  BY <1>3, <1>4, <1>5, <1>6, <1>7, <1>8, <1>9, <1>10, <1>11 DEF Next, Step

-----------------------------------------------------------------------------
(* Every declared column is there, or is waited for                        *)

\* On MySQL no field that is declared as another type is stored as a text.
LEMMA TypeKept ==
    ASSUME site.server \in Servers, D = "mysql", NEW f, f.type # "longtext"
    PROVE  TypeOf(f) # "longtext"
<1> DEFINE s == site.server
           spec == MySqlFieldSpec(f)
           long == "varchar(255)"
           T == StoredTypes[s]
<1>1. s \in {"mysql8", "mariadb"}
  BY DEF D, Dialect, Servers
<1>2. TypeOf(f) = Lookup(T, spec.type, spec.type)
  <2>1. FieldSpec(Dialect(s), f) = spec
    BY Zenon DEF FieldSpec, D
  <2>. QED
    BY <2>1, Zenon DEF TypeOf, NewColumn, Stored
<1>3. spec.type = IF f.type = "varchar" THEN long ELSE f.type
  BY Zenon DEF MySqlFieldSpec
<1>4. long # "longtext"
  BY Zenon
<1>5. spec.type # "longtext"
  BY <1>3, <1>4
<1>6. \A x \in DOMAIN T : T[x] # "longtext"
  <2> DEFINE k == "int(11)"
             m == "int(1)"
             g == "bigint(20)"
             a == [x \in {"integer", k, m} |-> "int"]
             b == [integer |-> k, int |-> k, bigint |-> g]
             c == StoredTypes.sqlite
             d == StoredTypes.postgres
  <2>1. StoredTypes = [mysql8 |-> a, mariadb |-> b, sqlite |-> c, postgres |-> d]
    BY Zenon DEF StoredTypes
  <2>2. k # "longtext" /\ g # "longtext"
    BY Zenon
  <2> HIDE DEF k, m, g
  <2>3. \A x \in DOMAIN a : a[x] = "int"
    OBVIOUS
  <2>4. \A x \in DOMAIN b : b[x] \in {k, g}
    OBVIOUS
  <2> HIDE DEF a, b, c, d
  <2>5. T \in {a, b}
    BY <1>1, <2>1
  <2>. QED
    BY <2>2, <2>3, <2>4, <2>5
<1> HIDE DEF T, spec
<1>. QED
  BY <1>2, <1>5, <1>6 DEF Lookup

\* A field is the only one of its name.
LEMMA OnlyOne ==
    ASSUME SoundDefinitions, site \in [server : Servers, allowDrop : BOOLEAN, family : Families],
           schema \in DOMAIN Schemas, NEW i \in 1 .. Len(Fields)
    PROVE  /\ FieldNamed(Fields, Fields[i].field) = Fields[i] /\ Fields[i].field \in FieldNames(Fields)
           /\ \A j \in 1 .. Len(Fields) : Fields[j].field = Fields[i].field => Fields[j] = Fields[i]
<1>1. \A j \in 1 .. Len(Fields) : Fields[j].field = Fields[i].field => j = i
  BY SoundHere
<1> DEFINE k == CHOOSE j \in 1 .. Len(Fields) : Fields[j].field = Fields[i].field
<1>2. k \in 1 .. Len(Fields) /\ Fields[k].field = Fields[i].field
  BY Zenon
<1>3. k = i
  BY <1>1, <1>2
<1>4. FieldNamed(Fields, Fields[i].field) = Fields[k]
  BY Zenon DEF FieldNamed
<1>5. Fields[i].field \in FieldNames(Fields)
  BY DEF FieldNames
<1> HIDE DEF k
<1>. QED
  BY <1>1, <1>3, <1>4, <1>5

\* A table that is built from the definition has each of its fields as declared.
LEMMA BuiltConforms ==
    ASSUME SoundDefinitions, site \in [server : Servers, allowDrop : BOOLEAN, family : Families],
           schema \in DOMAIN Schemas, NEW i \in 1 .. Len(Fields), NEW t, t.cols = Built(Fields).cols
    PROVE  Conforms(Fields[i], t)
<1> DEFINE f == Fields[i]
           cols == Built(Fields).cols
<1>1. cols = [n \in FieldNames(Fields) |-> NewColumn(site.server, FieldNamed(Fields, n))]
  BY Zenon DEF Built
<1>2. FieldNamed(Fields, f.field) = f /\ f.field \in FieldNames(Fields)
  BY OnlyOne
<1> HIDE DEF cols
<1>3. cols[f.field] = NewColumn(site.server, FieldNamed(Fields, f.field)) /\ f.field \in DOMAIN cols
  <2> HIDE DEF f
  <2>. QED
    BY <1>1, <1>2
<1>4. cols[f.field].type = TypeOf(f)
  BY <1>2, <1>3 DEF TypeOf
<1>5. D = "mysql" /\ f.type # "longtext" => TypeOf(f) # "longtext"
  BY TypeKept
<1> HIDE DEF f
<1>. QED
  BY <1>3, <1>4, <1>5 DEF Conforms, cols, f

\* What was there stays as it is, and what was waited for comes.
LEMMA ConformExecute ==
    ASSUME SoundDefinitions, Inv, NotesInv, ArgsInv, FitInv, ConformInv, Execute, pc \in Executing, Smooth',
           NEW i \in 1 .. Len(Fields)
    PROVE  Conforms(Fields[i], table') \/ Awaited(Fields[i], plan')
<1> DEFINE f == Fields[i]
           h == Head(plan)
<1>1. /\ Smooth /\ plan' = Tail(plan) /\ table' = Executed(table, h) /\ TableOK(table)
      /\ StatementOK(h, Fields) /\ h \in ToSet(plan) /\ ToSet(plan) = {h} \cup ToSet(Tail(plan))
      /\ Stands(h, table) /\ (~Builds(h) => Leaves(h, table, table'))
  BY ExecutesWell
<1>2. site \in [server : Servers, allowDrop : BOOLEAN, family : Families] /\ schema \in DOMAIN Schemas
  BY DEF Executing, Inv, PlanInv
<1>3. Conforms(f, table) \/ Awaited(f, plan)
  BY <1>1 DEF ConformInv
<1>4. FieldNamed(Fields, f.field) = f /\ f.field \in FieldNames(Fields)
      /\ \A j \in 1 .. Len(Fields) : Fields[j].field = f.field => Fields[j] = f
  BY <1>2, OnlyOne
<1>5. ASSUME Builds(h) PROVE Conforms(f, table')
  <2>1. table' = Built(Fields)
    BY <1>1, <1>5 DEF Executed, Builds, StatementOK
  <2>2. table'.cols = Built(Fields).cols
    BY <2>1
  <2>. QED
    BY <1>2, <2>2, BuiltConforms
<1>6. ASSUME FieldOp(h), h.name = f.field PROVE Conforms(f, table')
  <2>1. h.arg = f
    BY <1>1, <1>4, <1>6 DEF ArgsInv, ForField
  <2>2. h.op = "CHANGE" => h.name \in DOMAIN table.cols
    BY <1>1 DEF Stands
  <2>3. h.name \in DOMAIN table'.cols /\ (D = "mysql" => table'.cols[h.name].type = TypeOf(f))
    BY <1>1, <1>6, <2>1, <2>2, ExecutedField
  <2>4. D = "mysql" /\ f.type # "longtext" => TypeOf(f) # "longtext"
    BY <1>2, TypeKept
  <2> HIDE DEF f, h
  <2>. QED
    BY <1>6, <2>3, <2>4 DEF Conforms
<1>7. ASSUME ~Builds(h), IndexOp(h) \/ h.name # f.field, Conforms(f, table) PROVE Conforms(f, table')
  <2> HIDE DEF f, h
  <2>. QED
    BY <1>1, <1>7 DEF Leaves, Conforms
<1>8. CASE Conforms(f, table)
  <2>1. ~IndexOp(h) /\ ~Builds(h) /\ h.name = f.field => FieldOp(h)
    BY <1>1, <1>4 DEF StatementOK, Ops, IndexOp, Creates, Removes, Builds, FieldOp
  <2>. QED
    BY <1>5, <1>6, <1>7, <1>8, <2>1
<1>9. CASE Awaited(f, plan)
  <2>1. PICK x \in ToSet(plan) : Builds(x) \/ (FieldOp(x) /\ x.arg = f)
    BY <1>9 DEF Awaited
  <2>2. CASE x = h
    <3>1. FieldOp(h) /\ h.arg = f => h.name = f.field
      BY <1>1 DEF ArgsInv, ForField
    <3>. QED
      BY <1>5, <1>6, <2>1, <2>2, <3>1
  <2>3. CASE x # h
    <3>1. x \in ToSet(plan')
      BY <1>1, <2>3
    <3>. QED
      BY <2>1, <3>1 DEF Awaited
  <2>. QED
    BY <2>2, <2>3
<1>. QED
  BY <1>3, <1>8, <1>9

\* Without statements to come every column is there.
LEMMA AllConform ==
    ASSUME ConformInv, pc \in Executing, Smooth, plan = <<>>
    PROVE  \A i \in 1 .. Len(Fields) : Conforms(Fields[i], table)
  BY Nothing DEF ConformInv, Awaited

\* So a column that is missing when it is verified was lost with an error.
LEMMA LostWithAnError ==
    ASSUME Inv, NotesInv, IndexesInv, ArgsInv, ConformInv, pc = "indexes", plan = <<>>, ~sync.faulty,
           MissingColumns(table.cols, changed) # <<>>
    PROVE  errors
<1> DEFINE missing == MissingColumns(table.cols, changed)
<1>1. SUFFICES ASSUME ~errors PROVE FALSE
  OBVIOUS
<1>2. \A i \in 1 .. Len(Fields) : Conforms(Fields[i], table)
  <2>1. Smooth /\ pc \in Executing
    BY <1>1 DEF Smooth, Executing
  <2>. QED
    BY <2>1, AllConform
<1>3. changed \in Seq(ToSet(changed)) /\ ListOK(missing, Fields)
  <2>1. ListOK(changed, Fields)
    BY DEF Inv, PlanInv
  <2>. QED
    BY <2>1, MissingAreOK DEF ListOK
<1>4. \A x \in ToSet(missing) : x \in ToSet(changed) /\ x.name \notin DOMAIN table.cols
  BY <1>3, MissingAreMissing
<1> HIDE DEF missing
<1>5. PICK x \in ToSet(missing) : TRUE
  <2>1. ToSet(missing) = {Head(missing)} \cup ToSet(Tail(missing))
    BY <1>3, HeadOfPlan DEF ListOK, missing
  <2>. QED
    BY <2>1
<1>6. x \in ToSet(changed) /\ FieldOp(x)
  BY <1>4 DEF IndexesInv, Touches, FieldOp
<1>7. PICK i \in 1 .. Len(Fields) : x.name = Fields[i].field
  BY <1>6 DEF ArgsInv, ForField
<1>. QED
  BY <1>2, <1>4, <1>7 DEF Conforms

\* The phases of a rebuild, and of what is issued again.
RebuildInv ==
    /\ pc \in {"begin"} \cup Rebuilding => D = "sqlite"
    /\ pc \in {"begin", "temp", "copy"} => table.exists /\ RequiredMissing(table.cols, Fields) = {}
    /\ pc = "copy" => temp.cols = Built(Fields).cols
    /\ pc = "reissue" /\ ~sync.faulty => errors
AwaitInv == pc \in Executing /\ Smooth => \A i \in 1 .. Len(Fields) : Conforms(Fields[i], table) \/ Awaited(Fields[i], plan)

\* The two halves of ConformInv.
LEMMA TheseAreConformInv == ConformInv <=> RebuildInv /\ AwaitInv
  BY DEF ConformInv, RebuildInv, AwaitInv

\* A rebuild goes on being one of a table that can be rebuilt.
LEMMA RebuildInvStep ==
    ASSUME SoundDefinitions, Inv, NotesInv, IndexesInv, ArgsInv, ConformInv, [Next]_vars
    PROVE  RebuildInv'
<1>1. D' = D /\ RebuildInv
  BY SiteKept, TheseAreConformInv
<1>2. ASSUME Ending PROVE RebuildInv'
  BY <1>2 DEF Ending, RebuildInv, Rebuilding
<1>3. ASSUME pc' \notin {"begin", "reissue"} \cup Rebuilding PROVE RebuildInv'
  BY <1>3 DEF RebuildInv, Rebuilding
<1>4. CASE \E n \in DOMAIN Schemas : StartSync(n)
  BY <1>3, <1>4 DEF StartSync, Rebuilding
<1>5. CASE Inspect
  <2>1. table' = table /\ pc = "inspect" /\ site' = site /\ schema' = schema
    BY <1>5 DEF Inspect
  <2>2. CASE ~table.exists
    <3>1. pc' = "columns"
      BY <1>5, <2>2 DEF Inspect
    <3>. QED
      BY <1>3, <3>1 DEF Rebuilding
  <2>3. CASE table.exists
    <3>1. Ended(TRUE, sync) \/ Compare \/ ToTrigger(TRUE, Faulty)
      BY <1>5, <2>3 DEF Inspect
    <3>2. CASE Compare
      <4>1. \/ pc' = "columns"
            \/ pc' = "begin" /\ D = "sqlite" /\ RequiredMissing(table.cols, Fields) = {}
        BY <2>1, <2>3, <3>2, CompareOutcomes
      <4>2. Fields' = Fields
        BY <2>1, FieldsKept
      <4>. QED
        BY <1>1, <1>3, <2>1, <2>3, <4>1, <4>2 DEF RebuildInv, Rebuilding
    <3>. QED
      BY <1>2, <3>1, <3>2, EndedAtLast DEF Ending
  <2>. QED
    BY <2>2, <2>3
<1>6. CASE Preflight
  BY <1>3, <1>6 DEF Preflight, Rebuilding
<1>7. CASE Execute
  <2>1. /\ pc \in Issuing /\ pc' = pc
        /\ \/ errors' = errors /\ sync'.faulty = sync.faulty
           \/ sync'.faulty = sync.faulty /\ errors' = IF pc = "reissue" THEN errors ELSE TRUE
           \/ sync'.faulty
    BY <1>7, ExecuteOutcomes
  <2>2. pc = "reissue" /\ ~sync'.faulty => errors'
    BY <1>1, <2>1 DEF RebuildInv
  <2>. QED
    BY <2>1, <2>2 DEF RebuildInv, Issuing, Rebuilding
<1>8. CASE Begin
  <2>1. \/ pc = "begin" /\ pc' = "temp" /\ UNCHANGED <<site, schema, table>>
        \/ Ended(TRUE, Faulty)
    BY <1>8 DEF Begin
  <2>2. CASE pc = "begin" /\ pc' = "temp" /\ UNCHANGED <<site, schema, table>>
    <3>1. Fields' = Fields
      BY <2>2, FieldsKept
    <3>. QED
      BY <1>1, <2>2, <3>1 DEF RebuildInv, Rebuilding
  <2>. QED
    BY <1>2, <2>1, <2>2, EndedAtLast DEF Ending
<1>9. CASE RebuildStep
  <2>1. pc \in Rebuilding /\ site' = site /\ schema' = schema /\ D = "sqlite"
    BY <1>1, <1>9 DEF RebuildStep, Rebuilding, world, RebuildInv
  <2>2. Fields' = Fields /\ Built(Fields)' = Built(Fields)
    <3>1. Fields' = Fields
      BY <2>1, FieldsKept
    <3>. QED
      BY <2>1, <3>1 DEF Built
  <2>3. \/ pc' \in {"drop", "rename", "commit", "columns"}
        \/ pc = "temp" /\ pc' = "copy" /\ temp' = Built(Fields) /\ table' = table
    BY <1>9 DEF RebuildStep
  <2>4. pc = "temp" => table.exists /\ RequiredMissing(table.cols, Fields) = {}
    BY <1>1 DEF RebuildInv
  <2> HIDE DEF Built
  <2>. QED
    BY <1>1, <2>1, <2>2, <2>3, <2>4, Zenon DEF RebuildInv, Rebuilding
<1>10. CASE Undo
  BY <1>3, <1>10 DEF Undo, Rebuilding
<1>11. CASE ReadIndexes
  <2>1. pc' = "indexes" \/ ToTrigger(TRUE, sync) \/ ToTrigger(TRUE, Faulty)
    BY <1>11 DEF ReadIndexes
  <2>. QED
    BY <1>2, <1>3, <2>1, EndedAtLast DEF Ending, Rebuilding
<1>12. CASE Verify
  <2>1. \/ /\ pc = "indexes" /\ plan = <<>> /\ pc' = "reissue" /\ errors' = errors /\ sync' = sync
           /\ MissingColumns(table.cols, changed) # <<>>
        \/ ToTrigger(errors, sync) \/ ToTrigger(errors, [Faulty EXCEPT !.blind = TRUE])
    BY <1>12 DEF Verify
  <2>2. CASE /\ pc = "indexes" /\ plan = <<>> /\ pc' = "reissue" /\ errors' = errors /\ sync' = sync
             /\ MissingColumns(table.cols, changed) # <<>>
    <3>1. ~sync.faulty => errors
      BY <2>2, LostWithAnError
    <3>. QED
      BY <2>2, <3>1 DEF RebuildInv, Rebuilding
  <2>. QED
    BY <1>2, <2>1, <2>2, EndedAtLast DEF Ending
<1>13. CASE VerifyAgain \/ AttachTrigger \/ Crash
  <2>1. \/ ToTrigger(errors \/ MissingColumns(table.cols, changed) # <<>>, sync)
        \/ ToTrigger(errors, [Faulty EXCEPT !.blind = TRUE])
        \/ Ended(TRUE, Faulty) \/ Ended(errors, sync)
    BY <1>13 DEF VerifyAgain, AttachTrigger, Crash
  <2>. QED
    BY <1>2, <2>1, EndedAtLast DEF Ending
<1>14. CASE (\E r \in Row, full \in BOOLEAN : Insert(r, full)) \/ UNCHANGED vars
  <2>1. /\ UNCHANGED <<site, schema, pc, sync, errors, temp>>
        /\ table'.exists = table.exists /\ table'.cols = table.cols
    BY <1>14, InsertGrows DEF vars, Grown
  <2>2. Fields' = Fields /\ Built(Fields)' = Built(Fields)
    <3>1. Fields' = Fields
      BY <2>1, FieldsKept
    <3>. QED
      BY <2>1, <3>1 DEF Built
  <2> HIDE DEF Built
  <2>. QED
    BY <1>1, <2>1, <2>2, Zenon DEF RebuildInv
<1>. QED
  BY <1>4, <1>5, <1>6, <1>7, <1>8, <1>9, <1>10, <1>11, <1>12, <1>13, <1>14 DEF Next, Step

\* No step loses a column that is there, or the statement that a missing one waits for.
LEMMA AwaitStep ==
    ASSUME PlainDefinitions, SoundDefinitions, Inv, NotesInv, ColumnsInv, ArgsInv, FitInv, ConformInv, [Next]_vars
    PROVE  AwaitInv'
<1> DEFINE Waits(i, t, s) == Conforms(Fields[i], t) \/ Awaited(Fields[i], s)
<1>1. D' = D /\ RebuildInv /\ AwaitInv
  BY SiteKept, TheseAreConformInv
<1>2. ASSUME pc' \notin Executing \/ ~Smooth' PROVE AwaitInv'
  BY <1>2 DEF AwaitInv
<1>3. ASSUME site' = site, schema' = schema, \A i \in 1 .. Len(Fields) : Waits(i, table', plan') PROVE AwaitInv'
  <2>1. Fields' = Fields
    BY <1>3, FieldsKept
  <2>2. \A f, t : Conforms(f, t)' <=> Conforms(f, t)
    BY <1>1 DEF Conforms
  <2>3. \A f, s : Awaited(f, s)' <=> Awaited(f, s)
    BY DEF Awaited
  <2>. QED
    BY <1>3, <2>1, <2>2, <2>3 DEF AwaitInv, Conforms, Awaited
<1>4. ASSUME Ending PROVE AwaitInv'
  BY <1>2, <1>4 DEF Ending, Executing
<1>5. CASE \E n \in DOMAIN Schemas : StartSync(n)
  BY <1>2, <1>5 DEF StartSync, Executing
<1>6. CASE Inspect
  <2>1. table' = table /\ pc = "inspect" /\ site' = site /\ schema' = schema
    BY <1>6 DEF Inspect
  <2>2. CASE ~table.exists
    <3>1. plan' = <<Statement("CREATE TABLE", TableName, Fields)>>
      BY <1>6, <2>2 DEF Inspect
    <3>2. Sufficient(plan', table)
      BY <2>2, <3>1, CreationSuffices
    <3>. QED
      BY <1>3, <2>1, <3>2 DEF Sufficient
  <2>3. CASE table.exists
    <3>1. Ended(TRUE, sync) \/ Compare \/ ToTrigger(TRUE, Faulty)
      BY <1>6, <2>3 DEF Inspect
    <3>2. CASE Compare
      <4>1. \/ pc' = "columns" /\ errors'
            \/ pc' = "begin"
            \/ Sufficient(plan', table) \/ sync' = Faulty
        BY <2>1, <2>3, <3>2, CompareOutcomes
      <4>2. (sync' = Faulty \/ errors') => ~Smooth'
        BY FitFaulty DEF Smooth
      <4>3. pc' = "begin" => pc' \notin Executing
        BY DEF Executing
      <4>. QED
        BY <1>2, <1>3, <2>1, <4>1, <4>2, <4>3 DEF Sufficient
    <3>. QED
      BY <1>4, <3>1, <3>2, EndedAtLast DEF Ending
  <2>. QED
    BY <2>2, <2>3
<1>7. CASE Preflight
  <2>1. /\ pc = "columns" /\ table' = table /\ plan # <<>> /\ site' = site /\ schema' = schema
        /\ errors' \/ (plan' = [plan EXCEPT ![1].check = FALSE] /\ errors' = errors /\ (sync' = sync \/ sync' = Faulty))
    BY <1>7 DEF Preflight
  <2>2. SUFFICES ASSUME Smooth' PROVE AwaitInv'
    BY <1>2
  <2>3. plan' = [plan EXCEPT ![1].check = FALSE] /\ Smooth
    BY <2>1, <2>2, FitFaulty DEF Smooth
  <2>4. ListOK(plan, Fields)
    BY DEF Inv, PlanInv
  <2>5. \A y \in ToSet(plan) : \E x \in ToSet(plan') : SameStatement(x, y)
    BY <2>1, <2>3, <2>4, CountedFits
  <2>6. \A i \in 1 .. Len(Fields) : Waits(i, table, plan)
    BY <1>1, <2>1, <2>3 DEF AwaitInv, Executing
  <2>7. \A f : Awaited(f, plan) => Awaited(f, plan')
    BY <2>5 DEF Awaited, SameStatement, Builds, FieldOp
  <2>. QED
    BY <1>3, <2>1, <2>6, <2>7
<1>8. CASE Execute
  <2>1. SUFFICES ASSUME pc' \in Executing, Smooth' PROVE AwaitInv'
    BY <1>2
  <2>2. pc \in Executing /\ site' = site /\ schema' = schema
    BY <1>8, <2>1, ExecuteOutcomes
  <2>3. \A i \in 1 .. Len(Fields) : Waits(i, table', plan')
    BY <1>8, <2>1, <2>2, ConformExecute
  <2>. QED
    BY <1>3, <2>2, <2>3
<1>9. CASE Begin
  <2>1. pc' = "temp" \/ Ended(TRUE, Faulty)
    BY <1>9 DEF Begin
  <2>2. pc' = "temp" => pc' \notin Executing
    BY DEF Executing
  <2>. QED
    BY <1>2, <1>4, <2>1, <2>2, EndedAtLast DEF Ending
<1>10. CASE RebuildStep
  <2>1. pc \in Rebuilding /\ site' = site /\ schema' = schema
    BY <1>10 DEF RebuildStep, Rebuilding, world
  <2>2. D # "mysql"
    <3>1. D = "sqlite"
      BY <1>1, <2>1 DEF RebuildInv
    <3>. QED
      BY <3>1
  <2>3. pc' \in Rebuilding \/ (pc = "commit" /\ table' = table)
    BY <1>10 DEF RebuildStep, Rebuilding
  <2>4. CASE pc' \in Rebuilding
    BY <1>2, <2>4 DEF Executing, Rebuilding
  <2>5. CASE pc = "commit" /\ table' = table
    <3>1. DOMAIN table.cols = FieldNames(Fields)
      BY <2>5 DEF ColumnsInv
    <3>2. \A i \in 1 .. Len(Fields) : Conforms(Fields[i], table)
      BY <2>2, <3>1 DEF Conforms, FieldNames
    <3>. QED
      BY <1>3, <2>1, <2>5, <3>2
  <2>. QED
    BY <2>3, <2>4, <2>5
<1>11. CASE Undo
  BY <1>2, <1>11 DEF Undo, Smooth
<1>12. CASE ReadIndexes
  <2>1. \/ pc = "columns" /\ plan = <<>> /\ errors' = errors /\ sync' = sync /\ UNCHANGED <<site, schema, table>>
        \/ ToTrigger(TRUE, sync) \/ ToTrigger(TRUE, Faulty)
    BY <1>12 DEF ReadIndexes
  <2>2. CASE pc = "columns" /\ plan = <<>> /\ errors' = errors /\ sync' = sync /\ UNCHANGED <<site, schema, table>>
    <3>1. SUFFICES ASSUME Smooth' PROVE AwaitInv'
      BY <1>2
    <3>2. Smooth /\ pc \in Executing
      BY <2>2, <3>1 DEF Smooth, Executing
    <3>3. \A i \in 1 .. Len(Fields) : Conforms(Fields[i], table)
      BY <2>2, <3>2, AllConform
    <3>. QED
      BY <1>3, <2>2, <3>3
  <2>. QED
    BY <1>4, <2>1, <2>2, EndedAtLast DEF Ending
<1>13. CASE Verify \/ VerifyAgain \/ AttachTrigger \/ Crash
  <2>1. \/ pc' = "reissue"
        \/ ToTrigger(errors, sync) \/ ToTrigger(errors, [Faulty EXCEPT !.blind = TRUE])
        \/ ToTrigger(errors \/ MissingColumns(table.cols, changed) # <<>>, sync)
        \/ Ended(TRUE, Faulty) \/ Ended(errors, sync)
    BY <1>13 DEF Verify, VerifyAgain, AttachTrigger, Crash
  <2>2. pc' = "reissue" => pc' \notin Executing
    BY DEF Executing
  <2>. QED
    BY <1>2, <1>4, <2>1, <2>2, EndedAtLast DEF Ending
<1>14. CASE (\E r \in Row, full \in BOOLEAN : Insert(r, full)) \/ UNCHANGED vars
  <2>1. /\ UNCHANGED <<site, schema, pc, sync, errors, plan>>
        /\ table'.cols = table.cols
    BY <1>14, InsertGrows DEF vars, Grown
  <2>2. \A f : Conforms(f, table) => Conforms(f, table')
    BY <2>1 DEF Conforms
  <2>3. SUFFICES ASSUME pc \in Executing, Smooth PROVE AwaitInv'
    BY <1>2, <2>1 DEF Smooth
  <2>4. \A i \in 1 .. Len(Fields) : Waits(i, table, plan)
    BY <1>1, <2>3 DEF AwaitInv
  <2>. QED
    BY <1>3, <2>1, <2>2, <2>4
<1>. QED
  BY <1>5, <1>6, <1>7, <1>8, <1>9, <1>10, <1>11, <1>12, <1>13, <1>14 DEF Next, Step

\* The two halves together.
LEMMA ConformStep ==
    ASSUME PlainDefinitions, SoundDefinitions, Inv, NotesInv, ColumnsInv, IndexesInv, ArgsInv, FitInv,
           ConformInv, [Next]_vars
    PROVE  ConformInv'
<1>1. RebuildInv' /\ AwaitInv'
  BY RebuildInvStep, AwaitStep
<1>. QED
  BY <1>1 DEF ConformInv, RebuildInv, AwaitInv

-----------------------------------------------------------------------------
(* A sync reports an error for what stands in the rows or the definition   *)

\* A column is as it was, in the definition of the table and in the rows there were.
AsBefore(c, t, u) ==
    /\ c \in DOMAIN u.cols <=> c \in DOMAIN t.cols
    /\ c \in DOMAIN t.cols => u.cols[c] = t.cols[c]
    /\ \A r \in DOMAIN t.rows : r \in DOMAIN u.rows /\ (c \in u.rows[r] <=> c \in t.rows[r])

\* No row has lost a value.
Gains(t, u) == \A r \in DOMAIN t.rows : r \in DOMAIN u.rows /\ t.rows[r] \subseteq u.rows[r]

\* What a step must leave alone of what a sync is stuck with.
Undisturbed ==
    /\ table'.exists = table.exists
    /\ pc = "idle" => pc' = "idle" /\ table'.cols = table.cols
    /\ \A i \in 1 .. Len(Fields) : Unfit(Fields[i], table) => AsBefore(Fields[i].field, table, table')
    /\ \A c \in DOMAIN table.cols : Spared(c, plan) => AsBefore(c, table, table') /\ Spared(c, plan')
    /\ pc \in Late =>
          /\ pc' \in Late
          /\ \A n : Barren(n, plan) => /\ Barren(n, plan') /\ Gains(table, table')
                                       /\ Physical[n] \in DOMAIN table'.idx => Physical[n] \in DOMAIN table.idx

\* What a sync is stuck with, of the table and the plan as a step leaves them.
LEMMA StuckThen ==
    ASSUME site' = site, schema' = schema
    PROVE  /\ Unfilled' <=> \E i \in 1 .. Len(Fields) : Unfit(Fields[i], table')
           /\ LeftColumn' <=> \E i \in 1 .. Len(Fields) :
                                 Held(Fields[i], table') /\ Spared(Fields[i].field, plan')
           /\ LeftIndex' <=>
                 /\ pc' \in Late /\ table'.exists
                 /\ \E n \in Created :
                       /\ Physical[n] \notin DOMAIN table'.idx /\ Barren(n, plan')
                       /\ \/ MayRepeat(table', Wanted(n))
                          \/ \E e \in ToSet(Wanted(n).cols) : NoJson(table', e, plan')
           /\ LeftThere' <=> /\ site.allowDrop /\ D # "postgres" /\ table'.exists
                             /\ \E c \in DOMAIN table'.cols \ FieldNames(Fields) : Spared(c, plan')
<1>1. Fields' = Fields /\ D' = D /\ Declarations' = Declarations /\ Physical' = Physical /\ Created' = Created
  BY FieldsKept, DefinitionKept
<1>2. Unfilled' <=> \E i \in 1 .. Len(Fields) : Unfit(Fields[i], table')
  BY <1>1, Zenon DEF Unfilled, Unfit, NeedsNoRows
<1>3. LeftColumn' <=> \E i \in 1 .. Len(Fields) : Held(Fields[i], table') /\ Spared(Fields[i].field, plan')
  BY <1>1, Zenon DEF LeftColumn, Held, NullAt, Retyped, RebuildIsBarred
<1>4. \A n : Wanted(n)' = Wanted(n)
  BY <1>1 DEF Wanted
<1>5. LeftIndex' <=>
         /\ pc' \in Late /\ table'.exists
         /\ \E n \in Created :
               /\ Physical[n] \notin DOMAIN table'.idx /\ Barren(n, plan')
               /\ \/ MayRepeat(table', Wanted(n))
                  \/ \E e \in ToSet(Wanted(n).cols) : NoJson(table', e, plan')
  BY <1>1, <1>4, Zenon DEF LeftIndex, NoJson, Barren
<1>6. LeftThere' <=> /\ site.allowDrop /\ D # "postgres" /\ table'.exists
                     /\ \E c \in DOMAIN table'.cols \ FieldNames(Fields) : Spared(c, plan')
  BY <1>1, Zenon DEF LeftThere
<1>. QED
  BY <1>2, <1>3, <1>5, <1>6

\* A column that is as it was is held or unfit as it was.
LEMMA AsBeforeStays ==
    ASSUME NEW f, NEW t, NEW u, AsBefore(f.field, t, u), u.exists = t.exists
    PROVE  (Held(f, t) => Held(f, u)) /\ (Unfit(f, t) => Unfit(f, u))
<1>1. NullAt(f, t) => NullAt(f, u)
  BY DEF NullAt, AsBefore
<1>2. Filled(t, {f.field}) # {} => Filled(u, {f.field}) # {}
  BY DEF Filled, AsBefore
<1>3. f.field \in DOMAIN t.cols /\ Retyped(t, f) => Retyped(u, f)
  <2>1. SUFFICES ASSUME f.field \in DOMAIN t.cols, Retyped(t, f) PROVE Retyped(u, f)
    OBVIOUS
  <2>2. u.cols[f.field] = t.cols[f.field]
    BY <2>1 DEF AsBefore
  <2>. QED
    BY <1>2, <2>1, <2>2, Zenon DEF Retyped
<1>4. f.field \in DOMAIN t.cols /\ RebuildIsBarred(t, f) => RebuildIsBarred(u, f)
  BY DEF RebuildIsBarred, AsBefore
<1>5. f.field \in DOMAIN u.cols <=> f.field \in DOMAIN t.cols
  BY DEF AsBefore
<1>6. DOMAIN t.rows # {} => DOMAIN u.rows # {}
  BY DEF AsBefore
<1>. QED
  BY <1>1, <1>3, <1>4, <1>5, <1>6 DEF Held, Unfit

\* Rows that have lost nothing may be equal, and hold what is no JSON, as before.
LEMMA GainsStays ==
    ASSUME NEW t, NEW u, Gains(t, u)
    PROVE  /\ \A a : MayRepeat(t, a) => MayRepeat(u, a)
           /\ \A c : Filled(t, {c}) # {} => Filled(u, {c}) # {}
<1>1. \A N : Filled(t, N) \subseteq Filled(u, N)
  BY DEF Filled, Gains
<1>. QED
  BY <1>1 DEF MayRepeat

\* A sync that is not disturbed is stuck with what it was stuck with.
LEMMA StuckStays ==
    ASSUME site' = site, schema' = schema, Stuck, Undisturbed
    PROVE  Stuck'
<1>1. Fields' = Fields /\ table'.exists = table.exists
  BY FieldsKept DEF Undisturbed
<1>2. CASE Unfilled
  <2>1. PICK i \in 1 .. Len(Fields) : Unfit(Fields[i], table)
    BY <1>2 DEF Unfilled
  <2>2. AsBefore(Fields[i].field, table, table')
    BY <2>1 DEF Undisturbed
  <2>3. Unfit(Fields[i], table')
    BY <1>1, <2>1, <2>2, AsBeforeStays
  <2>. QED
    BY <2>3, StuckThen DEF Stuck
<1>3. CASE pc = "idle" /\ Throws
  <2>1. pc' = "idle" /\ table'.cols = table.cols
    BY <1>3 DEF Undisturbed
  <2>2. Throws'
    BY <1>1, <1>3, <2>1, Zenon DEF Throws
  <2>. QED
    BY <2>1, <2>2 DEF Stuck
<1>4. CASE LeftColumn
  <2>1. PICK i \in 1 .. Len(Fields) : Held(Fields[i], table) /\ Spared(Fields[i].field, plan)
    BY <1>4 DEF LeftColumn
  <2>2. AsBefore(Fields[i].field, table, table') /\ Spared(Fields[i].field, plan')
    BY <2>1 DEF Undisturbed, Held
  <2>3. Held(Fields[i], table')
    BY <1>1, <2>1, <2>2, AsBeforeStays
  <2>. QED
    BY <2>2, <2>3, StuckThen DEF Stuck
<1>5. CASE LeftIndex
  <2>1. PICK n \in Created : /\ Physical[n] \notin DOMAIN table.idx /\ Barren(n, plan)
                             /\ \/ MayRepeat(table, Wanted(n))
                                \/ \E e \in ToSet(Wanted(n).cols) : NoJson(table, e, plan)
    BY <1>5 DEF LeftIndex
  <2>2. /\ pc' \in Late /\ table'.exists /\ Physical[n] \notin DOMAIN table'.idx
        /\ Barren(n, plan') /\ Gains(table, table')
    BY <1>1, <1>5, <2>1 DEF LeftIndex, Undisturbed
  <2>3. MayRepeat(table, Wanted(n)) => MayRepeat(table', Wanted(n))
    BY <2>2, GainsStays
  <2>4. ASSUME NEW e, NoJson(table, e, plan) PROVE NoJson(table', e, plan')
    <3>1. CASE Filled(table, {e.col}) # {}
      BY <2>2, <2>4, <3>1, GainsStays DEF NoJson
    <3>2. CASE D = "postgres" /\ e.col \in DOMAIN table.cols /\ table.cols[e.col].type # "jsonb" /\ Spared(e.col, plan)
      <4>1. AsBefore(e.col, table, table') /\ Spared(e.col, plan')
        BY <3>2 DEF Undisturbed
      <4>2. e.col \in DOMAIN table'.cols /\ table'.cols[e.col] = table.cols[e.col]
        BY <3>2, <4>1 DEF AsBefore
      <4>. QED
        BY <2>4, <3>2, <4>1, <4>2 DEF NoJson
    <3>. QED
      BY <2>4, <3>1, <3>2 DEF NoJson
  <2>5. LeftIndex'
    BY <2>1, <2>2, <2>3, <2>4, StuckThen
  <2>. QED
    BY <2>5 DEF Stuck
<1>6. CASE LeftThere
  <2>1. PICK c \in DOMAIN table.cols \ FieldNames(Fields) : Spared(c, plan)
    BY <1>6 DEF LeftThere
  <2>2. AsBefore(c, table, table') /\ Spared(c, plan')
    BY <2>1 DEF Undisturbed
  <2>3. c \in DOMAIN table'.cols \ FieldNames(Fields)
    BY <2>1, <2>2 DEF AsBefore
  <2>4. LeftThere'
    BY <1>1, <1>6, <2>2, <2>3, StuckThen DEF LeftThere
  <2>. QED
    BY <2>4 DEF Stuck
<1>. QED
  BY <1>2, <1>3, <1>4, <1>5, <1>6 DEF Stuck

\* What is left of a plan is no more than there was.
Kept == /\ \A c \in DOMAIN table.cols : Spared(c, plan) => Spared(c, plan')
        /\ pc \in Late => pc' \in Late /\ \A n : Barren(n, plan) => Barren(n, plan')

\* A table that only has grown is one a sync is stuck with as before.
LEMMA StuckKept ==
    ASSUME site' = site, schema' = schema, Grown(table, table'), Stuck, pc = "idle" => pc' = "idle", Kept
    PROVE  Stuck'
<1>1. Gains(table, table') /\ \A c : AsBefore(c, table, table')
  BY DEF Grown, Gains, AsBefore
<1>2. Undisturbed
  BY <1>1 DEF Undisturbed, Grown, Kept
<1>. QED
  BY <1>2, StuckStays

\* A part of a plan spares what the plan spares, and creates and drops no more.
LEMMA PartIsKept ==
    ASSUME \A x \in ToSet(plan') : \E y \in ToSet(plan) : x.op = y.op /\ x.name = y.name, pc' = pc
    PROVE  Kept
<1>1. \A x, y : x.op = y.op => (IndexOp(x) <=> IndexOp(y)) /\ (Creates(x) <=> Creates(y))
  BY DEF IndexOp, Creates, Removes
<1>2. \A c : Spared(c, plan) => Spared(c, plan')
  BY <1>1 DEF Spared
<1>3. \A n : Barren(n, plan) => Barren(n, plan')
  BY <1>1 DEF Barren
<1>. QED
  BY <1>2, <1>3 DEF Kept

\* A table has grown by nothing.
LEMMA SameGrows == ASSUME NEW t PROVE Grown(t, t)
  BY DEF Grown

\* What may come behind the statement at hand.
LEMMA BehindHead ==
    ASSUME NEW T, plan \in Seq(T), plan # <<>>, PlanFits(plan, table)
    PROVE  /\ Head(plan) \in ToSet(plan) /\ Stands(Head(plan), table)
           /\ ColumnOp(Head(plan)) => Spared(Head(plan).name, Tail(plan))
           /\ \A x \in ToSet(Tail(plan)) : x \in ToSet(plan)
           /\ Creates(Head(plan)) => \A x \in ToSet(Tail(plan)) : Creates(x) => x.name # Head(plan).name
<1> DEFINE h == Head(plan)
<1>1. /\ h = plan[1] /\ 1 \in 1 .. Len(plan)
      /\ \A x \in ToSet(Tail(plan)) : x \in ToSet(plan) /\ Apart(h, x)
  BY PlanHead DEF PlanFits
<1>2. h \in ToSet(plan)
  BY HeadOfPlan
<1>3. Stands(h, table)
  BY <1>1 DEF PlanFits
<1> HIDE DEF h
<1>4. ASSUME ColumnOp(h), NEW x \in ToSet(Tail(plan)), x.name = h.name PROVE IndexOp(x)
  <2>1. Apart(h, x) /\ ~IndexOp(h) /\ ~Removes(h)
    BY <1>1, <1>4, Kinds DEF IndexOp
  <2>. QED
    BY <1>4, <2>1 DEF Apart
<1>5. ASSUME Creates(h), NEW x \in ToSet(Tail(plan)), Creates(x) PROVE x.name # h.name
  <2>1. Apart(h, x) /\ IndexOp(x) /\ ~ColumnOp(x) /\ ~Removes(h)
    BY <1>1, <1>5, Kinds DEF IndexOp
  <2>. QED
    BY <1>5, <2>1 DEF Apart
<1>. QED
  BY <1>1, <1>2, <1>3, <1>4, <1>5 DEF Spared, h

\* A statement that fits is refused for what stands in the table.
LEMMA RefusedFor ==
    ASSUME NEW x, x.op \in Ops, NEW t, Fits(t, x), Refused(x, t)
    PROVE  \/ /\ x.op = "CHANGE"
              /\ \/ IsNotNull(x.arg) /\ \E r \in DOMAIN t.rows : x.name \notin t.rows[r]
                 \/ Retyped(t, x.arg)
           \/ x.op = "ADD" /\ NeedsNoRows(x.arg) /\ DOMAIN t.rows # {}
           \/ x.op = "DROP" /\ D # "postgres"
           \/ Creates(x) /\ (MayRepeat(t, x.arg) \/ \E e \in ToSet(x.arg.cols) : MayBeNoJson(t, e))
<1> DEFINE nulls == IsNotNull(x.arg) /\ \E r \in DOMAIN t.rows : x.name \notin t.rows[r]
<1>1. \/ ~Suits(t, x) \/ MayRefuse(t, x) \/ (x.op = "CHANGE" /\ nulls)
  BY DEF Refused
<1>2. CASE x.op = "CHANGE"
  <2>1. MayRefuse(t, x) => Retyped(t, x.arg)
    BY <1>2, Zenon DEF MayRefuse
  <2>2. ~Suits(t, x) => nulls
    <3>1. x.op # "ADD" /\ x.op # "DROP"
      BY <1>2
    <3>. QED
      BY <1>2, <3>1, Zenon DEF Suits
  <2>. QED
    BY <1>1, <1>2, <2>1, <2>2
<1>3. CASE x.op = "ADD"
  <2>1. x.op # "CHANGE" /\ x.op # "DROP" /\ x.op # "CREATE INDEX"
    BY <1>3
  <2>2. ~MayRefuse(t, x)
    BY <2>1, Zenon DEF MayRefuse
  <2>3. ~Suits(t, x) => NeedsNoRows(x.arg) /\ DOMAIN t.rows # {}
    BY <1>3, <2>1, Zenon DEF Suits
  <2>. QED
    BY <1>1, <1>3, <2>1, <2>2, <2>3
<1>4. CASE x.op = "DROP"
  <2>1. x.op # "CHANGE" /\ x.op # "ADD" /\ x.op # "CREATE INDEX"
    BY <1>4
  <2>2. MayRefuse(t, x) => D # "postgres"
    BY <1>4, <2>1, Zenon DEF MayRefuse
  <2>3. ~Suits(t, x) => D = "sqlite"
    BY <1>4, <2>1, Zenon DEF Suits
  <2>. QED
    BY <1>1, <1>4, <2>1, <2>2, <2>3
<1>5. CASE Creates(x)
  <2>1. x.op = "CREATE INDEX" /\ x.op # "CHANGE" /\ x.op # "ADD" /\ x.op # "DROP"
    BY <1>5 DEF Creates
  <2>2. MayRefuse(t, x) => MayRepeat(t, x.arg) \/ \E e \in ToSet(x.arg.cols) : MayBeNoJson(t, e)
    BY <2>1, Zenon DEF MayRefuse
  <2>3. Suits(t, x)
    BY <2>1, Zenon DEF Suits
  <2>. QED
    BY <1>1, <1>5, <2>1, <2>2, <2>3
<1>6. CASE x.op \in {"CREATE TABLE", "DROP INDEX"}
  <2>1. x.op # "CREATE INDEX" /\ x.op # "CHANGE" /\ x.op # "ADD" /\ x.op # "DROP"
    BY <1>6
  <2>2. Suits(t, x) /\ ~MayRefuse(t, x)
    BY <2>1, Zenon DEF Suits, MayRefuse
  <2>. QED
    BY <1>1, <2>1, <2>2
<1>. QED
  BY <1>2, <1>3, <1>4, <1>5, <1>6 DEF Ops, Creates

\* A change that the rows refuse is left undone with what it met.
LEMMA RefusedChange ==
    ASSUME ArgsInv, NEW T, plan \in Seq(T), plan # <<>>, PlanFits(plan, table), Head(plan).op = "CHANGE",
           \/ IsNotNull(Head(plan).arg) /\ \E r \in DOMAIN table.rows : Head(plan).name \notin table.rows[r]
           \/ Retyped(table, Head(plan).arg)
    PROVE  \E i \in 1 .. Len(Fields) : Held(Fields[i], table) /\ Spared(Fields[i].field, Tail(plan))
<1> DEFINE h == Head(plan)
<1>1. h \in ToSet(plan) /\ Stands(h, table) /\ (ColumnOp(h) => Spared(h.name, Tail(plan)))
  BY BehindHead
<1>2. h.op = "CHANGE" /\ (NullAt(h.arg, table) \/ Retyped(table, h.arg) \/ h.arg.field # h.name)
  BY DEF NullAt
<1> HIDE DEF h
<1>3. FieldOp(h) /\ ColumnOp(h) /\ ~Builds(h)
  BY <1>2, Kinds DEF FieldOp, ColumnOp
<1>4. PICK i \in 1 .. Len(Fields) : h.arg = Fields[i] /\ h.name = Fields[i].field
  BY <1>1, <1>3 DEF ArgsInv, ForField
<1>5. table.exists /\ h.name \in DOMAIN table.cols
  BY <1>1, <1>2, <1>3 DEF Stands
<1>. QED
  BY <1>1, <1>2, <1>3, <1>4, <1>5 DEF Held

\* A new column the rows have no value for is not added.
LEMMA RefusedAdd ==
    ASSUME ArgsInv, NEW x \in ToSet(plan), x.op = "ADD", Stands(x, table), NeedsNoRows(x.arg), DOMAIN table.rows # {}
    PROVE  Unfilled
<1>1. FieldOp(x) /\ ~Builds(x)
  BY DEF FieldOp, Builds
<1>2. PICK i \in 1 .. Len(Fields) : x.arg = Fields[i] /\ x.name = Fields[i].field
  BY <1>1 DEF ArgsInv, ForField
<1>3. table.exists /\ x.name \notin DOMAIN table.cols
  BY <1>1 DEF Stands
<1>. QED
  BY <1>2, <1>3 DEF Unfilled, Unfit

\* An index that is refused is not there, and nothing that is left creates it.
LEMMA RefusedIndex ==
    ASSUME IndexesInv, FitInv, pc \in Executing, NEW T, plan \in Seq(T), plan # <<>>, PlanFits(plan, table),
           Creates(Head(plan)), Fits(table, Head(plan)),
           \/ MayRepeat(table, Head(plan).arg)
           \/ \E e \in ToSet(Head(plan).arg.cols) : MayBeNoJson(table, e)
    PROVE  /\ pc = "indexes" /\ table.exists
           /\ \E n \in Created :
                 /\ Physical[n] \notin DOMAIN table.idx /\ Barren(n, Tail(plan))
                 /\ \/ MayRepeat(table, Wanted(n))
                    \/ \E e \in ToSet(Wanted(n).cols) : NoJson(table, e, Tail(plan))
<1> DEFINE h == Head(plan)
<1>1. /\ h \in ToSet(plan) /\ \A x \in ToSet(Tail(plan)) : x \in ToSet(plan)
      /\ \A x \in ToSet(Tail(plan)) : Creates(x) => x.name # h.name
  BY BehindHead
<1>2. h.op = "CREATE INDEX"
  BY DEF Creates
<1>3. table.exists /\ h.name \notin DOMAIN table.idx
  BY <1>2, Zenon DEF Fits, h
<1> HIDE DEF h
<1>4. Creates(h)
  BY DEF h
<1>5. pc = "indexes"
  BY <1>1, <1>4 DEF Executing, FitInv
<1>6. \A x \in ToSet(plan) : IndexOp(x) /\ x.op # "DROP"
  BY <1>5, CreationCreates, Kinds DEF IndexesInv, IndexOp, ColumnOp
<1>7. PICK n \in Created : h = Creation(n)
  BY <1>1, <1>4, <1>5, Kinds DEF IndexesInv
<1>8. h.name = Physical[n] /\ h.arg = Wanted(n)
  BY <1>7 DEF Creation, Wanted, Statement
<1>9. Barren(n, Tail(plan))
  BY <1>1, <1>6, <1>8 DEF Barren
<1>10. ASSUME NEW e, MayBeNoJson(table, e) PROVE NoJson(table, e, Tail(plan))
  <2>1. Spared(e.col, Tail(plan))
    BY <1>1, <1>6 DEF Spared
  <2>. QED
    BY <1>10, <2>1 DEF MayBeNoJson, NoJson
<1>11. MayRepeat(table, h.arg) \/ \E e \in ToSet(h.arg.cols) : MayBeNoJson(table, e)
  BY DEF h
<1>12. MayRepeat(table, Wanted(n)) \/ \E e \in ToSet(Wanted(n).cols) : NoJson(table, e, Tail(plan))
  BY <1>8, <1>10, <1>11
<1>. QED
  BY <1>3, <1>5, <1>8, <1>9, <1>12

\* An executed statement takes nothing from a row unless it drops a column.
LEMMA ExecutedGains ==
    ASSUME NEW t, TableOK(t), NEW x, x.op \in Ops, ~Builds(x), x.op # "DROP",
           x.op = "CHANGE" => x.name \in DOMAIN t.cols
    PROVE  Gains(t, Executed(t, x))
<1> DEFINE u == Executed(t, x)
<1>1. Leaves(x, t, u)
  BY ExecutedLeaves
<1> HIDE DEF u
<1>2. CASE IndexOp(x)
  <2>1. DOMAIN u.rows = DOMAIN t.rows /\ \A c : \A r \in DOMAIN t.rows : c \in u.rows[r] <=> c \in t.rows[r]
    BY <1>1, <1>2 DEF Leaves
  <2>. QED
    BY <2>1 DEF Gains, u
<1>3. CASE x.op = "ADD"
  <2> DEFINE cols == Entered(t.cols, x.name, NewColumn(site.server, x.arg))
             rows == [r \in DOMAIN t.rows |->
                IF IsNotNull(x.arg) \/ FieldSpec(D, x.arg).default # "" THEN t.rows[r] \cup {x.name} ELSE t.rows[r]]
  <2>1. u = [t EXCEPT !.cols = cols, !.rows = rows]
    BY <1>3, Zenon DEF Executed, u
  <2>2. \A r \in DOMAIN t.rows : r \in DOMAIN rows /\ t.rows[r] \subseteq rows[r]
    OBVIOUS
  <2> HIDE DEF cols, rows
  <2>3. u = Table(t.exists, cols, t.idx, rows, t.trigger)
    BY <2>1, Replacing
  <2>4. u.rows = rows
    BY <2>3 DEF Table
  <2>. QED
    BY <2>2, <2>4 DEF Gains, u
<1>4. CASE x.op = "CHANGE"
  <2> DEFINE cols == [t.cols EXCEPT ![x.name] = ModifiedColumn(site.server, @, x.arg)]
             rows == [r \in DOMAIN t.rows |-> IF IsNotNull(x.arg) THEN t.rows[r] \cup {x.name} ELSE t.rows[r]]
  <2>1. u = [t EXCEPT !.cols = cols, !.rows = rows]
    BY <1>4 DEF Executed, u
  <2>2. \A r \in DOMAIN t.rows : r \in DOMAIN rows /\ t.rows[r] \subseteq rows[r]
    OBVIOUS
  <2> HIDE DEF cols, rows
  <2>3. u = Table(t.exists, cols, t.idx, rows, t.trigger)
    BY <2>1, Replacing
  <2>4. u.rows = rows
    BY <2>3 DEF Table
  <2>. QED
    BY <2>2, <2>4 DEF Gains, u
<1>. QED
  BY <1>2, <1>3, <1>4 DEF Ops, Builds, IndexOp, Creates, Removes, u

\* An executed statement disturbs nothing that a sync is stuck with.
LEMMA StuckExecute ==
    ASSUME SoundDefinitions, Inv, ArgsInv, Stuck, pc # "idle", pc' = pc, plan # <<>>, plan' = Tail(plan),
           site' = site, schema' = schema, Fits(table, Head(plan)), Suits(table, Head(plan)),
           table' = Executed(table, Head(plan))
    PROVE  Stuck'
<1> DEFINE h == Head(plan)
<1>1. /\ TableOK(table) /\ ListOK(plan, Fields) /\ schema \in DOMAIN Schemas
      /\ site \in [server : Servers, allowDrop : BOOLEAN, family : Families]
  BY DEF Inv, PlanInv, TablesInv
<1>2. h \in ToSet(plan) /\ ToSet(plan') \subseteq ToSet(plan) /\ StatementOK(h, Fields)
  BY <1>1, HeadOfPlan DEF ListOK
<1> HIDE DEF h
<1>3. table.exists
  BY DEF Stuck, Unfilled, Unfit, LeftColumn, Held, LeftIndex, LeftThere
<1>4. ~Builds(h)
  BY <1>3 DEF Fits, Builds, h
<1>5. h.op \in {"CHANGE", "DROP"} => h.name \in DOMAIN table.cols
  BY DEF Fits, h
<1>6. Leaves(h, table, table')
  BY <1>1, <1>2, <1>4, <1>5, ExecutedLeaves DEF StatementOK, h
<1>7. \A c : c # h.name \/ IndexOp(h) => AsBefore(c, table, table')
  BY <1>6 DEF Leaves, AsBefore
<1>8. Kept
  <2>1. \A x \in ToSet(plan') : \E y \in ToSet(plan) : x.op = y.op /\ x.name = y.name
    BY <1>2
  <2>. QED
    BY <2>1, PartIsKept
<1>9. ASSUME NEW i \in 1 .. Len(Fields), Unfit(Fields[i], table) PROVE AsBefore(Fields[i].field, table, table')
  <2> DEFINE f == Fields[i]
  <2>1. SUFFICES ASSUME h.name = f.field, ~IndexOp(h) PROVE FALSE
    BY <1>7
  <2>2. f.field \notin DOMAIN table.cols /\ NeedsNoRows(f) /\ DOMAIN table.rows # {}
    BY <1>9 DEF Unfit
  <2>3. h.op = "ADD"
    BY <1>2, <1>4, <1>5, <2>1, <2>2 DEF StatementOK, Ops, Builds, IndexOp, Creates, Removes
  <2>4. PICK k \in 1 .. Len(Fields) : h.arg = Fields[k] /\ h.name = Fields[k].field
    BY <1>2, <2>3 DEF ArgsInv, ForField, FieldOp
  <2>5. h.arg = f
    BY <1>1, <2>1, <2>4, OnlyOne
  <2>6. h.op # "CHANGE" /\ Suits(table, h)
    BY <2>3 DEF h
  <2> HIDE DEF f
  <2>7. NeedsNoRows(f) => DOMAIN table.rows = {}
    BY <2>3, <2>5, <2>6, Zenon DEF Suits
  <2>. QED
    BY <2>2, <2>7
<1>10. ASSUME NEW c \in DOMAIN table.cols, Spared(c, plan) PROVE AsBefore(c, table, table')
  <2>1. c # h.name \/ IndexOp(h)
    BY <1>2, <1>10 DEF Spared
  <2>. QED
    BY <1>7, <2>1
<1>11. ASSUME NEW n, Barren(n, plan)
       PROVE  Gains(table, table') /\ (Physical[n] \in DOMAIN table'.idx => Physical[n] \in DOMAIN table.idx)
  <2>1. h.op # "DROP" /\ (Creates(h) => h.name # Physical[n])
    BY <1>2, <1>11 DEF Barren
  <2>2. Gains(table, table')
    BY <1>1, <1>2, <1>4, <1>5, <2>1, ExecutedGains DEF StatementOK, h
  <2>. QED
    BY <1>6, <2>1, <2>2 DEF Leaves
<1>12. table'.exists = table.exists
  BY <1>6 DEF Leaves
<1>13. Undisturbed
  BY <1>8, <1>9, <1>10, <1>11, <1>12 DEF Undisturbed, Kept
<1>. QED
  BY <1>13, StuckStays

\* A copy is refused for a NULL in a column that becomes NOT NULL.
LEMMA RefusedCopy ==
    ASSUME SoundDefinitions, Inv, KeysInv, ConformInv, pc = "copy", ~CopyFits(CopyOf(table))
    PROVE  \E i \in 1 .. Len(Fields) : Held(Fields[i], table)
<1> DEFINE copy == CopyOf(table)
           rows == [r \in DOMAIN table.rows |->
                (table.rows[r] \cap Copied) \cup {c \in DOMAIN temp.cols \ Copied : temp.cols[c].default # ""}]
           cols == Built(Fields).cols
<1>1. /\ site \in [server : Servers, allowDrop : BOOLEAN, family : Families] /\ schema \in DOMAIN Schemas
      /\ schema \in site.family /\ TableOK(temp) /\ HasKeys(table)
  BY DEF Inv, PlanInv, TablesInv, KeysInv
<1>2. D = "sqlite" /\ table.exists /\ RequiredMissing(table.cols, Fields) = {} /\ temp.cols = cols
  BY DEF ConformInv, Rebuilding
<1>3. site.server = "sqlite"
  BY <1>1, <1>2 DEF D, Dialect
<1>4. copy.cols = cols /\ copy.rows = rows
  <2>1. copy = [temp EXCEPT !.rows = rows]
    BY Zenon DEF CopyOf
  <2> HIDE DEF copy, rows
  <2>2. copy = Table(temp.exists, temp.cols, temp.idx, rows, temp.trigger)
    BY <1>1, <2>1, Replacing
  <2> HIDE DEF cols
  <2>. QED
    BY <1>2, <2>2 DEF Table
<1>5. PICK r \in DOMAIN rows : \E c \in DOMAIN cols : cols[c].null = "NO" /\ c \notin rows[r]
  <2> HIDE DEF rows, cols, copy
  <2>1. ~CopyFits(copy)
    BY DEF copy
  <2>. QED
    BY <1>4, <2>1 DEF CopyFits
<1>6. PICK c \in DOMAIN cols : cols[c].null = "NO" /\ c \notin rows[r]
  BY <1>5
<1>7. cols = [n \in FieldNames(Fields) |-> NewColumn(site.server, FieldNamed(Fields, n))]
  BY Zenon DEF Built
<1>8. c \in FieldNames(Fields)
  BY <1>7
<1>9. PICK i \in 1 .. Len(Fields) : Fields[i].field = c
  BY <1>8 DEF FieldNames
<1> DEFINE f == Fields[i]
           col == NewColumn(site.server, f)
<1>10. cols[c] = col
  <2>1. FieldNamed(Fields, f.field) = f
    BY <1>1, OnlyOne
  <2>2. cols[c] = NewColumn(site.server, FieldNamed(Fields, c))
    <3> HIDE DEF cols
    <3>. QED
      BY <1>7, <1>8
  <2>. QED
    BY <1>9, <2>1, <2>2
<1>11. \E t, e, l : col = [type |-> t, null |-> IF FieldSpec("sqlite", f).notNull THEN "NO" ELSE "YES",
                           key |-> FieldSpec("sqlite", f).key, default |-> FieldSpec("sqlite", f).default,
                           extra |-> e, collation |-> l]
  <2>1. Dialect("sqlite") = "sqlite"
    BY DEF Dialect
  <2>2. col = Stored("sqlite", FieldSpec("sqlite", f))
    BY <1>3, <2>1, Zenon DEF NewColumn
  <2> DEFINE spec == FieldSpec("sqlite", f)
             null == IF spec.notNull \/ (spec.key = "PRI" /\ "sqlite" # "sqlite") THEN "NO" ELSE "YES"
             only == IF spec.notNull THEN "NO" ELSE "YES"
  <2>3. null = only
    OBVIOUS
  <2> HIDE DEF spec, only
  <2>4. \E t, e, l : Stored("sqlite", spec) = [type |-> t, null |-> null, key |-> spec.key,
                              default |-> spec.default, extra |-> e, collation |-> l]
    BY Zenon DEF Stored
  <2> HIDE DEF null, col
  <2>. QED
    BY <2>2, <2>3, <2>4, Zenon DEF spec, only
<1>12. FieldSpec("sqlite", f).notNull = IsNotNull(f)
  <2>1. FieldSpec("sqlite", f) = SqliteFieldSpec(f)
    BY Zenon DEF FieldSpec
  <2>2. SqliteFieldSpec(f).notNull = IsNotNull(f)
    BY Zenon DEF SqliteFieldSpec
  <2>. QED
    BY <2>1, <2>2
<1>13. col.null = "NO" => IsNotNull(f)
  <2> HIDE DEF col, f
  <2>. QED
    BY <1>11, <1>12
<1>14. col.default = FieldSpec("sqlite", f).default
  <2> HIDE DEF col, f
  <2>. QED
    BY <1>11
<1>15. f.default # "" => FieldSpec("sqlite", f).default # ""
  BY <1>1, SoundHere
<1>16. r \in DOMAIN table.rows
  OBVIOUS
<1>17. rows[r] = (table.rows[r] \cap Copied) \cup {k \in DOMAIN temp.cols \ Copied : temp.cols[k].default # ""}
  BY <1>16, Zenon
<1> HIDE DEF rows, col, cols
<1>18. c \in DOMAIN table.cols
  <2>1. SUFFICES ASSUME c \notin DOMAIN table.cols PROVE FALSE
    OBVIOUS
  <2>2. c \notin Copied /\ c \in DOMAIN temp.cols
    BY <1>2, <1>6, <2>1 DEF Copied
  <2>3. temp.cols[c].default = ""
    BY <1>6, <1>17, <2>2
  <2>4. f.default = "" /\ IsNotNull(f)
    BY <1>2, <1>6, <1>10, <1>13, <1>14, <1>15, <2>3
  <2>5. f.key = "PRI"
    <3>1. f \in {Fields[j] : j \in 1 .. Len(Fields)}
      OBVIOUS
    <3>. QED
      BY <1>2, <1>9, <2>1, <2>4, <3>1, Zenon DEF RequiredMissing
  <2>6. c \in Keys
    BY <1>1, <1>9, <2>5, KeysDeclared
  <2>. QED
    BY <1>1, <1>2, <2>1, <2>6 DEF HasKeys
<1>19. c \in Copied
  BY <1>8, <1>18 DEF Copied
<1>20. c \notin table.rows[r]
  BY <1>6, <1>17, <1>19
<1>. QED
  BY <1>2, <1>6, <1>9, <1>10, <1>13, <1>16, <1>18, <1>20 DEF NullAt, Held

\* The labels at which a sync has had nothing to report yet.
Quiet == pc \in {"inspect", "begin"} \cup Rebuilding

\* A preflight check reports the NULLs it has found, which then stay.
LEMMA CausePreflight ==
    ASSUME Inv, NotesInv, ArgsInv, FitInv, CauseInv, Preflight
    PROVE  CauseInv'
<1>1. /\ pc = "columns" /\ pc' = pc /\ plan # <<>> /\ Head(plan).check
      /\ UNCHANGED <<site, schema, table>>
      /\ \/ /\ plan' = Tail(plan) /\ errors' /\ sync' = sync
            /\ \E r \in DOMAIN table.rows : Head(plan).name \notin table.rows[r]
         \/ plan' = [plan EXCEPT ![1].check = FALSE] /\ errors' = errors /\ sync' = sync
         \/ sync' = Faulty
  BY DEF Preflight
<1>2. ListOK(plan, Fields)
  BY DEF Inv, PlanInv
<1>3. ~Quiet'
  BY <1>1 DEF Quiet, Rebuilding
<1>4. SUFFICES ASSUME ~sync'.faulty, errors' PROVE Stuck'
  BY <1>3 DEF CauseInv, Quiet
<1>5. sync' = sync /\ ~sync.faulty
  BY <1>1, <1>4, FitFaulty
<1>6. CASE errors
  <2>1. Stuck
    BY <1>5, <1>6 DEF CauseInv
  <2>2. \A x \in ToSet(plan') : \E y \in ToSet(plan) : SameStatement(x, y)
    <3>1. CASE plan' = Tail(plan)
      <4>1. ToSet(plan') \subseteq ToSet(plan)
        BY <1>1, <1>2, <3>1, HeadOfPlan DEF ListOK
      <4>. QED
        BY <4>1 DEF SameStatement
    <3>2. CASE plan' = [plan EXCEPT ![1].check = FALSE]
      BY <1>1, <1>2, <3>2, CountedFits
    <3>. QED
      BY <1>1, <1>4, <1>5, <3>1, <3>2, FitFaulty
  <2>3. Kept
    BY <1>1, <2>2, PartIsKept DEF SameStatement
  <2>4. Grown(table, table')
    BY <1>1, SameGrows
  <2>. QED
    BY <1>1, <2>1, <2>3, <2>4, StuckKept
<1>7. CASE ~errors
  <2>1. /\ plan' = Tail(plan) /\ \E r \in DOMAIN table.rows : Head(plan).name \notin table.rows[r]
    BY <1>1, <1>4, <1>5, <1>7, FitFaulty
  <2>2. PlanFits(plan, table)
    BY <1>1, <1>5, <1>7 DEF FitInv, Smooth, Executing
  <2>3. Stands(Head(plan), table)
    BY <1>1, <1>2, <2>2, PlanHead DEF PlanFits, ListOK
  <2>4. Head(plan).op = "CHANGE" /\ IsNotNull(Head(plan).arg)
    BY <1>1, <2>3 DEF Stands
  <2>5. \E i \in 1 .. Len(Fields) : Held(Fields[i], table) /\ Spared(Fields[i].field, Tail(plan))
    BY <1>1, <1>2, <2>1, <2>2, <2>4, RefusedChange DEF ListOK
  <2>6. LeftColumn'
    BY <1>1, <2>1, <2>5, StuckThen
  <2>. QED
    BY <2>6 DEF Stuck
<1>. QED
  BY <1>6, <1>7

\* A statement that is refused leaves what it was refused for.
LEMMA CauseExecute ==
    ASSUME SoundDefinitions, Inv, NotesInv, IndexesInv, ArgsInv, FitInv, StatementsFit, CauseInv, Execute
    PROVE  CauseInv'
<1> DEFINE h == Head(plan)
<1>1. /\ pc \in Issuing /\ pc' = pc /\ plan # <<>> /\ plan' = Tail(plan)
      /\ UNCHANGED <<site, schema>>
      /\ StatementOK(h, Fields)
      /\ \/ /\ Fits(table, h) /\ Suits(table, h)
            /\ table' = Executed(table, h) /\ errors' = errors /\ sync'.faulty = sync.faulty
         \/ /\ table' = table /\ Refused(h, table) /\ sync'.faulty = sync.faulty
            /\ errors' = IF pc = "reissue" THEN errors ELSE TRUE
         \/ sync'.faulty
  BY ExecuteOutcomes
<1>2. ListOK(plan, Fields)
  BY DEF Inv, PlanInv
<1>3. ToSet(plan') \subseteq ToSet(plan) /\ h \in ToSet(plan)
  BY <1>1, <1>2, HeadOfPlan DEF ListOK
<1> HIDE DEF h
<1>4. ~Quiet' /\ pc # "idle"
  BY <1>1 DEF Quiet, Rebuilding, Issuing
<1>5. SUFFICES ASSUME ~sync'.faulty, errors' PROVE Stuck'
  BY <1>4 DEF CauseInv, Quiet
<1>6. ~sync.faulty
  BY <1>1, <1>5
<1>7. CASE Fits(table, h) /\ Suits(table, h) /\ table' = Executed(table, h) /\ errors' = errors
  <2>1. Stuck
    BY <1>5, <1>6, <1>7 DEF CauseInv
  <2>. QED
    BY <1>1, <1>4, <1>7, <2>1, StuckExecute DEF h
<1>8. CASE table' = table /\ Refused(h, table) /\ errors' = IF pc = "reissue" THEN errors ELSE TRUE
  <2>1. CASE errors
    <3>1. Stuck
      BY <1>6, <2>1 DEF CauseInv
    <3>2. Grown(table, table')
      BY <1>8, SameGrows
    <3>3. Kept
      BY <1>1, <1>3, PartIsKept
    <3>. QED
      BY <1>1, <3>1, <3>2, <3>3, StuckKept
  <2>2. CASE ~errors
    <3>1. pc \in Executing
      BY <1>1, <1>5, <1>8, <2>2 DEF Issuing, Executing
    <3>2. Smooth
      BY <1>6, <2>2 DEF Smooth
    <3>3. Fits(table, h) /\ PlanFits(plan, table)
      BY <1>1, <3>1, <3>2 DEF StatementsFit, FitInv, h
    <3>4. plan \in Seq(ToSet(plan)) /\ plan # <<>>
      BY <1>1, <1>2 DEF ListOK
    <3>5. Stands(h, table) /\ (ColumnOp(h) => Spared(h.name, Tail(plan)))
      BY <3>3, <3>4, BehindHead DEF h
    <3>6. CASE /\ h.op = "CHANGE"
               /\ \/ IsNotNull(h.arg) /\ \E r \in DOMAIN table.rows : h.name \notin table.rows[r]
                  \/ Retyped(table, h.arg)
      <4>1. \E i \in 1 .. Len(Fields) : Held(Fields[i], table) /\ Spared(Fields[i].field, Tail(plan))
        BY <3>3, <3>4, <3>6, RefusedChange DEF h
      <4>2. LeftColumn'
        BY <1>1, <1>8, <4>1, StuckThen
      <4>. QED
        BY <4>2 DEF Stuck
    <3>7. CASE h.op = "ADD" /\ NeedsNoRows(h.arg) /\ DOMAIN table.rows # {}
      <4>1. Unfilled
        BY <1>3, <3>5, <3>7, RefusedAdd
      <4>2. Unfilled'
        BY <1>1, <1>8, <4>1, StuckThen DEF Unfilled
      <4>. QED
        BY <4>2 DEF Stuck
    <3>8. CASE h.op = "DROP" /\ D # "postgres"
      <4>1. site.allowDrop /\ h.name \notin FieldNames(Fields)
        BY <1>3, <3>8 DEF ArgsInv, ForField
      <4>2. ColumnOp(h) /\ ~Builds(h)
        BY <3>8, Kinds DEF ColumnOp
      <4>3. table.exists /\ h.name \in DOMAIN table.cols /\ Spared(h.name, plan')
        BY <1>1, <3>5, <3>8, <4>2 DEF Stands
      <4>4. LeftThere'
        BY <1>1, <1>8, <3>8, <4>1, <4>3, StuckThen
      <4>. QED
        BY <4>4 DEF Stuck
    <3>9. CASE /\ Creates(h)
               /\ MayRepeat(table, h.arg) \/ \E e \in ToSet(h.arg.cols) : MayBeNoJson(table, e)
      <4>1. /\ pc = "indexes" /\ table.exists
            /\ \E n \in Created :
                  /\ Physical[n] \notin DOMAIN table.idx /\ Barren(n, Tail(plan))
                  /\ \/ MayRepeat(table, Wanted(n))
                     \/ \E e \in ToSet(Wanted(n).cols) : NoJson(table, e, Tail(plan))
        BY <3>1, <3>3, <3>4, <3>9, RefusedIndex DEF h
      <4>2. LeftIndex'
        BY <1>1, <1>8, <4>1, StuckThen DEF Late
      <4>. QED
        BY <4>2 DEF Stuck
    <3>. QED
      BY <1>1, <1>8, <3>3, <3>6, <3>7, <3>8, <3>9, RefusedFor DEF StatementOK
  <2>. QED
    BY <2>1, <2>2
<1>. QED
  BY <1>1, <1>5, <1>7, <1>8

\* No step reports an error for which nothing stands.
LEMMA CauseStep ==
    ASSUME PlainDefinitions, SoundDefinitions, Inv, NotesInv, ColumnsInv, IndexesInv, ArgsInv, KeysInv, FitInv,
           GuardInv, ConformInv, CauseInv, [Next]_vars
    PROVE  CauseInv'
<1>1. D' = D /\ StatementsFit
  BY SiteKept, FitsNow
<1>2. ASSUME sync'.faulty PROVE CauseInv'
  BY <1>2 DEF CauseInv
<1>3. ASSUME ~errors' PROVE CauseInv'
  BY <1>3 DEF CauseInv
<1>4. ASSUME ~Quiet', Stuck' PROVE CauseInv'
  BY <1>4 DEF CauseInv, Quiet
<1>5. ASSUME site' = site, schema' = schema, table' = table \/ Grown(table, table'), pc = "idle" => pc' = "idle",
             Kept, Stuck
      PROVE  Stuck'
  BY <1>5, StuckKept, SameGrows
<1>6. (\A c : Spared(c, <<>>)) /\ (\A n : Barren(n, <<>>))
  BY Nothing DEF Spared, Barren
<1>7. ASSUME Ending PROVE ~Quiet' /\ Kept
  BY <1>6, <1>7 DEF Ending, Quiet, Rebuilding, Kept, Late
<1>8. errors /\ ~sync.faulty => Stuck
  BY DEF CauseInv
<1>9. CASE \E n \in DOMAIN Schemas : StartSync(n)
  BY <1>3, <1>9 DEF StartSync
<1>10. CASE Inspect
  <2>1. table' = table /\ pc = "inspect" /\ site' = site /\ schema' = schema
    BY <1>10 DEF Inspect
  <2>2. Fields' = Fields
    BY <2>1, FieldsKept
  <2>3. sync' = sync /\ ~sync.faulty => ~errors
    BY <2>1 DEF CauseInv
  <2>4. SUFFICES ASSUME ~sync'.faulty PROVE CauseInv'
    BY <1>2
  <2>5. CASE ~table.exists
    <3>1. errors' = errors /\ sync' = sync
      BY <1>10, <2>5 DEF Inspect
    <3>. QED
      BY <1>3, <2>3, <2>4, <3>1
  <2>6. CASE table.exists
    <3>1. (Ended(TRUE, sync) /\ Throws) \/ Compare \/ ToTrigger(TRUE, Faulty)
      BY <1>10, <2>6 DEF Inspect, Throws
    <3>2. CASE Ended(TRUE, sync) /\ Throws
      <4>1. pc' = "idle"
        BY <3>2 DEF Ended
      <4>2. Throws'
        BY <2>1, <2>2, <3>2, Zenon DEF Throws
      <4>. QED
        BY <1>4, <4>1, <4>2 DEF Quiet, Rebuilding, Stuck
    <3>3. CASE Compare
      <4>1. \/ /\ D = "sqlite" /\ sync' = sync
               /\ \/ /\ pc' = "columns" /\ plan' = <<>>
                     /\ \E i \in 1 .. Len(Fields) : Fields[i].field \in DOMAIN table.cols /\ RebuildIsBarred(table, Fields[i])
                  \/ errors' = errors
            \/ errors' = errors /\ (sync' = sync \/ sync' = Faulty)
        BY <2>1, <2>6, <3>3, CompareOutcomes
      <4>2. CASE errors' = errors
        BY <1>3, <2>3, <2>4, <4>1, <4>2, FitFaulty
      <4>3. CASE /\ pc' = "columns" /\ plan' = <<>>
                 /\ \E i \in 1 .. Len(Fields) : Fields[i].field \in DOMAIN table.cols /\ RebuildIsBarred(table, Fields[i])
        <5>1. PICK i \in 1 .. Len(Fields) : Fields[i].field \in DOMAIN table.cols /\ RebuildIsBarred(table, Fields[i])
          BY <4>3
        <5>2. Held(Fields[i], table') /\ Spared(Fields[i].field, plan')
          BY <1>6, <2>1, <2>6, <4>3, <5>1 DEF Held
        <5>3. LeftColumn'
          BY <2>1, <5>2, StuckThen
        <5>. QED
          BY <1>4, <4>3, <5>3 DEF Quiet, Rebuilding, Stuck
      <4>. QED
        BY <4>1, <4>2, <4>3
    <3>4. CASE ToTrigger(TRUE, Faulty)
      <4>1. sync'.faulty
        BY <3>4, NotesAreOK, FitFaulty, EndedIs DEF NotesInv
      <4>. QED
        BY <2>4, <4>1
    <3>. QED
      BY <3>1, <3>2, <3>3, <3>4
  <2>. QED
    BY <2>5, <2>6
<1>11. CASE Preflight
  BY <1>11, CausePreflight
<1>12. CASE Execute
  BY <1>1, <1>12, CauseExecute
<1>13. CASE Begin
  <2>1. pc = "begin" /\ ((errors' = errors /\ sync'.faulty = sync.faulty) \/ sync'.faulty)
    <3>1. [sync EXCEPT !.issued = TRUE].faulty = sync.faulty
      BY DEF NotesInv, NoteOK
    <3>2. Ended(TRUE, Faulty) => sync'.faulty
      BY NotesAreOK, FitFaulty, EndedIs DEF NotesInv
    <3>. QED
      BY <1>13, <3>1, <3>2 DEF Begin
  <2>. QED
    BY <1>2, <1>3, <2>1 DEF CauseInv
<1>14. CASE RebuildStep
  <2>1. pc \in Rebuilding /\ errors' = errors /\ sync' = sync
    BY <1>14 DEF RebuildStep, Rebuilding
  <2>. QED
    BY <1>2, <1>3, <2>1 DEF CauseInv
<1>15. CASE Undo
  <2>1. /\ pc \in Rebuilding /\ pc' = "columns" /\ plan' = plan /\ table' = saved /\ site' = site /\ schema' = schema
        /\ sync' = Faulty \/ (pc = "copy" /\ ~CopyFits(CopyOf(table)))
    BY <1>15 DEF Undo, Rebuilding
  <2>2. CASE sync' = Faulty
    BY <1>2, <2>2, FitFaulty
  <2>3. CASE pc = "copy" /\ ~CopyFits(CopyOf(table))
    <3>1. plan' = <<>> /\ table' = table
      BY <2>1, <2>3 DEF FitInv, Inv, OwedInv
    <3>2. PICK i \in 1 .. Len(Fields) : Held(Fields[i], table)
      BY <2>3, RefusedCopy
    <3>3. LeftColumn'
      BY <1>6, <2>1, <3>1, <3>2, StuckThen
    <3>. QED
      BY <1>4, <2>1, <3>3 DEF Quiet, Rebuilding, Stuck
  <2>. QED
    BY <2>1, <2>2, <2>3
<1>16. CASE ReadIndexes
  <2>1. /\ pc = "columns" /\ plan = <<>> /\ table' = table /\ site' = site /\ schema' = schema
        /\ \/ /\ plan' = IndexPass(site.server, Fields, Schemas[schema].indexes, TableName, table.idx)
              /\ pc' = "indexes" /\ errors' = errors /\ sync' = sync
           \/ ToTrigger(TRUE, Faulty)
           \/ ~table.exists /\ ToTrigger(TRUE, sync)
    BY <1>16 DEF ReadIndexes
  <2>2. CASE /\ plan' = IndexPass(site.server, Fields, Schemas[schema].indexes, TableName, table.idx)
             /\ pc' = "indexes" /\ errors' = errors /\ sync' = sync
    <3>1. Kept
      BY <2>1, <2>2, PassOfIndexes DEF Spared, Kept, Late
    <3>2. ~Quiet'
      BY <2>2 DEF Quiet, Rebuilding
    <3>. QED
      BY <1>2, <1>3, <1>4, <1>5, <1>8, <2>1, <2>2, <3>1, <3>2
  <2>3. CASE ToTrigger(TRUE, Faulty)
    <3>1. sync'.faulty
      BY <2>3, NotesAreOK, FitFaulty, EndedIs DEF NotesInv
    <3>. QED
      BY <1>2, <3>1
  <2>4. CASE ~table.exists /\ ToTrigger(TRUE, sync)
    <3>1. Ending /\ sync'.faulty = sync.faulty
      BY <2>4, EndedIs DEF NotesInv, Ending
    <3>2. errors
      <4> DEFINE x == Statement("CREATE TABLE", TableName, Fields)
      <4>1. plan # <<x>>
        <5> HIDE DEF x
        <5>. QED
          BY <2>1
      <4>. QED
        BY <2>1, <2>4, <4>1 DEF ColumnsInv
    <3>. QED
      BY <1>2, <1>4, <1>5, <1>7, <1>8, <2>1, <3>1, <3>2
  <2>. QED
    BY <2>1, <2>2, <2>3, <2>4
<1>17. CASE Verify
  <2>1. /\ pc = "indexes" /\ plan = <<>> /\ table' = table /\ site' = site /\ schema' = schema
        /\ \/ /\ plan' = MissingColumns(table.cols, changed)
              /\ pc' = "reissue" /\ errors' = errors /\ sync' = sync
           \/ ToTrigger(errors, sync)
           \/ ToTrigger(errors, [Faulty EXCEPT !.blind = TRUE])
    BY <1>17 DEF Verify
  <2>2. CASE /\ plan' = MissingColumns(table.cols, changed)
             /\ pc' = "reissue" /\ errors' = errors /\ sync' = sync
    <3>1. Kept
      <4>1. changed \in Seq(ToSet(changed))
        BY DEF Inv, PlanInv, ListOK
      <4>2. \A x \in ToSet(plan') : x \in ToSet(changed) /\ x.name \notin DOMAIN table.cols
        BY <2>2, <4>1, MissingAreMissing
      <4>3. \A x \in ToSet(plan') : x.op # "DROP" /\ ~Creates(x)
        BY <4>2 DEF IndexesInv, Touches, Creates
      <4>. QED
        BY <2>2, <4>2, <4>3 DEF Spared, Barren, Kept, Late
    <3>2. ~Quiet'
      BY <2>2 DEF Quiet, Rebuilding
    <3>. QED
      BY <1>2, <1>3, <1>4, <1>5, <1>8, <2>1, <2>2, <3>1, <3>2
  <2>3. CASE ToTrigger(errors, sync) \/ ToTrigger(errors, [Faulty EXCEPT !.blind = TRUE])
    <3>1. Ending /\ errors' = errors /\ (sync'.faulty \/ sync'.faulty = sync.faulty)
      <4>1. NoteOK(sync) /\ NoteOK([Faulty EXCEPT !.blind = TRUE]) /\ errors \in BOOLEAN
        BY NotesAreOK DEF NotesInv
      <4>2. [Faulty EXCEPT !.blind = TRUE].faulty
        BY DEF NotesInv, NoteOK, Faulty
      <4>. QED
        BY <2>3, <4>1, <4>2, EndedIs DEF Ending
    <3>. QED
      BY <1>2, <1>3, <1>4, <1>5, <1>7, <1>8, <2>1, <3>1
  <2>. QED
    BY <2>1, <2>2, <2>3
<1>18. CASE VerifyAgain
  <2>1. /\ pc = "reissue" /\ table' = table /\ site' = site /\ schema' = schema
        /\ \/ ToTrigger(errors \/ MissingColumns(table.cols, changed) # <<>>, sync)
           \/ ToTrigger(errors, [Faulty EXCEPT !.blind = TRUE])
    BY <1>18 DEF VerifyAgain
  <2>2. Ending /\ (sync'.faulty \/ sync'.faulty = sync.faulty)
    BY <2>1, EndedAtLast DEF Ending
  <2>3. ~sync.faulty => errors
    BY <2>1 DEF ConformInv
  <2>. QED
    BY <1>2, <1>4, <1>5, <1>7, <1>8, <2>1, <2>2, <2>3
<1>19. CASE AttachTrigger \/ Crash
  <2>1. \/ pc = "trigger" /\ Ended(errors, sync) /\ site' = site /\ schema' = schema /\ Grown(table, table')
        \/ Ended(TRUE, Faulty)
    BY <1>19, TriggerGrows DEF AttachTrigger, Crash
  <2>2. CASE Ended(TRUE, Faulty)
    <3>1. sync'.faulty
      BY <2>2, NotesAreOK, FitFaulty, EndedIs DEF NotesInv
    <3>. QED
      BY <1>2, <3>1
  <2>3. CASE pc = "trigger" /\ Ended(errors, sync) /\ site' = site /\ schema' = schema /\ Grown(table, table')
    <3>1. Ending /\ errors' = errors /\ sync'.faulty = sync.faulty
      BY <2>3, EndedIs DEF Ending, NotesInv
    <3>. QED
      BY <1>2, <1>3, <1>4, <1>5, <1>7, <1>8, <2>3, <3>1
  <2>. QED
    BY <2>1, <2>2, <2>3
<1>20. CASE (\E r \in Row, full \in BOOLEAN : Insert(r, full)) \/ UNCHANGED vars
  <2>1. UNCHANGED <<site, schema, pc, plan, errors, sync>> /\ Grown(table, table')
    BY <1>20, InsertGrows, SameGrows DEF vars
  <2>2. Kept
    BY <2>1 DEF Kept
  <2>3. Stuck => Stuck'
    BY <1>5, <2>1, <2>2
  <2>. QED
    BY <2>1, <2>3 DEF CauseInv
<1>. QED
  BY <1>9, <1>10, <1>11, <1>12, <1>13, <1>14, <1>15, <1>16, <1>17, <1>18, <1>19, <1>20 DEF Next, Step

\* Beside what CompleteInv says of a sync: what its statements are, that they fit the
\* table one after another, and what an error says of the rows and the definition.
ReasonsInv == KeysInv /\ ArgsInv /\ FitInv /\ GuardInv /\ ConformInv /\ CauseInv

\* A server that was never synced has nothing to give a reason for.
LEMMA ReasonsInit == Init => ReasonsInv
<1>. SUFFICES ASSUME Init PROVE ReasonsInv
  OBVIOUS
<1>1. pc = "idle" /\ ~errors /\ plan = <<>> /\ changed = <<>>
  BY DEF Init
<1>2. ArgsInv
  BY <1>1, Nothing DEF ArgsInv
<1>3. FitInv
  BY <1>1, Nothing DEF FitInv, Executing
<1>4. GuardInv /\ ConformInv
  BY <1>1 DEF GuardInv, ConformInv, Executing, Rebuilding
<1>5. CauseInv
  BY <1>1 DEF CauseInv
<1>. QED
  BY <1>2, <1>3, <1>4, <1>5, KeysInit DEF ReasonsInv

\* It holds of every reachable state: every step keeps each of its parts.
LEMMA ReasonsAlways ==
    ASSUME PlainDefinitions, SoundDefinitions
    PROVE  Spec => []ReasonsInv
<1>1. CompleteInv /\ ReasonsInv /\ [Next]_vars => ReasonsInv'
  BY KeysStep, ArgsStep, FitStep, GuardStep, ConformStep, CauseStep DEF CompleteInv, ReasonsInv
<1>. QED
  BY <1>1, ReasonsInit, CompleteAlways, PTL DEF Spec

\* Until something fails or is reported, whatever earlier syncs left half done, the
\* statement at hand fits the table as it is by then: none drops an index that is
\* not there, creates one twice, over a missing column, or on MySQL over a text
\* column without a length, or lets such a column come about under an index.
THEOREM StatementsAlwaysFit ==
    ASSUME PlainDefinitions, SoundDefinitions
    PROVE  Spec => []StatementsFit
<1>1. CompleteInv /\ ReasonsInv => StatementsFit
  BY FitsNow DEF CompleteInv, ReasonsInv
<1>. QED
  BY <1>1, CompleteAlways, ReasonsAlways, PTL

\* What is in the way of a statement, of what a table is stuck with.
LEMMA StuckHasACause ==
    ASSUME Stuck, pc = "idle"
    PROVE  \/ \E i \in 1 .. Len(Fields) : ColumnCause(table, Fields[i])
           \/ \E n \in Created : IndexCause(table, n)
           \/ site.allowDrop /\ D # "postgres" /\ ~(DOMAIN table.cols \subseteq FieldNames(Fields))
<1>1. ASSUME NEW f, Unfit(f, table) PROVE ColumnCause(table, f)
  BY <1>1, Zenon DEF Unfit, ColumnCause
<1>2. ASSUME NEW f, f.field \in DOMAIN table.cols, ComparisonThrows(table.cols[f.field], f) PROVE ColumnCause(table, f)
  BY <1>2, Zenon DEF ColumnCause
<1>3. ASSUME NEW f, Held(f, table) PROVE ColumnCause(table, f)
  BY <1>3, Zenon DEF Held, NullAt, ColumnCause
<1>4. ASSUME NEW e, NoJson(table, e, plan) PROVE MayBeNoJson(table, e)
  BY <1>4 DEF NoJson, MayBeNoJson
<1>5. LeftIndex => \E n \in Created : IndexCause(table, n)
  BY <1>4 DEF LeftIndex, IndexCause
<1>6. LeftThere => site.allowDrop /\ D # "postgres" /\ ~(DOMAIN table.cols \subseteq FieldNames(Fields))
  BY DEF LeftThere
<1>. QED
  BY <1>1, <1>2, <1>3, <1>5, <1>6 DEF Stuck, Unfilled, Throws, LeftColumn

\* A sync in which nothing failed by accident reports an error only for what the
\* table still shows when it has ended: a column or an index that its rows, a
\* comparison or a barred rebuild stands in the way of, or a column that was to be
\* dropped - for any definitions that are plain and sound, and any rows.
THEOREM EveryErrorHasACause ==
    ASSUME PlainDefinitions, SoundDefinitions
    PROVE  Spec => []ErrorsHaveACause
<1>1. ASSUME CompleteInv, ReasonsInv PROVE ErrorsHaveACause
  <2>1. SUFFICES ASSUME pc = "idle", errors, ~sync.faulty
                 PROVE  \/ \E i \in 1 .. Len(Fields) : ColumnCause(Durable, Fields[i])
                        \/ \E n \in Created : IndexCause(Durable, n)
                        \/ site.allowDrop /\ D # "postgres" /\ ~(DOMAIN Durable.cols \subseteq FieldNames(Fields))
    BY Zenon DEF ErrorsHaveACause
  <2>2. Durable = table
    BY <1>1, <2>1 DEF CompleteInv, Inv, OwedInv, Durable, Rebuilding
  <2>3. Stuck
    BY <1>1, <2>1 DEF ReasonsInv, CauseInv
  <2>. QED
    BY <2>1, <2>2, <2>3, StuckHasACause
<1>. QED
  BY <1>1, CompleteAlways, ReasonsAlways, PTL

-----------------------------------------------------------------------------
(* PromisePool, for any list, concurrency and options                      *)

(***************************************************************************)
(* The pool's inductive invariant.  An item that was drawn has a result,   *)
(* an error or a chain that is calling; a chain returns only when the list *)
(* is drawn; only started chains run; and an answer is either the first    *)
(* error of a pool that throws, or comes after every chain has returned.   *)
(***************************************************************************)
Caller(i) == \E c \in Chains : chain[c] = "calling" /\ drawn[c] = i
DrawnAreKnown == \A c \in Chains : chain[c] = "calling" => drawn[c] < nextIndex
NoneIsLost    == \A i \in Items : i < nextIndex => i \in results \/ i \in Thrown \/ Caller(i)
ReturnAtEnd   == \A c \in Chains : chain[c] = "returned" => nextIndex = Total
OnlyStarted   == \A c \in Chains : c \notin Started => chain[c] = "new"
FirstError ==
    /\ answer = Pending /\ opts.throwErrors => poolErrors = <<>>
    /\ answer.is = "rejected" => poolErrors # <<>> /\ answer.item = Head(poolErrors)
    /\ answer = Fulfilled => poolErrors = <<>>
AnswerAtEnd == answer = Fulfilled \/ (answer # Pending /\ ~opts.throwErrors) => ChainsReturned

PoolInv == /\ PoolTypeOK /\ DrawnAreKnown /\ EachItemOnce /\ NoneIsLost
        /\ ReturnAtEnd /\ OnlyStarted /\ FirstError /\ AnswerAtEnd

\* What drawing an item, or yielding instead, changes.
Moved(c) ==
    /\ nextIndex' \in 0..Total
    /\ chain' \in [Chains -> {"new", "calling", "yielding", "returned", "threw"}]
    /\ drawn' \in [Chains -> Nat] /\ calls' \in [Items -> Nat]
    /\ \A o \in Chains \ {c} : chain'[o] = chain[o] /\ drawn'[o] = drawn[o]
    /\ chain'[c] \in {"calling", "yielding", "returned"}
    /\ chain'[c] = "calling" => drawn'[c] = nextIndex /\ nextIndex' = nextIndex + 1
    /\ chain'[c] # "calling" => nextIndex' = nextIndex
    /\ chain'[c] = "returned" => nextIndex' = Total
    /\ EachItemOnce'

-----------------------------------------------------------------------------
LEMMA DrawMoves ==
    ASSUME PoolTypeOK, EachItemOnce, NEW c \in Chains, Draw(c)
    PROVE  Moved(c)
<1>1. CASE nextIndex < Total
  <2>1. /\ nextIndex' = nextIndex + 1
        /\ chain' = [chain EXCEPT ![c] = "calling"]
        /\ drawn' = [drawn EXCEPT ![c] = nextIndex]
        /\ calls' = [calls EXCEPT ![nextIndex] = @ + 1]
    BY <1>1 DEF Draw
  <2>2. nextIndex \in Items /\ nextIndex' \in 0..Total
    BY <1>1, <2>1, TotalAssumption DEF PoolTypeOK, Items
  <2>3. chain' \in [Chains -> {"new", "calling", "yielding", "returned", "threw"}]
    BY <2>1 DEF PoolTypeOK
  <2>4. drawn' \in [Chains -> Nat] /\ calls' \in [Items -> Nat]
    BY <2>1, <2>2, TotalAssumption DEF PoolTypeOK
  <2>5. EachItemOnce'
    BY <2>1, <2>2, TotalAssumption DEF PoolTypeOK, EachItemOnce, Items
  <2>. QED  BY <2>1, <2>2, <2>3, <2>4, <2>5 DEF Moved, PoolTypeOK
<1>2. CASE ~(nextIndex < Total)
  <2>1. chain' = [chain EXCEPT ![c] = "returned"] /\ UNCHANGED <<nextIndex, drawn, calls>>
    BY <1>2 DEF Draw
  <2>2. nextIndex = Total
    BY <1>2, TotalAssumption DEF PoolTypeOK
  <2>3. EachItemOnce'
    BY <2>1 DEF EachItemOnce
  <2>. QED  BY <2>1, <2>2, <2>3 DEF Moved, PoolTypeOK
<1>. QED  BY <1>1, <1>2

LEMMA YieldOrDrawMoves ==
    ASSUME PoolTypeOK, EachItemOnce, NEW c \in Chains, NEW done, YieldOrDraw(c, done)
    PROVE  Moved(c)
<1>1. CASE opts.yieldEvery > 0 /\ done % opts.yieldEvery = 0
  <2>1. chain' = [chain EXCEPT ![c] = "yielding"] /\ UNCHANGED <<nextIndex, drawn, calls>>
    BY <1>1 DEF YieldOrDraw
  <2>2. EachItemOnce'
    BY <2>1 DEF EachItemOnce
  <2>. QED  BY <2>1, <2>2 DEF Moved, PoolTypeOK
<1>2. CASE ~(opts.yieldEvery > 0 /\ done % opts.yieldEvery = 0)
  BY <1>2, DrawMoves DEF YieldOrDraw
<1>. QED  BY <1>1, <1>2

\* A chain that goes on loses no item, if what it had drawn is accounted for.
LEMMA MovingLosesNothing ==
    ASSUME PoolInv, NEW c \in Chains, Moved(c), c \in Started, opts' = opts,
           results \subseteq results', Thrown \subseteq Thrown',
           chain[c] = "calling" => drawn[c] \in results' \/ drawn[c] \in Thrown'
    PROVE  DrawnAreKnown' /\ NoneIsLost' /\ ReturnAtEnd' /\ OnlyStarted'
<1>1. DrawnAreKnown'
  <2>. SUFFICES ASSUME NEW o \in Chains, chain'[o] = "calling" PROVE drawn'[o] < nextIndex'
    BY DEF DrawnAreKnown
  <2>1. CASE o = c  BY <2>1, TotalAssumption DEF Moved, PoolInv, PoolTypeOK
  <2>2. CASE o # c
    <3>1. chain[o] = "calling" /\ drawn'[o] = drawn[o]
      BY <2>2 DEF Moved
    <3>2. drawn[o] < nextIndex /\ drawn[o] \in Nat
      BY <3>1 DEF PoolInv, DrawnAreKnown, PoolTypeOK
    <3>3. nextIndex' \in Nat /\ nextIndex \in Nat /\ (nextIndex' = nextIndex \/ nextIndex' = nextIndex + 1)
      BY TotalAssumption DEF Moved, PoolInv, PoolTypeOK
    <3>. QED  BY <3>1, <3>2, <3>3
  <2>. QED  BY <2>1, <2>2
<1>2. NoneIsLost'
  <2>. SUFFICES ASSUME NEW i \in Items, i < nextIndex'
                PROVE  i \in results' \/ i \in Thrown' \/ Caller(i)'
    BY DEF NoneIsLost, Items
  <2>1. CASE i < nextIndex
    <3>1. i \in results \/ i \in Thrown \/ Caller(i)
      BY <2>1 DEF PoolInv, NoneIsLost
    <3>2. CASE Caller(i)
      <4>1. PICK o \in Chains : chain[o] = "calling" /\ drawn[o] = i
        BY <3>2 DEF Caller
      <4>2. CASE o = c  BY <4>1, <4>2
      <4>3. CASE o # c  BY <4>1, <4>3 DEF Moved, Caller, Chains
      <4>. QED  BY <4>2, <4>3
    <3>. QED  BY <3>1, <3>2
  <2>2. CASE ~(i < nextIndex)
    <3>1. nextIndex' # nextIndex
      BY <2>2
    <3>2. chain'[c] = "calling" /\ drawn'[c] = nextIndex /\ nextIndex' = nextIndex + 1
      BY <3>1 DEF Moved
    <3>3. i = nextIndex
      BY <2>2, <3>2, TotalAssumption DEF Items, PoolInv, PoolTypeOK
    <3>. QED  BY <3>2, <3>3 DEF Caller, Chains
  <2>. QED  BY <2>1, <2>2
<1>3. ReturnAtEnd'
  <2>. SUFFICES ASSUME NEW o \in Chains, chain'[o] = "returned" PROVE nextIndex' = Total
    BY DEF ReturnAtEnd
  <2>1. CASE o = c  BY <2>1 DEF Moved
  <2>2. CASE o # c
    <3>1. nextIndex = Total
      BY <2>2 DEF Moved, PoolInv, ReturnAtEnd
    <3>2. nextIndex' \in 0..Total /\ (nextIndex' = nextIndex \/ nextIndex' = nextIndex + 1)
      BY DEF Moved
    <3>. QED  BY <3>1, <3>2, TotalAssumption
  <2>. QED  BY <2>1, <2>2
<1>4. OnlyStarted'
  BY DEF PoolInv, OnlyStarted, Moved, Started, Chains
<1>. QED  BY <1>1, <1>2, <1>3, <1>4

\* While a chain runs, nobody has been told that the pool is done.
LEMMA RunningIsUnanswered ==
    ASSUME PoolInv, NEW c \in Chains, c \in Started, chain[c] # "returned"
    PROVE  answer # Fulfilled /\ (~opts.throwErrors => answer = Pending)
BY DEF PoolInv, AnswerAtEnd, ChainsReturned

-----------------------------------------------------------------------------
LEMMA InitPoolInv == PoolInit => PoolInv
<1>. SUFFICES ASSUME PoolInit PROVE PoolInv
  OBVIOUS
<1>1. PoolTypeOK
  BY TotalAssumption DEF PoolInit, PoolTypeOK, Items, Chains
<1>2. DrawnAreKnown /\ EachItemOnce /\ NoneIsLost /\ ReturnAtEnd /\ OnlyStarted
  BY TotalAssumption DEF PoolInit, DrawnAreKnown, EachItemOnce, NoneIsLost, ReturnAtEnd, OnlyStarted, Items
<1>3. FirstError /\ AnswerAtEnd
  BY DEF PoolInit, FirstError, AnswerAtEnd, Pending, Fulfilled
<1>. QED  BY <1>1, <1>2, <1>3 DEF PoolInv

LEMMA StartPoolInv ==
    ASSUME PoolInv, NEW c \in Chains, Start(c)
    PROVE  PoolInv'
<1>1. /\ c \in Started /\ chain[c] = "new" /\ Draw(c)
      /\ UNCHANGED <<opts, completedCount, results, poolErrors, answer>>
  BY DEF Start
<1>2. Moved(c)
  BY <1>1, DrawMoves DEF PoolInv
<1>3. DrawnAreKnown' /\ NoneIsLost' /\ ReturnAtEnd' /\ OnlyStarted'
  <2>1. Thrown' = Thrown
    BY <1>1 DEF Thrown
  <2>. QED  BY <1>1, <1>2, <2>1, MovingLosesNothing
<1>4. PoolTypeOK' /\ EachItemOnce'
  BY <1>1, <1>2 DEF Moved, PoolInv, PoolTypeOK
<1>5. FirstError'
  BY <1>1 DEF PoolInv, FirstError
<1>6. AnswerAtEnd'
  <2>1. answer # Fulfilled /\ (~opts.throwErrors => answer = Pending)
    BY <1>1, RunningIsUnanswered
  <2>. QED  BY <1>1, <2>1 DEF AnswerAtEnd
<1>. QED  BY <1>3, <1>4, <1>5, <1>6 DEF PoolInv

LEMMA ResumePoolInv ==
    ASSUME PoolInv, NEW c \in Chains, Resume(c)
    PROVE  PoolInv'
<1>1. /\ chain[c] = "yielding" /\ Draw(c)
      /\ UNCHANGED <<opts, completedCount, results, poolErrors, answer>>
  BY DEF Resume
<1>2. c \in Started /\ Moved(c)
  BY <1>1, DrawMoves DEF PoolInv, OnlyStarted
<1>3. DrawnAreKnown' /\ NoneIsLost' /\ ReturnAtEnd' /\ OnlyStarted'
  <2>1. Thrown' = Thrown
    BY <1>1 DEF Thrown
  <2>. QED  BY <1>1, <1>2, <2>1, MovingLosesNothing
<1>4. PoolTypeOK' /\ EachItemOnce'
  BY <1>1, <1>2 DEF Moved, PoolInv, PoolTypeOK
<1>5. FirstError'
  BY <1>1 DEF PoolInv, FirstError
<1>6. AnswerAtEnd'
  <2>1. answer # Fulfilled /\ (~opts.throwErrors => answer = Pending)
    BY <1>1, <1>2, RunningIsUnanswered
  <2>. QED  BY <1>1, <2>1 DEF AnswerAtEnd
<1>. QED  BY <1>3, <1>4, <1>5, <1>6 DEF PoolInv

LEMMA ReturnsPoolInv ==
    ASSUME PoolInv, NEW c \in Chains, CallbackReturns(c)
    PROVE  PoolInv'
<1>1. /\ chain[c] = "calling"
      /\ results' = results \cup {drawn[c]}
      /\ completedCount' = completedCount + 1
      /\ YieldOrDraw(c, completedCount + 1)
      /\ UNCHANGED <<opts, poolErrors, answer>>
  BY DEF CallbackReturns
<1>2. c \in Started /\ Moved(c)
  BY <1>1, YieldOrDrawMoves DEF PoolInv, OnlyStarted
<1>3. drawn[c] \in Items
  BY <1>1, TotalAssumption DEF PoolInv, PoolTypeOK, DrawnAreKnown, Items
<1>4. DrawnAreKnown' /\ NoneIsLost' /\ ReturnAtEnd' /\ OnlyStarted'
  <2>1. Thrown' = Thrown
    BY <1>1 DEF Thrown
  <2>. QED  BY <1>1, <1>2, <2>1, MovingLosesNothing
<1>5. PoolTypeOK' /\ EachItemOnce'
  BY <1>1, <1>2, <1>3 DEF Moved, PoolInv, PoolTypeOK
<1>6. FirstError'
  BY <1>1 DEF PoolInv, FirstError
<1>7. AnswerAtEnd'
  <2>1. answer # Fulfilled /\ (~opts.throwErrors => answer = Pending)
    BY <1>1, <1>2, RunningIsUnanswered
  <2>. QED  BY <1>1, <2>1 DEF AnswerAtEnd
<1>. QED  BY <1>4, <1>5, <1>6, <1>7 DEF PoolInv

LEMMA ThrowsPoolInv ==
    ASSUME PoolInv, NEW c \in Chains, CallbackThrows(c)
    PROVE  PoolInv'
<1>1. /\ chain[c] = "calling"
      /\ poolErrors' = Append(poolErrors, drawn[c])
      /\ UNCHANGED <<opts, completedCount, results>>
  BY DEF CallbackThrows
<1>2. c \in Started
  BY <1>1 DEF PoolInv, OnlyStarted
<1>3. drawn[c] \in Items
  BY <1>1, TotalAssumption DEF PoolInv, PoolTypeOK, DrawnAreKnown, Items
<1>4. poolErrors \in Seq(Items) /\ poolErrors' \in Seq(Items)
  BY <1>1, <1>3, AppendProperties DEF PoolInv, PoolTypeOK
<1>5. poolErrors' # <<>> /\ Head(poolErrors') = IF poolErrors = <<>> THEN drawn[c] ELSE Head(poolErrors)
  BY <1>1, <1>3, <1>4
<1>6. Thrown \subseteq Thrown' /\ drawn[c] \in Thrown'
  BY <1>1, <1>3, <1>4 DEF Thrown
<1>7. answer # Fulfilled /\ (~opts.throwErrors => answer = Pending)
  BY <1>1, <1>2, RunningIsUnanswered
<1>8. CASE opts.throwErrors
  <2>1. /\ chain' = [chain EXCEPT ![c] = "threw"]
        /\ answer' = IF answer = Pending THEN Rejected(drawn[c]) ELSE answer
        /\ UNCHANGED <<nextIndex, drawn, calls>>
    BY <1>8 DEF CallbackThrows
  <2>2. PoolTypeOK' /\ EachItemOnce'
    BY <1>1, <1>3, <1>4, <2>1 DEF PoolInv, PoolTypeOK, EachItemOnce
  <2>3. DrawnAreKnown' /\ ReturnAtEnd'
    BY <2>1 DEF PoolInv, PoolTypeOK, DrawnAreKnown, ReturnAtEnd
  <2>4. OnlyStarted'
    BY <1>1, <1>2, <2>1 DEF PoolInv, PoolTypeOK, OnlyStarted, Started, Chains
  <2>5. NoneIsLost'
    <3>. SUFFICES ASSUME NEW i \in Items, i < nextIndex
                  PROVE  i \in results' \/ i \in Thrown' \/ Caller(i)'
      BY <2>1 DEF NoneIsLost, Items
    <3>1. i \in results \/ i \in Thrown \/ Caller(i)
      BY DEF PoolInv, NoneIsLost
    <3>2. CASE Caller(i)
      <4>1. PICK o \in Chains : chain[o] = "calling" /\ drawn[o] = i
        BY <3>2 DEF Caller
      <4>2. CASE o = c  BY <4>1, <4>2, <1>6
      <4>3. CASE o # c  BY <4>1, <4>3, <2>1 DEF PoolInv, PoolTypeOK, Caller, Chains
      <4>. QED  BY <4>2, <4>3
    <3>. QED  BY <1>1, <1>6, <3>1, <3>2
  <2>6. FirstError'
    <3>1. CASE answer = Pending
      <4>1. poolErrors = <<>> /\ answer' = Rejected(drawn[c])
        BY <1>8, <2>1, <3>1 DEF PoolInv, FirstError
      <4>. QED  BY <4>1, <1>5 DEF FirstError, Rejected, Pending, Fulfilled
    <3>2. CASE answer # Pending
      <4>1. answer.is = "rejected"
        BY <1>7, <3>2 DEF PoolInv, PoolTypeOK, Rejected
      <4>2. poolErrors # <<>> /\ answer.item = Head(poolErrors)
        BY <4>1 DEF PoolInv, FirstError
      <4>3. answer' = answer
        BY <2>1, <3>2
      <4>. QED  BY <1>5, <1>7, <3>2, <4>2, <4>3 DEF FirstError
    <3>. QED  BY <3>1, <3>2
  <2>7. AnswerAtEnd'
    BY <1>1, <1>7, <1>8, <2>1 DEF AnswerAtEnd, Rejected, Fulfilled
  <2>. QED  BY <2>2, <2>3, <2>4, <2>5, <2>6, <2>7 DEF PoolInv
<1>9. CASE ~opts.throwErrors
  <2>1. YieldOrDraw(c, completedCount) /\ UNCHANGED answer
    BY <1>9 DEF CallbackThrows
  <2>2. Moved(c)
    BY <2>1, YieldOrDrawMoves DEF PoolInv
  <2>3. DrawnAreKnown' /\ NoneIsLost' /\ ReturnAtEnd' /\ OnlyStarted'
    BY <1>1, <1>2, <1>6, <2>2, MovingLosesNothing
  <2>4. PoolTypeOK' /\ EachItemOnce'
    BY <1>1, <1>4, <2>1, <2>2 DEF Moved, PoolInv, PoolTypeOK
  <2>5. answer' = Pending /\ opts' = opts
    BY <1>1, <1>7, <1>9, <2>1
  <2>6. FirstError' /\ AnswerAtEnd'
    BY <1>9, <2>5 DEF FirstError, AnswerAtEnd, Pending, Fulfilled
  <2>. QED  BY <2>3, <2>4, <2>6 DEF PoolInv
<1>. QED  BY <1>8, <1>9

LEMMA SettlePoolInv ==
    ASSUME PoolInv, Settle
    PROVE  PoolInv'
<1>1. /\ answer = Pending /\ ChainsReturned
      /\ answer' = IF poolErrors # <<>> THEN Rejected(Head(poolErrors)) ELSE Fulfilled
      /\ UNCHANGED <<opts, nextIndex, completedCount, chain, drawn, results, poolErrors, calls>>
  BY DEF Settle
<1>2. PoolTypeOK'
  <2>1. poolErrors # <<>> => Head(poolErrors) \in Items
    BY DEF PoolInv, PoolTypeOK
  <2>. QED  BY <1>1, <2>1 DEF PoolInv, PoolTypeOK
<1>3. DrawnAreKnown' /\ EachItemOnce' /\ ReturnAtEnd' /\ OnlyStarted'
  BY <1>1 DEF PoolInv, DrawnAreKnown, EachItemOnce, ReturnAtEnd, OnlyStarted, Started
<1>4. NoneIsLost'
  BY <1>1 DEF PoolInv, NoneIsLost, Thrown, Caller
<1>5. FirstError'
  BY <1>1 DEF FirstError, Rejected, Fulfilled, Pending
<1>6. AnswerAtEnd'
  BY <1>1 DEF AnswerAtEnd, ChainsReturned, Started
<1>. QED  BY <1>2, <1>3, <1>4, <1>5, <1>6 DEF PoolInv

LEMMA NextPoolInv == PoolInv /\ [PoolNext]_poolVars => PoolInv'
<1>. SUFFICES ASSUME PoolInv, [PoolNext]_poolVars PROVE PoolInv'
  OBVIOUS
<1>1. CASE Settle  BY <1>1, SettlePoolInv
<1>2. ASSUME NEW c \in Chains, Start(c) \/ CallbackReturns(c) \/ CallbackThrows(c) \/ Resume(c)
      PROVE  PoolInv'
  BY <1>2, StartPoolInv, ReturnsPoolInv, ThrowsPoolInv, ResumePoolInv
<1>3. CASE UNCHANGED poolVars
  BY <1>3 DEF poolVars, PoolInv, PoolTypeOK, DrawnAreKnown, EachItemOnce, NoneIsLost, ReturnAtEnd, OnlyStarted,
              FirstError, AnswerAtEnd, ChainsReturned, Started, Thrown, Caller
<1>. QED  BY <1>1, <1>2, <1>3 DEF PoolNext

THEOREM PoolInvariant == PoolSpec => []PoolInv
BY InitPoolInv, NextPoolInv, PTL DEF PoolSpec

-----------------------------------------------------------------------------
\* Every variable of the pool keeps its type, for any list and any options.
THEOREM PoolTypeCorrect == PoolSpec => []PoolTypeOK
BY PoolInvariant, PTL DEF PoolInv

\* No item is drawn twice or passed over, however many chains draw from the one
\* counter and whenever they yield.
THEOREM OnceEach == PoolSpec => []EachItemOnce
BY PoolInvariant, PTL DEF PoolInv

LEMMA PoolInvAnswers == PoolInv => AnswerIsComplete
<1>. SUFFICES ASSUME PoolInv PROVE AnswerIsComplete
  OBVIOUS
<1>1. ASSUME ChainsReturned
      PROVE  Running = {} /\ (opts.concurrency > 0 => results \cup Thrown = Items)
  <2>1. \A c \in Chains : chain[c] \in {"returned", "new"}
    BY <1>1 DEF PoolInv, OnlyStarted, ChainsReturned
  <2>2. Running = {}
    BY <2>1 DEF Running
  <2>3. ASSUME opts.concurrency > 0, NEW i \in Items
        PROVE  i \in results \/ i \in Thrown
    <3>1. 1 \in Chains /\ 1 \in Started
      <4>1. opts.concurrency \in Nat
        BY OptionsAssumption DEF PoolInv, PoolTypeOK
      <4>. QED  BY <2>3, <4>1, TotalAssumption DEF Items, Chains, Started
    <3>2. nextIndex = Total
      BY <1>1, <3>1 DEF ChainsReturned, PoolInv, ReturnAtEnd
    <3>3. i < nextIndex
      BY <3>2, TotalAssumption DEF Items
    <3>. QED  BY <2>1, <3>3 DEF PoolInv, NoneIsLost, Caller
  <2>4. results \subseteq Items /\ Thrown \subseteq Items
    BY DEF PoolInv, PoolTypeOK, Thrown
  <2>. QED  BY <2>2, <2>3, <2>4
<1>2. ASSUME answer = Fulfilled, opts.concurrency > 0
      PROVE  results = Items /\ poolErrors = <<>>
  <2>1. poolErrors = <<>> /\ ChainsReturned
    BY <1>2 DEF PoolInv, FirstError, AnswerAtEnd
  <2>2. Thrown = {}
    BY <2>1 DEF Thrown
  <2>. QED  BY <1>1, <1>2, <2>1, <2>2
<1>3. answer.is = "rejected" => poolErrors # <<>> /\ answer.item = Head(poolErrors)
  BY DEF PoolInv, FirstError
<1>4. ASSUME answer # Pending, ~opts.throwErrors
      PROVE  Running = {} /\ (opts.concurrency > 0 => results \cup Thrown = Items)
  BY <1>1, <1>4 DEF PoolInv, AnswerAtEnd
<1>. QED  BY <1>2, <1>3, <1>4 DEF AnswerIsComplete

\* A resolved pool has every result, a rejected one names the first error, and a
\* pool that collects its errors answers only when no callback runs any more.
THEOREM Complete == PoolSpec => []AnswerIsComplete
BY PoolInvariant, PoolInvAnswers, PTL
=============================================================================
