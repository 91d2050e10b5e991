----------------------------- MODULE MCRowWrites -----------------------------
(* Instances of RowWrites for TLC.  An id is tagged with the call it was    *)
(* generated for, so the calls are model values.                            *)
EXTENDS RowWrites

CONSTANTS f1, f2, n1, n2, k1, i1, i2, u1, u2, u3, x1

(* Without a constraint, two finders and those who change what they find,   *)
(* and calls without transactions among themselves; with one, a finder and  *)
(* all who may meet the duplicate key.                                      *)
RowOrKey ==
    {[calls |-> {f1, f2, k1, x1}, unique |-> FALSE],
     [calls |-> {f1, f2, u1, x1}, unique |-> FALSE],
     [calls |-> {n1, n2, x1}, unique |-> FALSE],
     [calls |-> {f1, k1, i1, i2, u2, u3}, unique |-> TRUE]}
    \cup [calls : {{f1, n1, k1, x1}}, unique : BOOLEAN]

FindersOnly == {[calls |-> {f1, f2}, unique |-> FALSE]}

=============================================================================
