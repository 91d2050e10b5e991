--------------------------- MODULE MCModelObjects ---------------------------
(* Two callers on one server and one on another.                           *)
EXTENDS ModelObjects

CONSTANTS a1, a2, b1, s1, s2

TwoServers == [c \in {a1, a2, b1} |-> IF c = b1 THEN s2 ELSE s1]

Plan(a, aa, b) == [c \in {a1, a2, b1} |-> CASE c = a1 -> a [] c = a2 -> aa [] c = b1 -> b]

(* Two callers share instances, or two servers share the row.              *)
OneServer ==
    Plan(<<{"get"}, {"retry", "remove"}>>,
         <<{"get", "link"}, {"patch", "clear", "delete"}, {"get", "link"}>>, <<>>)
OneRow ==
    Plan(<<{"get"}, {"patch", "retry"}, {"patch"}>>, <<>>,
         <<{"get"}, {"patch"}, {"patch", "delete"}>>)
AllPlans == {OneServer, OneRow}

TwoPatches == {Plan(<<{"get"}, {"patch"}>>, <<>>, <<{"get"}, {"patch"}, {"patch"}>>)}

=============================================================================
