-------------------------- MODULE MCLoadBalancing --------------------------
(* Handles of two and three replicas, and of none; a probe; two changes.    *)
EXTENDS LoadBalancing

CONSTANTS q0, q1, q2, q3, p1, w1, w2

TwoHandles == [q \in {q0, q1, q2, q3} |-> CASE q = q0 -> 0 [] q = q3 -> 3 [] OTHER -> 2]

SomePlans == {{q0, q1, q2, q3, "destroy"}, {q1, q2, w1, "destroy"}, {q1, p1, w1, "destroy"},
              {q1, q3, w1, w2}, {q1, w1, w2, "destroy"}}

=============================================================================
