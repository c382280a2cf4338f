------------------------------ MODULE MCLimits ------------------------------
(* One user, three addresses and connections in flight, a cap of two.      *)
EXTENDS LimitDispatcher, TLC

CONSTANTS u1, k1, k2, k3
Busy == {c \in Conns : conn[c] # Idle}
Quiet == carried = {} /\ \A u \in Users : revived[u] = {}
Bounded ==
    /\ ~mixed
    /\ Quiet \/ Cardinality(Busy) <= 2
    /\ Cardinality(Busy) = 3 => \A u \in Users : entry[u] => remote[u] = {}
    /\ \A c \in Busy : conn[c].tcp \/ Cardinality(Busy) <= IF Quiet THEN 2 ELSE 1
Symmetry == Permutations(Conns)
=============================================================================
