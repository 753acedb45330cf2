----------------------------- MODULE Reachability -----------------------------
(***************************************************************************)
(* What can be reached along the edges of a finite graph, and graphs without*)
(* a cycle: the reach of an activation and the checks for cycles in         *)
(* src/src/loomground_solver/loomground.py; also the vocabulary in which    *)
(* root_causes (RootCauses) is judged.                                      *)
(***************************************************************************)
EXTENDS Naturals, FiniteSets

(* What can be reached from x along edges, x included.                      *)
Closure(S, edges, x) ==
    LET step[n \in Nat] ==
            IF n = 0 THEN {x}
            ELSE LET before == step[n - 1]
                 IN  before \cup {z \in S : \E y \in before : <<y, z>> \in edges}
    IN  step[Cardinality(S)]

(* _has_cycle finds no edge back to where it was reached from.              *)
Acyclic(S, edges) == \A e \in edges : e[1] \notin Closure(S, edges, e[2])
=============================================================================
