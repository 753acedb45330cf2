------------------------------ MODULE MCGrounded ------------------------------
(***************************************************************************)
(* grounded_labels on every list of at most three distinct nodes and every  *)
(* attack relation over them: 512 relations for three nodes, which include  *)
(* self-attacks, the odd cycle, mutual attacks and reinstatement chains.    *)
(***************************************************************************)
EXTENDS Grounded

CONSTANTS a, b, c

MCNode == {a, b, c}

MCOrders == {s \in UNION {[1..k -> MCNode] : k \in 0..3} :
                \A i, j \in DOMAIN s : s[i] = s[j] => i = j}
=============================================================================
