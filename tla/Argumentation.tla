---------------------------- MODULE Argumentation ----------------------------
(***************************************************************************)
(* Abstract argumentation frameworks and their labellings: the vocabulary  *)
(* of src/src/loomground_solver/decision.py.                                *)
(*                                                                         *)
(* A framework is a set of nodes and a relation atk on them, <<a, t>> when *)
(* a attacks t.  A labelling maps every node to "in", "out" or "undec".     *)
(* The two tests the engine evaluates (AllOut, SomeIn) are translated from  *)
(* the code; Complete and IsGrounded are the reference definitions of the   *)
(* theory and do not look at the code at all.                               *)
(***************************************************************************)

Label == {"in", "out", "undec"}

Labellings(nodes) == [nodes -> Label]

(* all(label[a] == OUT for a in atk): true for a node without attackers.    *)
AllOut(atk, L, n) == \A a \in DOMAIN L : <<a, n>> \in atk => L[a] = "out"

(* any(label[a] == IN for a in atk).                                        *)
SomeIn(atk, L, n) == \E a \in DOMAIN L : <<a, n>> \in atk /\ L[a] = "in"

-----------------------------------------------------------------------------
(* A labelling is complete when every label is exactly what the attackers'  *)
(* labels call for.                                                         *)
CompleteAt(atk, L, n) == /\ L[n] = "in"  <=> AllOut(atk, L, n)
                         /\ L[n] = "out" <=> SomeIn(atk, L, n)

Complete(atk, L) == \A n \in DOMAIN L : CompleteAt(atk, L, n)

(* L commits to no more than M does: wherever L decides, M agrees.          *)
Below(L, M) == \A n \in DOMAIN L : L[n] # "undec" => M[n] = L[n]

(* The grounded labelling: the complete one that commits to the least.      *)
IsGrounded(nodes, atk, L) ==
    /\ L \in Labellings(nodes)
    /\ Complete(atk, L)
    /\ \A M \in Labellings(nodes) : Complete(atk, M) => Below(L, M)

(* Every decided label rests on decided attackers.                          *)
JustifiedAt(atk, L, n) == /\ L[n] = "in"  => AllOut(atk, L, n)
                          /\ L[n] = "out" => SomeIn(atk, L, n)
=============================================================================
