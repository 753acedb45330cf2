---------------------------- MODULE MCDecisionSpace ----------------------------
(***************************************************************************)
(* decision_space on two and three candidates, every outcome of verify, any *)
(* set of declared attacks between them (to and from an unknown id when two *)
(* are submitted) and every answer defeat can give on each pair.            *)
(***************************************************************************)
EXTENDS DecisionSpace

CONSTANTS c1, c2, c3

MCCandidate == {c1, c2, c3}

MCLists == {<<c1, c2, c3>>, <<c3, c1>>}

(* A self-attack is declarable as well.                                     *)
MCDeclarable == {<<c1, c2>>, <<c2, c1>>, <<c2, c3>>, <<c3, c1>>, <<c1, c1>>}
=============================================================================
