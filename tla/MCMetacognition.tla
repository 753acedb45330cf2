---------------------------- MODULE MCMetacognition ----------------------------
(***************************************************************************)
(* Two proposals of one scope, one of whose texts holds a line separator;   *)
(* two evaluation partitions, of which the second may be left out; two      *)
(* scopes that the sanitiser maps to one file ("team/a" and "team_a", say); *)
(* a host with two interchangeable variables.                               *)
(***************************************************************************)
EXTENDS Metacognition

CONSTANTS p, q, v1, r1, s1, s2, f1, x1, x2

MCProposal == {p, q}
MCVersion == {v1}
MCRef == {r1}
MCScope == {s1, s2}
MCFile == {f1}
MCPartition == {"regression", "holdout"}
MCSlot == {x1, x2}
MCSplitting == {q}

MCOutcomes == {[k \in MCPartition |-> "pass"],
               [k \in MCPartition |-> IF k = "holdout" THEN "absent" ELSE "pass"]}

MCScopeOf == [k \in MCProposal |-> s1]
MCFileOf == [s \in MCScope |-> f1]

Symmetry == Permutations(MCSlot)
=============================================================================
