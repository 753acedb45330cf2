--------------------------- MODULE CrossSubsumption ---------------------------
(***************************************************************************)
(* Subsuming facts under a condition in the condition's own dimension, and  *)
(* folding the three-valued results (cross_subsumption.py,                  *)
(* issue_aggregation.py).                                                   *)
(*                                                                         *)
(* A fact space is a record:                                                *)
(*   literals              what is stated or denied, closed world           *)
(*   structural, causal    sequences of edges                               *)
(*   presupposed           the causal links a construction only assumed     *)
(*   flagged, unsettled    the pairs, and the nodes, where the taxonomy is  *)
(*                         known to be incomplete                           *)
(*   relations             a composition table, or NoAlgebra                *)
(* A condition names its dimension, or NoDimension and then the cue its     *)
(* wording gives, if any; left and right are dates or NoDate.               *)
(***************************************************************************)
EXTENDS Chaining, Paths

CONSTANTS NoDimension, NoDate

(* What a condition can be governed by.                                     *)
Dimensions == {"structural", "causal", "temporal", "relational", "intentional"}

ASSUME DimensionsAssumption == NoDimension \notin Dimensions

Verdicts == {"satisfied", "not_satisfied", "open"}

Decided(b) == IF b THEN "satisfied" ELSE "not_satisfied"

(* The search behind a structural condition: every path if the cap allows.  *)
StructuralEdges(edges) ==
    PartAt(edges, {i \in 1..Len(edges) : edges[i].dimension = "structural"})

Reaches(edges, from, to) ==
    LET taxonomy == StructuralEdges(edges)
        n        == Len(taxonomy)
        paths    == ComposePaths(taxonomy, from, n, 1, IF n * n < 200 THEN 200 ELSE n * n)
    IN  from = to \/ \E p \in paths : taxonomy[Last(p)].object = to

(* Mutant: a missing path denies, whatever the taxonomy is flagged with.    *)
DenyUnreached(c, f) == Decided(Reaches(f.structural, c.subject, c.object))

EvalStructural(c, f) ==
    LET reached == Reaches(f.structural, c.subject, c.object)
    IN  IF ~reached /\ (<<c.subject, c.object>> \in f.flagged \/ c.subject \in f.unsettled)
        THEN "open" ELSE Decided(reached)

EvalCausal(c, f) ==
    LET grounded == \E i \in 1..Len(f.causal) : /\ f.causal[i].dimension = "causal"
                                                /\ f.causal[i].subject = c.subject
                                                /\ f.causal[i].object = c.object
    IN  IF ~grounded /\ <<c.subject, c.object>> \in f.presupposed
        THEN "open" ELSE Decided(grounded)

(* Dates are days.                                                          *)
EvalTemporal(c, f) ==
    IF \/ c.op \notin {"before", "after", "on_or_before", "on_or_after"}
       \/ c.left = NoDate \/ c.right = NoDate
    THEN "open"
    ELSE Decided(CASE c.op = "before"       -> c.left < c.right
                   [] c.op = "after"        -> c.right < c.left
                   [] c.op = "on_or_before" -> c.left <= c.right
                   [] c.op = "on_or_after"  -> c.right <= c.left)

EvalRelational(c, f) ==
    IF f.relations = NoAlgebra THEN "open"
    ELSE LET composed == ComposeChain(f.relations, c.chain)
         IN  IF composed.escalated THEN "open"
             ELSE Decided(composed.relation # NoRelation /\ composed.relation = c.expect)

(* The literal a condition asks about, or else what its text says.          *)
Claimed(c) == IF c.literal # NoLiteral THEN c.literal ELSE c.text

EvalIntentional(c, f, judge) == Decided(Holds(Claimed(c), f.literals, judge))

Governing(c) == IF c.dimension # NoDimension THEN c.dimension ELSE c.cue

SubsumeAcross(c, f, judge) ==
    CASE Governing(c) = NoDimension   -> "open"
      [] Governing(c) = "structural"  -> EvalStructural(c, f)
      [] Governing(c) = "causal"      -> EvalCausal(c, f)
      [] Governing(c) = "temporal"    -> EvalTemporal(c, f)
      [] Governing(c) = "relational"  -> EvalRelational(c, f)
      [] Governing(c) = "intentional" -> EvalIntentional(c, f, judge)

-----------------------------------------------------------------------------
(* Mutant: a denied part denies the whole before an open one opens it.      *)
DenialDominates(vs) ==
    IF "not_satisfied" \in vs THEN "not_satisfied"
    ELSE IF "open" \in vs THEN "open" ELSE "satisfied"

(* The one fold of the library, over the set of verdicts folded: open       *)
(* dominates, then denial.                                                  *)
FoldVerdicts(vs) ==
    IF "open" \in vs THEN "open"
    ELSE IF "not_satisfied" \in vs THEN "not_satisfied" ELSE "satisfied"

SubsumeAntecedent(conditions, f, judge) ==
    FoldVerdicts({SubsumeAcross(conditions[i], f, judge) : i \in 1..Len(conditions)})

(* aggregate_issues without an order; issues are [name, verdict].            *)
AggregateIssues(issues) == FoldVerdicts({issues[i].verdict : i \in 1..Len(issues)})
=============================================================================
