-------------------------------- MODULE Stages --------------------------------
(***************************************************************************)
(* What a panel case is made of (eval/panel/core.py, case_spec.py) and how  *)
(* each kind of stage computes its verdict (eval/panel/stages.py).          *)
(*                                                                         *)
(* Every stage has a name, a kind, whether it is grounded in a span (if not *)
(* it is a declared gap) and whether it names a warrant; the remaining      *)
(* fields are those of its kind.                                            *)
(***************************************************************************)
EXTENDS CrossSubsumption, Quantities, Standards, Grading

CONSTANT Currencies     \* the units that read as a currency code

NoFacts == [literals |-> {}, structural |-> <<>>, causal |-> <<>>, presupposed |-> {},
            flagged |-> {}, unsettled |-> {}, relations |-> NoAlgebra]

(* A condition put to a stage's own facts.                                  *)
IntentionalStage(st) ==
    EvalIntentional([literal |-> st.literal, text |-> NoLiteral],
                    [NoFacts EXCEPT !.literals = st.present], {})

StructuralStage(st) ==
    EvalStructural([subject |-> st.subject, object |-> st.object],
                   [NoFacts EXCEPT !.structural = st.edges, !.flagged = st.pairs,
                                   !.unsettled = st.nodes])

TemporalStage(st) ==
    EvalTemporal([op |-> st.op, left |-> st.left, right |-> st.right], NoFacts)

QuantStage(st) ==
    EvalThreshold(st.comparator, Threshold(st.value, st.unit, Currencies), st.operand)

(* A proposal that is rejected or escalated leaves the stage open.          *)
StandardStage(st) ==
    LET status == EvaluateStandard(st.proposal)
    IN  IF status \in {"satisfied", "not_satisfied"} THEN status ELSE "open"

(* One premise, propagated: settled only when asserted or inferred.         *)
EpistemicStage(st) ==
    IF st.status \in {"asserted", "inferred"} THEN "satisfied" ELSE "open"

(* A stage names an act its norms are about: resolving an act without a     *)
(* norm raises, and no verdict comes of it.                                 *)
DeonticStage(st) ==
    LET r == Resolution(st.norms, st.pack, st.act)
    IN  CASE r.status = "open" -> "open"
          [] r.status # "open" -> Decided(r.verdict # "prohibited")

(* The last two kinds are stages a host writes on Stage (core.py) around    *)
(* subsume_across and subsume_antecedent, for facts that a harness built.   *)
StageVerdict(st) ==
    CASE st.kind = "intentional" -> IntentionalStage(st)
      [] st.kind = "structural"  -> StructuralStage(st)
      [] st.kind = "temporal"    -> TemporalStage(st)
      [] st.kind = "quant"       -> QuantStage(st)
      [] st.kind = "standard"    -> StandardStage(st)
      [] st.kind = "epistemic"   -> EpistemicStage(st)
      [] st.kind = "deontic"     -> DeonticStage(st)
      [] st.kind = "gap"         -> "open"
      [] st.kind = "built"       -> SubsumeAcross(st.condition, st.facts, {})
      [] st.kind = "antecedent"  -> SubsumeAntecedent(st.conditions, st.facts, {})

Kinds == {"intentional", "structural", "temporal", "quant", "standard", "epistemic", "deontic",
          "gap", "built", "antecedent"}

IsSeq(s) == s \in Seq({s[i] : i \in DOMAIN s})

IsCondition(c) == Governing(c) \in Dimensions \cup {NoDimension}

(* A stage is of a kind that has an evaluator, and asks something it can    *)
(* answer: in a known dimension, of a taxonomy whose edges were built with  *)
(* is_a, or of an act that there are norms for.                             *)
IsStage(st) ==
    /\ st.kind \in Kinds
    /\ st.kind = "structural" =>
          IsSeq(st.edges) /\ \A i \in 1..Len(st.edges) : st.edges[i].dimension = "structural"
    /\ st.kind = "built" => IsCondition(st.condition)
    /\ st.kind = "antecedent" =>
          \A i \in 1..Len(st.conditions) : IsCondition(st.conditions[i])
    /\ st.kind = "deontic" =>
          /\ st.pack \in Seq({"rank", "specificity", "time"})
          /\ LET norms == OfAct(st.norms, st.act)
             IN  norms # <<>> /\ IsSeq(norms) /\ \A i \in 1..Len(norms) : IsNorm(norms[i])

-----------------------------------------------------------------------------
(* A probe expects an honest outcome, never an answer.                      *)
IsProbe(p) == p.expected \in {"escalate", "residual"} /\ p.stages # <<>>

(* The checks a case makes of itself when it is created.                    *)
IsCase(c) ==
    /\ c.kind \in {"statute", "contract", "policy", "moral"}
    /\ c.expected \in Terminals /\ c.stages # <<>> /\ IsSeq(c.stages)
    /\ \A i \in 1..Len(c.stages) : IsStage(c.stages[i])
    /\ \A i, j \in 1..Len(c.stages) : c.stages[i].name = c.stages[j].name => i = j
    /\ c.expected = "residual" => c.options >= 2
    /\ IF c.kind = "policy" THEN c.subgraph # <<>>
       ELSE c.subgraph = <<>> /\ c.closure = <<>> /\ c.presupposed = <<>>
    /\ IsSeq(c.probes) /\ \A i \in 1..Len(c.probes) : IsProbe(c.probes[i])
=============================================================================
