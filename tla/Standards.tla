------------------------------ MODULE Standards ------------------------------
(***************************************************************************)
(* Applying an evaluative standard (standard_eval.py): the proposal names a *)
(* benchmark, the facts relied on and a verdict; an answer needs all three, *)
(* grounded and uncontested, following from one another, and confident.     *)
(*                                                                         *)
(* benchmark and verdict are elements or NoElement.                         *)
(***************************************************************************)
EXTENDS Gates

Elements(p) == p.relied \cup ({p.benchmark, p.verdict} \ {NoElement})

StandardGates == <<"decode", "wellformed", "grounding", "contested", "audit", "confidence">>

(* The claim is sound when the benchmark and the facts relied on yield the  *)
(* verdict's literal by one rule, consistently.  An empty verdict is a      *)
(* claim like any other, which no rule yields: it must itself be relied on. *)
StandardSound(p) ==
    LET stated   == {e.literal : e \in p.relied}
        premises == (stated \cup {p.benchmark.literal}) \ {NoLiteral}
        verdict  == p.verdict.literal
    IN  /\ Sound(premises, <<Rule(premises, verdict, {}, NoModality)>>, verdict)
        /\ verdict = NoLiteral => NoLiteral \in stated

StandardOk(p, gate) ==
    CASE gate = "decode"     -> p.decodes
      [] gate = "wellformed" -> p.benchmark # NoElement /\ p.relied # {} /\ p.verdict # NoElement
      [] gate = "grounding"  -> AllGrounded(p.relied \cup {p.benchmark})
      [] gate = "contested"  -> ~p.contested
      [] gate = "audit"      -> StandardSound(p)
      [] gate = "confidence" -> Confident(Elements(p))

EvaluateStandard(p) ==
    LET outcome == Outcome(StandardGates, {"decode", "wellformed", "grounding"},
                           [g \in Range(StandardGates) |-> StandardOk(p, g)])
    IN  IF outcome # "accepted" THEN outcome
        ELSE IF p.met THEN "satisfied" ELSE "not_satisfied"
=============================================================================
