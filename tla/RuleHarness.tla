----------------------------- MODULE RuleHarness -----------------------------
(***************************************************************************)
(* The three constructions that turn a text into a rule or a term:          *)
(* norm_construction.py, precedent_ratio.py and renewal_construction.py.    *)
(*                                                                         *)
(* A part of a proposal is an element (Gates.tla) with further fields where *)
(* the construction reads them, or NoElement; a result carries its rules in *)
(* a sequence, empty unless the construction is accepted.                   *)
(***************************************************************************)
EXTENDS Gates, Paths

Literals(elements) == {e.literal : e \in elements}

HasLiteral(e) == e # NoElement /\ e.literal # NoLiteral

Yields(outcome, rule) == IF outcome = "accepted" THEN <<rule>> ELSE <<>>

-----------------------------------------------------------------------------
(* construct_norm.  covered says that every word of the text but the        *)
(* framing ones is in some span, exceptional that the text reads like an    *)
(* exception.                                                               *)
NormElements(p) == p.elements \cup p.exceptions \cup ({p.consequence} \ {NoElement})

NormRule(p) == Rule(Literals(p.elements), p.consequence.literal, Literals(p.exceptions),
                    p.modality)

NormGates ==
    <<"decode", "grounding", "wellformed", "faithfulness", "audit", "confidence", "deontic">>

NormOk(p, gate) ==
    CASE gate = "decode"       -> p.decodes
      [] gate = "grounding"    -> AllGrounded(NormElements(p))
      [] gate = "wellformed"   -> HasLiteral(p.consequence) /\ p.elements # {}
      [] gate = "faithfulness" -> /\ p.covered
                                  /\ CheckException([exceptional |-> p.exceptional,
                                                     flagged |-> p.exceptions # {}]) = {}
      [] gate = "audit"        -> Sound(Literals(p.elements),
                                        <<[NormRule(p) EXCEPT !.modality = NoModality]>>,
                                        p.consequence.literal)
      [] gate = "confidence"   -> Confident(NormElements(p))
      [] gate = "deontic"      -> p.modality = NoModality
                                  \/ "escalate" \notin CheckDeontic(p.modal)

ConstructNorm(p) ==
    LET outcome == Outcome(NormGates, {"decode", "grounding", "wellformed"},
                           [g \in Range(NormGates) |-> NormOk(p, g)])
    IN  [status |-> outcome, rules |-> Yields(outcome, NormRule(p))]

-----------------------------------------------------------------------------
(* extract_ratio.  A material fact says whether the holding needed it;      *)
(* candidates counts the ratios the model would defend, stated says that    *)
(* the binding ground is put in words.                                      *)
Necessary(p)    == {e \in p.facts : e.necessary}
RuleElements(p) == Necessary(p) \cup ({p.holding} \ {NoElement})

RatioRule(p) == Rule(Literals(Necessary(p)), p.holding.literal, {}, NoModality)

RatioGates ==
    <<"decode", "grounding", "contestability", "wellformed", "evidence", "warrant", "audit",
      "confidence">>

RatioOk(p, gate) ==
    CASE gate = "decode"         -> p.decodes
      [] gate = "grounding"      -> AllGrounded(p.facts \cup RuleElements(p))
      [] gate = "contestability" -> p.candidates <= 1 /\ ~p.unclear
      [] gate = "wellformed"     -> Necessary(p) # {} /\ HasLiteral(p.holding)
      [] gate = "evidence"       -> AllGrounded(Necessary(p))
      [] gate = "warrant"        -> p.stated
      [] gate = "audit"          -> Sound(Literals(Necessary(p)), <<RatioRule(p)>>,
                                          p.holding.literal)
      [] gate = "confidence"     -> Confident(RuleElements(p))

(* What was said by the way, and the facts the holding did not need, once   *)
(* the ratio is known to be uncontested.                                    *)
Excluded(p) == Literals(p.obiter) \cup Literals(p.facts \ Necessary(p))

(* Mutant: a remark by the way is one more condition.                       *)
AbsorbObiter(p) ==
    LET outcome == Outcome(RatioGates, {"decode", "grounding", "evidence"},
                           [g \in Range(RatioGates) |-> RatioOk(p, g)])
    IN  [status |-> outcome,
         rules  |-> Yields(outcome, Rule(Literals(p.facts \cup p.obiter), p.holding.literal,
                                         {}, NoModality))]

(* An extraction whose rule uses a literal that is also excluded fails the  *)
(* harness's own last assertion, and no result is returned.                 *)
ExtractRatio(p) ==
    LET outcome == Outcome(RatioGates, {"decode", "grounding", "evidence"},
                           [g \in Range(RatioGates) |-> RatioOk(p, g)])
        crashes == outcome = "accepted" /\ Literals(RuleElements(p)) \cap Excluded(p) # {}
    IN  [status |-> IF crashes THEN "crashed" ELSE outcome,
         rules  |-> IF crashes THEN <<>> ELSE Yields(outcome, RatioRule(p))]

-----------------------------------------------------------------------------
(* construct_renewal.  A term says which of start, end and duration it has, *)
(* whether they parse, and whether it ends before it starts; a renewal its  *)
(* kind, whether the spans of the kind and of the notice are in the text,   *)
(* and whether it has a notice; a reversion its right (its literal), the    *)
(* event it is anchored at and whether the event's span is in the text.     *)
RenewalClaims(p) == p.reversions \cup ({p.term, p.renewal} \ {NoElement})

TermWellFormed(t) == /\ ~(t.ends /\ t.lasts)
                     /\ t.starts \/ t.ends \/ t.lasts
                     /\ t.parses

Anchored(r) == r.event # NoLiteral /\ r.eventGrounded

(* The lifecycle as rules: the contract takes effect, the term ends, and    *)
(* then it renews and the rights revert.                                    *)
LifecycleRules(p) ==
    LET then(from, to) == <<Rule({Lit(from, TRUE)}, Lit(to, TRUE), {}, NoModality)>>
        reverting == SetToSeq(p.reversions)
    IN  (IF p.term = NoElement THEN <<>> ELSE then(<<"contract_effective">>, <<"term_end">>))
        \o then(<<"term_end">>, <<"renewal_term">>)
        \o FlattenSeq([i \in 1..Len(reverting) |->
                           then(<<"term_end">>, <<"reversion", reverting[i].event>>)])

RenewalGates ==
    <<"decode", "present", "wellformed", "grounding", "kind", "auto_notice", "anchoring",
      "audit", "confidence", "build">>

RenewalOk(p, gate) ==
    CASE gate = "decode"      -> p.decodes
      [] gate = "present"     -> p.renewal # NoElement
      [] gate = "wellformed"  -> /\ p.term # NoElement => TermWellFormed(p.term)
                                 /\ p.renewal.kind # "none" /\ p.renewal.parses
                                 /\ \A r \in p.reversions : r.literal # NoLiteral
      [] gate = "grounding"   -> /\ AllGrounded(RenewalClaims(p))
                                 /\ p.renewal.notice => p.renewal.noticeGrounded
      [] gate = "kind"        -> p.renewal.kind \in {"auto", "option"} /\ p.renewal.kindGrounded
      [] gate = "auto_notice" -> p.renewal.kind = "auto" => p.renewal.notice
      [] gate = "anchoring"   -> \A r \in p.reversions : Anchored(r)
      [] gate = "audit"       -> Sound({Lit(<<"contract_effective">>, TRUE)}, LifecycleRules(p),
                                       NoLiteral)
      [] gate = "confidence"  -> Confident(RenewalClaims(p))
      [] gate = "build"       -> p.term # NoElement =>
                                     ~(p.term.starts /\ p.term.ends /\ p.term.backwards)

(* A term the types refuse to build is a rejection.                         *)
ConstructRenewal(p) ==
    LET outcome   == Outcome(RenewalGates,
                             {"decode", "present", "wellformed", "grounding", "build"},
                             [g \in Range(RenewalGates) |-> RenewalOk(p, g)])
        reverting == IF outcome = "accepted" THEN SetToSeq(p.reversions) ELSE <<>>
    IN  [status |-> IF outcome = "accepted" THEN "extracted" ELSE outcome,
         edges  |-> [i \in 1..Len(reverting) |->
                        Edge(reverting[i].literal, "reverts-at", reverting[i].event, "temporal",
                             100 - reverting[i].confidence)]]
=============================================================================
