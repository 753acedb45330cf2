------------------------------- MODULE Chaining -------------------------------
(***************************************************************************)
(* Rules over signed literals: when one applies, the fixpoint of the        *)
(* descriptive ones (subsumption.py), the consistency and falsification     *)
(* methods (methods/critique.py) and the audit every construction and every *)
(* warranted stage submits its claim to (interpret.py).                     *)
(*                                                                         *)
(* A literal is an atom with a sign.  Facts are a set of literals.  A judge *)
(* (a model's answer for a literal that is neither stated nor denied) is    *)
(* the set of literals it affirms.  A rule whose consequence is NoLiteral   *)
(* has the empty consequence, and one whose modality is NoModality is       *)
(* descriptive; rules come in a sequence because the order they are tried   *)
(* in decides what a fixpoint with exceptions derives.                      *)
(***************************************************************************)
EXTENDS Integers, Sequences, FiniteSets, SequencesExt

CONSTANTS NoLiteral,    \* the empty consequence, and the absent candidate
          NoModality    \* the modality of a descriptive rule

Lit(a, p) == [atom |-> a, pos |-> p]

Neg(l) == [l EXCEPT !.pos = ~@]

Rule(conditions, consequence, exceptions, modality) ==
    [conditions |-> conditions, consequence |-> consequence,
     exceptions |-> exceptions, modality |-> modality]

(* Stated, or not denied and affirmed by the judge.                         *)
Holds(l, facts, judge) == l \in facts \/ (Neg(l) \notin facts /\ l \in judge)

Applicable(r, facts, judge) ==
    /\ \A c \in r.conditions : Holds(c, facts, judge)
    /\ \A x \in r.exceptions : ~Holds(x, facts, judge)

(* One pass over the rules, each tested against what stands when its turn   *)
(* comes.                                                                   *)
ChainOnce(rules, facts, judge) ==
    FoldLeft(LAMBDA derived, r :
                 IF /\ r.modality = NoModality /\ r.consequence # NoLiteral
                    /\ Applicable(r, derived, judge)
                 THEN derived \cup {r.consequence} ELSE derived,
             facts, rules)

(* Passes until one derives nothing.  Every pass but the last adds a        *)
(* consequence, so as many passes as there are rules are enough; the code's *)
(* own limit of 1000 passes is not reached with fewer rules than that.      *)
Chain(rules, facts, judge) ==
    LET pass[n \in Nat] == IF n = 0 THEN facts ELSE ChainOnce(rules, pass[n - 1], judge)
    IN  pass[Len(rules)]

Consistent(facts) == \A l \in facts : Neg(l) \notin facts

Falsified(rules, facts) ==
    \E i \in 1..Len(rules) :
        LET r == rules[i]
        IN  /\ r.consequence # NoLiteral
            /\ Applicable(r, facts, {}) /\ Neg(r.consequence) \in facts

(* The audit's verdict "sound": what the premises yield is consistent,      *)
(* contains the claim, and no rule predicts what the premises deny.         *)
Sound(facts, rules, candidate) ==
    LET closure == Chain(rules, facts, {})
    IN  /\ Consistent(closure)
        /\ candidate = NoLiteral \/ candidate \in closure
        /\ ~Falsified(rules, facts)
=============================================================================
