---------------------------- MODULE ReadingHarness ----------------------------
(***************************************************************************)
(* Reading past the words: resolve_gap decides a case the text does not     *)
(* literally reach (gap_fork.py), interpret_element settles what an element *)
(* of it means from the readings of a family of canons (auslegung.py,       *)
(* canons.py).                                                              *)
(***************************************************************************)
EXTENDS Gates

CONSTANT NoReading

ExtensionMoves == {"analogy", "a_fortiori_maiore_minus", "a_fortiori_minori_maius",
                   "teleological_extension"}
Moves          == ExtensionMoves \cup {"e_contrario", "teleological_reduction"}
GapClasses     == {"planned", "planwidrig"}

(* capped says that the text closes its enumeration (only, nur, ...);       *)
(* contraLegem that the model admits to crossing the wording; carries that  *)
(* the analogy's mapping transfers some relation of the like case.          *)
GapElements(p) == {p.gap, p.likeCase, p.similarity} \ {NoElement}

Crosses(p) == (p.move \in ExtensionMoves /\ p.capped) \/ p.contraLegem

(* The similarity, or else all there is, yields the result; a move that     *)
(* denies the result claims nothing.                                        *)
MoveSound(p) ==
    LET premises == {e.literal : e \in GapElements(p)} \ {NoLiteral}
        ground   == ({p.similarity.literal : e \in {p.similarity} \ {NoElement}}) \ {NoLiteral}
    IN  IF p.move \in ExtensionMoves /\ p.result # NoLiteral
        THEN Sound(premises,
                   <<Rule(IF ground = {} THEN premises ELSE ground, p.result, {}, NoModality)>>,
                   p.result)
        ELSE Sound(premises, <<>>, NoLiteral)

GapGates ==
    <<"decode", "grounding", "move", "class", "wortlautgrenze", "routing", "analogy", "audit",
      "confidence">>

GapOk(p, gate) ==
    CASE gate = "decode"         -> p.decodes
      [] gate = "grounding"      -> AllGrounded(GapElements(p))
      [] gate = "move"           -> p.move \in Moves
      [] gate = "class"          -> p.class \in GapClasses
      [] gate = "wortlautgrenze" -> ~Crosses(p)
      [] gate = "routing"        -> p.class = "planned" <=> p.move = "e_contrario"
      [] gate = "analogy"        -> p.move = "analogy" =>
                                       /\ p.likeCase # NoElement /\ p.similarity # NoElement
                                       /\ p.carries
      [] gate = "audit"          -> MoveSound(p)
      [] gate = "confidence"     -> Confident(GapElements(p))

(* An extension carries the consequence to the case; the other moves deny   *)
(* it.                                                                      *)
ResolveGap(p) ==
    LET outcome == Outcome(GapGates, {"decode", "grounding", "move"},
                           [g \in Range(GapGates) |-> GapOk(p, g)])
    IN  CASE outcome # "accepted" -> outcome
          [] outcome = "accepted" -> IF p.move \in ExtensionMoves THEN "resolved" ELSE "not_met"

-----------------------------------------------------------------------------
(* The families of canons: the order they are asked in, the one that breaks *)
(* a tie, and the one the reading may not go beyond ("none": no such).      *)
CanonSets ==
    [civil_law     |-> [canons |-> <<"grammatical", "systematic", "historical", "teleological">>,
                        tiebreaker |-> "teleological", cap |-> "grammatical"],
     common_law    |-> [canons |-> <<"ordinary-meaning", "noscitur-a-sociis", "ejusdem-generis",
                                     "expressio-unius", "purpose">>,
                        tiebreaker |-> "purpose", cap |-> "none"],
     usul_al_fiqh  |-> [canons |-> <<"quran", "sunna", "ijma", "qiyas">>,
                        tiebreaker |-> "quran", cap |-> "none"],
     us_textualist |-> [canons |-> <<"text", "structure", "original-public-meaning">>,
                        tiebreaker |-> "text", cap |-> "none"]]

(* A canon's answer: the facts it relies on, its rules, the reading (or     *)
(* NoReading) and the confidence, -1 when it states none.                   *)
GateCanon(answer) ==
    IF answer.reading = NoReading \/ answer.facts = {} THEN "ungrounded"
    ELSE IF ~Sound(answer.facts, answer.rules, answer.reading) THEN "unsound"
    ELSE IF answer.confidence < 0 THEN "no-confidence"
    ELSE IF CheckConfidence(answer.confidence) # {} THEN "sub-floor"
    ELSE "ok"

(* Mutant: without an answer of its own the cap does not bind.              *)
UncappedReading(set, answers, settled) ==
    LET ok(c)    == GateCanon(answers[c]) = "ok"
        readings == {answers[c].reading : c \in {d \in Range(set.canons) : ok(d)}}
        final    == IF Cardinality(readings) = 1 THEN CHOOSE r \in readings : TRUE
                    ELSE answers[set.tiebreaker].reading
    IN  IF settled # NoReading THEN settled
        ELSE IF readings = {} \/ (Cardinality(readings) > 1 /\ ~ok(set.tiebreaker))
        THEN NoReading ELSE final

(* The reading the surviving canons share, or else the tie-breaker's, when  *)
(* the capping canon survives and its own closure bears it; NoReading is an *)
(* escalation.  answers maps every canon of the set to its answer; a        *)
(* settled element asks none of them.                                       *)
InterpretElement(set, answers, settled) ==
    LET ok(c)    == GateCanon(answers[c]) = "ok"
        readings == {answers[c].reading : c \in {d \in Range(set.canons) : ok(d)}}
        final    == IF Cardinality(readings) = 1 THEN CHOOSE r \in readings : TRUE
                    ELSE answers[set.tiebreaker].reading
        borne    == \/ set.cap = "none"
                    \/ /\ ok(set.cap)
                       /\ final \in Chain(answers[set.cap].rules, answers[set.cap].facts, {})
    IN  IF settled # NoReading THEN settled
        ELSE IF \/ readings = {} \/ (Cardinality(readings) > 1 /\ ~ok(set.tiebreaker))
                \/ ~borne
        THEN NoReading ELSE final
=============================================================================
