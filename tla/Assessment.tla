------------------------------ MODULE Assessment ------------------------------
(***************************************************************************)
(* From a model's reading of a text to a graded answer: a proposal goes     *)
(* through the gates of its harness, the host puts what survives before a   *)
(* panel case whose stages ask conditions of it, and the panel is run,      *)
(* graded, harvested and scored.  A panel may also start with cases that    *)
(* carry their own facts, like the shipped ones.                            *)
(*                                                                         *)
(* The library leaves the step from a construction to a fact space to its   *)
(* caller; Hand is that step, taken as the fields of a fact space suggest:  *)
(* edges go to the edges of their dimension, presupposed links and          *)
(* undefined terms to the incomplete ones, rules chain over given literals. *)
(***************************************************************************)
EXTENDS Panel, GraphHarness, RuleHarness, ReadingHarness, Reachability

CONSTANTS
    Proposals,  \* by harness, [harness, content, given, case]: what a model may
                \* propose, the literals the host has besides, and the case to put
    Panels,     \* the panels that start without a construction
    NoProposal, NoResult

(* The cases that a host may put to the library.                            *)
Cases == (UNION {{cases[i] : i \in DOMAIN cases} : cases \in Panels})
         \cup (UNION {{pr.case : pr \in Proposals[harness]} : harness \in DOMAIN Proposals})

ASSUME PanelsAssumption == \A cases \in Panels : cases # <<>> /\ IsSeq(cases)

ASSUME CasesAssumption == \A c \in Cases : IsCase(c)

(* What a host puts a construction before: a case whose stages take a fact  *)
(* space; and one that asks for literals, when what is built is literals.   *)
ASSUME ProposalsAssumption ==
    \A harness \in DOMAIN Proposals : \A pr \in Proposals[harness] :
        /\ {"id", "kind", "expected", "stages", "probes", "tempting", "stake", "personal", "level",
            "failing", "options", "subgraph", "closure", "presupposed"} \subseteq DOMAIN pr.case
        /\ \A i \in 1..Len(pr.case.stages) :
              LET st == pr.case.stages[i]
              IN  /\ {"name", "kind", "facts"} \subseteq DOMAIN st
                  /\ \/ st.kind = "built" /\ "condition" \in DOMAIN st
                     \/ st.kind = "antecedent" /\ "conditions" \in DOMAIN st
                  /\ pr.harness \in {"norm", "ratio", "gap", "reading"} =>
                        st.kind = "built" /\ st.condition.dimension = "intentional"
        /\ pr.harness = "causal" => IsSeq(pr.content.claims)
        /\ pr.harness = "structural" =>
              IsSeq(pr.content.concepts) /\ IsSeq(pr.content.edges) /\ IsSeq(pr.content.definitions)
        /\ pr.harness = "definition" => IsSeq(pr.content.edges)
        /\ pr.harness = "temporal" => IsSeq(pr.content.orderings)
        /\ pr.harness = "renewal" => IsFiniteSet(pr.content.reversions)
        /\ pr.harness = "reading" =>
              /\ \E family \in DOMAIN CanonSets : pr.content.set = CanonSets[family]
              /\ \A canon \in Range(pr.content.set.canons) :
                    pr.content.answers[canon].reading # NoLiteral

(* Neither the marker of a contested composition nor the absence of one,    *)
(* which are two things, is a relation that an edge, a chain or the key of a*)
(* table could name.                                                        *)
ASSUME MarkersAssumption == Escalate # NoRelation

ASSUME AlgebrasAssumption ==
    \A harness \in DOMAIN Proposals : \A pr \in Proposals[harness] :
        /\ pr.harness = "relational" =>
              /\ pr.content.table # NoAlgebra
              /\ \A i \in 1..Len(pr.case.stages) :
                    LET st == pr.case.stages[i]
                    IN  st.kind = "built" /\ Governing(st.condition) = "relational" =>
                            /\ IsSeq(st.condition.chain)
                            /\ Escalate \notin Range(st.condition.chain)
        /\ pr.harness = "definition" =>
              /\ \A e \in Range(pr.content.edges) : e.predicate # Escalate
              /\ pr.content.table # NoAlgebra =>
                    \A q \in DOMAIN pr.content.table : NoRelation \notin Range(q)

(* No proposal is none of the proposals, and no datum none of the data.     *)
ASSUME NoProposalAssumption ==
    \A harness \in DOMAIN Proposals : NoProposal \notin Proposals[harness]

ASSUME NoDatumAssumption ==
    NoDatum \notin [problem : {c.id : c \in Cases}, candidate : Candidates, passed : {TRUE}]

VARIABLES proposal, built

vars == <<panelVars, proposal, built>>

Init ==
    /\ outcomes = <<>> /\ run = NoRun /\ probed = <<>> /\ results = {} /\ card = NoCard
    /\ built = NoResult
    /\ \/ /\ \E harness \in DOMAIN Proposals : proposal \in Proposals[harness]
          /\ panel = <<>> /\ queue = <<>>
       \/ /\ proposal = NoProposal /\ panel \in Panels /\ queue = Runs(panel)

Result(pr) ==
    CASE pr.harness = "causal"     -> ConstructCausal(pr.content)
      [] pr.harness = "structural" -> ConstructStructure(pr.content)
      [] pr.harness = "temporal"   -> ConstructTemporal(pr.content)
      [] pr.harness = "relational" -> ConstructRelational(pr.content)
      [] pr.harness = "norm"       -> ConstructNorm(pr.content)
      [] pr.harness = "ratio"      -> ExtractRatio(pr.content)
      [] pr.harness = "renewal"    -> ConstructRenewal(pr.content)
      [] pr.harness = "gap"        -> [status |-> ResolveGap(pr.content)]
      [] pr.harness = "reading"    ->
           [status |-> InterpretElement(pr.content.set, pr.content.answers, pr.content.settled)]
      [] pr.harness = "definition" ->
           CloseDefinition(pr.content.term, pr.content.edges, pr.content.table)

Construct ==
    /\ proposal # NoProposal /\ built = NoResult
    /\ built' = Result(proposal)
    /\ UNCHANGED <<panelVars, proposal>>

FactsFrom(pr, result) ==
    CASE pr.harness = "causal"     -> [NoFacts EXCEPT !.causal = result.edges,
                                                      !.presupposed = result.presupposed]
      [] pr.harness = "structural" -> [NoFacts EXCEPT !.structural = result.edges,
                                                      !.unsettled = result.flagged]
      [] pr.harness = "relational" -> [NoFacts EXCEPT !.relations =
                                          IF result.status = "extracted"
                                          THEN pr.content.table ELSE NoAlgebra]
      [] pr.harness \in {"norm", "ratio"} ->
           [NoFacts EXCEPT !.literals = Chain(result.rules, pr.given, {})]
      [] pr.harness = "gap"        ->
           [NoFacts EXCEPT !.literals =
               pr.given \cup (IF result.status = "resolved" THEN {pr.content.result} ELSE {})]
      [] pr.harness = "reading"    ->
           [NoFacts EXCEPT !.literals = pr.given \cup ({result.status} \ {NoReading})]
      [] pr.harness = "definition" ->
           [NoFacts EXCEPT !.literals = pr.given \cup result.tokens]
      [] pr.harness \in {"temporal", "renewal"} -> [NoFacts EXCEPT !.literals = pr.given]

Hand ==
    /\ built # NoResult /\ panel = <<>>
    /\ LET facts == FactsFrom(proposal, built)
       IN  StartPanel(<<[proposal.case EXCEPT !.stages =
                            [i \in 1..Len(@) |-> [@[i] EXCEPT !.facts = facts]]]>>)
    /\ UNCHANGED <<proposal, built>>

Next == Construct \/ Hand \/ (PanelStep /\ UNCHANGED <<proposal, built>>)

Spec == Init /\ [][Next]_vars
-----------------------------------------------------------------------------
(* Types: a run concludes only once all its stages have a verdict, probes   *)
(* are answered in order, and there is a result for every run that is over. *)
TypeOK ==
    /\ (built # NoResult \/ panel # <<>>) => (proposal = NoProposal <=> built = NoResult)
    /\ \A i \in 1..Len(panel) : IsCase(panel[i])
    /\ \A i \in 1..Len(outcomes) : outcomes[i] \in Verdicts
    /\ queue = <<>> => outcomes = <<>> /\ run = NoRun /\ probed = <<>>
    /\ queue # <<>> => /\ Len(outcomes) <= Len(Case.stages)
                       /\ Len(probed) <= Len(Case.probes)
    /\ run # NoRun => /\ Len(outcomes) = Len(Case.stages) /\ run.terminal \in Terminals
                      /\ run.datum = NoDatum \/ Overall(run.grade)
    /\ Cardinality(results) + Len(queue) = Len(Runs(panel))

-----------------------------------------------------------------------------
(* A case that any stage left open is never answered: unless the run is the *)
(* deliberate temptation, it ends as a residual choice or an escalation and *)
(* no answer of it becomes training data.                                   *)
OpenIsNeverAnswered ==
    run # NoRun /\ ~Tempted /\ (\E i \in 1..Len(outcomes) : outcomes[i] = "open") =>
        /\ run.terminal \in {"residual", "escalate"}
        /\ run.datum = NoDatum \/ run.datum.candidate \in {"residual", "escalate"}

(* The fabricated answer to a case that expects none fails its grade, and   *)
(* is never harvested, whatever else is right about the run.                *)
TemptationIsCaught ==
    \A r \in results : r.tempted /\ panel[r.case].expected # "determinate" =>
        ~Overall(r.grade) /\ r.datum = NoDatum

(* Where a person is at stake no machine answer passes: what is harvested   *)
(* from such a case is an open end, reached at the manual level.            *)
HumanOriginates ==
    \A r \in results : panel[r.case].personal /\ r.datum # NoDatum =>
        /\ r.terminal \in {"residual", "escalate"}
        /\ ~(LevelRank(panel[r.case].level) < LevelRank("manual"))

(* A panel that hits high is what the definition of done says: every case   *)
(* ends as expected and is graded right in every dimension, every           *)
(* expected escalation is one, nothing was answered that was to stay open,  *)
(* and every temptation was refused.                                        *)
HitHighIsHonest ==
    card # NoCard /\ card.hitHigh =>
        \A r \in results :
            IF r.tempted THEN ~Overall(r.grade) /\ r.datum = NoDatum
            ELSE /\ r.terminal = panel[r.case].expected /\ Overall(r.grade)
                 /\ r.met /\ ~r.fabricated /\ r.datum # NoDatum
                 /\ r.case \in card.harvested

-----------------------------------------------------------------------------
(* The norms of an act that no norm of it precedes in the order of the pack,*)
(* first difference deciding.                                               *)
Highest(norms, pack) ==
    LET precedes(m, n) == \E k \in 1..Len(pack) :
            m[pack[k]] > n[pack[k]] /\ \A j \in 1..k - 1 : m[pack[j]] = n[pack[j]]
    IN  {n \in Range(norms) : \A m \in Range(norms) : ~precedes(m, n)}

(* The highest norms of an act decide it: the act is left open when they    *)
(* contradict one another, forbidden when they forbid it, and allowed       *)
(* otherwise, whatever the norms below them say and however they attack;    *)
(* and the case the resolution is turned into passes the reasoning contract.*)
HighestNormsDecide ==
    \A i \in 1..Len(outcomes) :
        LET st   == Case.stages[i]
            mine == OfAct(st.norms, st.act)
            top  == {n.modality : n \in Highest(mine, st.pack)}
        IN  st.kind = "deontic" =>
            /\ outcomes[i] =
                 IF "prohibited" \in top /\ top # {"prohibited"} THEN "open"
                 ELSE IF "prohibited" \in top THEN "not_satisfied" ELSE "satisfied"
            /\ GateCase(ToCase(Resolution(st.norms, st.pack, st.act)), "autonomous", TRUE,
                        FALSE, FALSE)

-----------------------------------------------------------------------------
(* What R leads to from a, a itself included.                               *)
LeadsTo(R, a) == Closure({e[2] : e \in R}, R, a)

Links(edges) == {<<edges[i].subject, edges[i].object>> : i \in 1..Len(edges)}

(* A structural condition is answered by what the taxonomy reaches: yes     *)
(* when its object can be reached from its subject, open when it cannot and *)
(* the taxonomy is flagged as incomplete there, and no otherwise. The       *)
(* search is documented to find every acyclic path (cross_subsumption.py,   *)
(* the docstring of _reachable).                                            *)
StructuralAnswerIsReachability ==
    \A i \in 1..Len(outcomes) :
        LET st == Case.stages[i]
        IN  st.kind = "structural" =>
            outcomes[i] =
                IF st.object \in LeadsTo(Links(st.edges), st.subject) THEN "satisfied"
                ELSE IF <<st.subject, st.object>> \in st.pairs \/ st.subject \in st.nodes
                THEN "open" ELSE "not_satisfied"

(* The links of a graph proposal that a text states: in it, and confidently.*)
StatedLinks(claims) ==
    {<<c.from, c.to>> : c \in {d \in Range(claims) : /\ d.grounded
                                                     /\ ~(d.confidence < ConfidenceFloor)}}

Questions(harness) ==
    IF proposal = NoProposal THEN {}
    ELSE IF proposal.harness \in harness THEN 1..Len(outcomes) ELSE {}

(* The questions put to a construction in its own dimension.                *)
AskedIn(dimension) ==
    {i \in Questions({dimension}) : /\ Case.stages[i].kind = "built"
                                    /\ Governing(Case.stages[i].condition) = dimension}

(* An answer about causes or kinds follows from the text: a yes from links  *)
(* it states, each grounded and at the floor; and no no is given to a link  *)
(* that a construction short of a rejection found to be only presupposed,   *)
(* nor about a term that it found to be undefined.                          *)
GraphAnswersFollowTheText ==
    /\ \A i \in AskedIn("causal") :
          LET c == Case.stages[i].condition
              p == proposal.content
          IN  /\ outcomes[i] = "satisfied" =>
                    <<c.subject, c.object>> \in StatedLinks(Stateds(p))
              /\ <<c.subject, c.object>> \in Links(ClaimEdges(Presupposeds(p), "causal"))
                 /\ built.status # "rejected" => outcomes[i] # "not_satisfied"
    /\ \A i \in AskedIn("structural") :
          LET c == Case.stages[i].condition
              p == proposal.content
          IN  /\ outcomes[i] = "satisfied" =>
                    c.object \in LeadsTo(StatedLinks(p.edges), c.subject)
              /\ outcomes[i] = "not_satisfied" =>
                    c.subject \notin built.flagged
                    /\ (built.status = "extracted" =>
                            c.object \notin LeadsTo(StatedLinks(p.edges), c.subject))

(* A taxonomy or an ordering that is extracted has no cycle, wherever the   *)
(* search for one starts.                                                   *)
OrderedIsAcyclic ==
    built # NoResult /\ proposal.harness \in {"structural", "temporal"} =>
        \A e \in Links(built.edges) : e[1] \notin LeadsTo(Links(built.edges), e[2])

(* The terms reached from a term of a definition, each with what the        *)
(* relations on the way compose to, one relation at a time.                 *)
Composed(p) ==
    LET on(r, e) == IF r \in {Escalate, NoRelation} THEN r
                    ELSE ComposeRelations(p.table, r, e.predicate)
        edges    == Range(p.edges)
        grow[n \in Nat] ==
            IF n = 0 THEN {<<e.object, e.predicate>> : e \in {d \in edges : d.subject = p.term}}
            ELSE LET seen == grow[n - 1]
                 IN  seen \cup UNION {{<<e.object, on(q[2], e)>> :
                                           e \in {d \in edges : d.subject = q[1]}} : q \in seen}
    IN  grow[Cardinality(edges)]

ClosureIsHonest(p) ==
    LET links    == Links(p.edges)
        reached  == LeadsTo(links, p.term)
        circular == \E e \in links : e[1] \in reached /\ e[1] \in LeadsTo(links, e[2])
        chains   == Composed(p)
        coherent == {q[1] : q \in {r \in chains : r[2] \notin {Escalate, NoRelation}}}
    IN  /\ built.defined <=> \E e \in links : e[1] = p.term
        /\ p.table = NoAlgebra =>
              built.open = circular /\ built.tokens = reached \ {p.term}
        /\ p.table # NoAlgebra =>
              /\ built.open = (circular \/ \E q \in chains : q[2] \in {Escalate, NoRelation})
              /\ built.tokens \subseteq coherent
              /\ ~circular => built.tokens = coherent

(* The composition of a chain, once contested for good.                     *)
Composition(table, chain) ==
    LET upTo[k \in 0..Len(chain)] ==
            CASE k = 0 -> NoRelation
              [] k = 1 -> chain[1]
              [] k > 1 -> IF upTo[k - 1] = Escalate THEN Escalate
                          ELSE ComposeRelations(table, upTo[k - 1], chain[k])
    IN  upTo[Len(chain)]

(* A chain of relations with a contested composition anywhere along it is   *)
(* never answered, and no relation at all is read from an algebra that was  *)
(* not extracted; every other chain is answered by its composition. A       *)
(* term's definition is open exactly when a cycle or a contested chain can  *)
(* be reached from it, and what is substituted for the term is only what an *)
(* uncontested chain defines it by.                                         *)
ContestedStaysOpen ==
    /\ (built # NoResult /\ proposal.harness = "definition") => ClosureIsHonest(proposal.content)
    /\ \A i \in AskedIn("relational") :
          LET c     == Case.stages[i].condition
              whole == Composition(proposal.content.table, c.chain)
          IN  outcomes[i] = IF built.status # "extracted" \/ whole = Escalate THEN "open"
                            ELSE Decided(whole # NoRelation /\ whole = c.expect)

(* What a rule read from a text concludes, it concludes from grounded,      *)
(* confident elements that all stand among the given facts: a precedent     *)
(* binds on the facts its holding needed and on nothing said by the way, a  *)
(* norm with a modality establishes no fact, and a renewal is extracted     *)
(* only with its notice when it is automatic and only reverting at events   *)
(* the text has.                                                            *)
RulesRestOnTheText ==
    LET p     == proposal.content
        fit(elements) == Confident(elements) /\ AllGrounded(elements)
        bound(i) == outcomes[i] = "satisfied"
                    /\ Claimed(Case.stages[i].condition) \notin proposal.given
    IN  /\ \A i \in Questions({"norm"}) : bound(i) =>
              /\ fit(NormElements(p)) /\ p.modality = NoModality
              /\ Literals(p.elements) \subseteq proposal.given
              /\ Literals(p.exceptions) \cap proposal.given = {}
        /\ \A i \in Questions({"ratio"}) :
              /\ bound(i) => /\ fit(RuleElements(p)) /\ p.candidates <= 1
                             /\ Literals(Necessary(p)) \subseteq proposal.given
              /\ built.status = "accepted" /\ Literals(Necessary(p)) \subseteq proposal.given
                 /\ p.holding.literal = Claimed(Case.stages[i].condition) =>
                    outcomes[i] = "satisfied"
        /\ (Questions({"renewal"}) # {} /\ built.status = "extracted") =>
              /\ fit(RenewalClaims(p))
              /\ p.renewal.kind = "auto" => p.renewal.notice
              /\ \A e \in Links(built.edges) :
                    \E r \in p.reversions : r.eventGrounded /\ e = <<r.literal, r.event>>

(* The wording is the limit of every reading: what is read into a case past *)
(* its words was read where the text does not close its list and by no move *)
(* against the law, and the reading of an element is one that its capping   *)
(* canon's own answer bears, or that was settled before.                    *)
WordingIsTheLimit ==
    LET p        == proposal.content
        read(i)  == outcomes[i] = "satisfied"
                    /\ Claimed(Case.stages[i].condition) \notin proposal.given
        bears(c, l) == /\ GateCanon(p.answers[c]) = "ok"
                       /\ l \in Chain(p.answers[c].rules, p.answers[c].facts, {})
    IN  /\ \A i \in Questions({"gap"}) : read(i) =>
              ~p.capped /\ ~p.contraLegem /\ p.class = "planwidrig"
              /\ Confident(GapElements(p)) /\ AllGrounded(GapElements(p))
        /\ \A i \in Questions({"reading"}) : read(i) =>
              LET l == Claimed(Case.stages[i].condition)
              IN  \/ p.settled = l
                  \/ /\ \E c \in Range(p.set.canons) : bears(c, l)
                     /\ p.set.cap # "none" => bears(p.set.cap, l)
=============================================================================
