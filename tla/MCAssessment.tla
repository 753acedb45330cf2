----------------------------- MODULE MCAssessment -----------------------------
(***************************************************************************)
(* Small instances of Assessment: for every harness the proposals that can  *)
(* fail each of its gates, the shipped panel, and panels of one or two      *)
(* short cases over every outcome, expectation and oversight.               *)
(***************************************************************************)
EXTENDS Assessment, PanelPolicies

a == Lit("a", TRUE)
b == Lit("b", TRUE)
c == Lit("c", TRUE)
h == Lit("h", TRUE)
x == Lit("x", TRUE)

SeqsUpTo(S, n) == UNION {[1..k -> S] : k \in 0..n}

(* Stated at the floor, not in the text, or stated with too little trust.   *)
Qualities == {[grounded |-> TRUE, confidence |-> 85], [grounded |-> FALSE, confidence |-> 100],
              [grounded |-> TRUE, confidence |-> 84]}
Sound85   == [grounded |-> TRUE, confidence |-> 85]

Condition(dimension, question) ==
    CASE dimension \in {"causal", "structural"} ->
            [dimension |-> dimension, cue |-> NoDimension, subject |-> question[1],
             object |-> question[2]]
      [] dimension = "relational"  ->
            [dimension |-> dimension, cue |-> NoDimension, chain |-> question[1],
             expect |-> question[2]]
      [] dimension = "intentional" ->
            [dimension |-> dimension, cue |-> NoDimension, literal |-> question,
             text |-> NoLiteral]

BuiltStage(n, dimension, question) ==
    [name |-> n, kind |-> "built", grounded |-> TRUE, warranted |-> TRUE,
     facts |-> NoFacts, condition |-> Condition(dimension, question)]

Asked(harness, content, given, stages) ==
    [harness |-> harness, content |-> content, given |-> given,
     case |-> PanelCase(harness, "statute", "determinate", stages)]

AskLink(dimension, from, to) == BuiltStage(from.atom \o to.atom, dimension, <<from, to>>)
AskLiteral(l) == BuiltStage(l.atom, "intentional", l)

(* The same question, by a condition that has only its text.                *)
AskText(l) == [AskLiteral(l) EXCEPT !.condition.literal = NoLiteral, !.condition.text = l]

-----------------------------------------------------------------------------
CausalClaims ==
    {[from |-> l[1], to |-> l[2], grounded |-> q.grounded, confidence |-> q.confidence,
      status |-> s[1], loadBearing |-> s[2]] :
        l \in {<<a, b>>, <<b, c>>, <<a, Neg(b)>>, <<a, NoLiteral>>}, q \in Qualities,
        s \in {<<"stated", FALSE>>, <<"presupposed", FALSE>>, <<"presupposed", TRUE>>}}

CausalProposals ==
    {Asked("causal", [decodes |-> d, claims |-> s], {},
           <<AskLink("causal", a, b), AskLink("causal", b, c)>>) :
        d \in {TRUE}, s \in SeqsUpTo(CausalClaims, 2)}
    \cup {Asked("causal", [decodes |-> FALSE, claims |-> <<>>], {}, <<AskLink("causal", a, b)>>)}

Concept(l, q) == Element(l, q.grounded, q.confidence)
KindOf(l, q, p) ==
    [from |-> l[1], to |-> l[2], predicate |-> p, grounded |-> q.grounded,
     confidence |-> q.confidence]

StructuralProposals ==
    {Asked("structural",
           [decodes |-> TRUE, concepts |-> cs, definitions |-> ds, external |-> {},
            edges |-> [i \in 1..Len(es) |-> IF i = 1 THEN KindOf(es[1], q, p)
                                            ELSE KindOf(es[i], Sound85, "is-a")]],
           {}, <<AskLink("structural", a, c), AskLink("structural", b, a)>>) :
        cs \in {<<>>, <<Concept(a, Sound85), Concept(b, Sound85)>>,
                <<Concept(a, Sound85), Concept(b, Sound85), Concept(c, Sound85)>>},
        ds \in {<<>>, <<[literal |-> c, uses |-> {b}, grounded |-> TRUE, confidence |-> 85]>>},
        es \in SeqsUpTo({<<a, b>>, <<b, c>>, <<c, a>>, <<b, b>>, <<a, c>>}, 3),
        <<q, p>> \in (Qualities \X {"is-a"}) \cup ({Sound85} \X {"has-part", "near"})}

TemporalProposals ==
    {Asked("temporal",
           [decodes |-> TRUE, states |-> <<Concept(a, q)>>,
            transitions |-> ts, deadlines |-> ds,
            orderings |-> [i \in 1..Len(os) |-> KindOf(os[i], Sound85, "before")]],
           {}, <<AskLiteral(a)>>) :
        q \in Qualities,
        ts \in {<<>>, <<KindOf(<<a, a>>, Sound85, "on")>>},
        ds \in {<<>>, <<[anchor |-> c, parses |-> TRUE, direction |-> "after",
                   grounded |-> TRUE, confidence |-> 85]>>,
                <<[anchor |-> a, parses |-> FALSE, direction |-> "after",
                   grounded |-> TRUE, confidence |-> 85]>>},
        os \in SeqsUpTo({<<a, b>>, <<b, c>>, <<c, b>>, <<b, a>>}, 3)}

Tables == UNION {[D -> {"s", "t", Escalate}] : D \in SUBSET ({"s", "t"} \X {"s", "t"})}

(* All roles and relations have names, or one role or relation has none.    *)
Unnamed == {<<<<>>, "t">>, <<<<Concept(NoLiteral, Sound85)>>, "t">>, <<<<>>, NoLiteral>>}

RelationalProposals ==
    {Asked("relational",
           [decodes |-> TRUE, roles |-> <<Concept(a, q), Concept(b, Sound85)>> \o more,
            relations |-> <<KindOf(<<a, b>>, Sound85, "s"), KindOf(<<b, a>>, Sound85, predicate)>>,
            jural |-> js, table |-> table, chains |-> chains],
           {}, <<BuiltStage("two", "relational", <<<<"s", "t">>, "s">>),
                 BuiltStage("three", "relational", <<<<"t", "s", "t">>, "t">>)>>) :
        <<q, js, chains>> \in
            {<<Sound85, <<>>, {}>>, <<Sound85, <<>>, {<<"s", "t">>}>>}
            \cup {<<k, <<>>, {}>> : k \in Qualities}
            \cup {<<Sound85, <<[from |-> a, to |-> l, incident |-> i] @@ Sound85>>, {}>> :
                    l \in {b, NoLiteral}, i \in {"claim", "duty", "right"}},
        <<more, predicate>> \in Unnamed, table \in Tables}

(* Definitions of a by way of b, by c, in a circle and by itself.           *)
DefinitionProposals ==
    {Asked("definition",
           [term |-> a, table |-> table,
            edges |-> [i \in 1..Len(es) |-> Edge(es[i][1], IF i = 1 THEN "s" ELSE p, es[i][2],
                                                 "structural", 0)]],
           {}, <<[name |-> "term", kind |-> "antecedent", grounded |-> TRUE, warranted |-> TRUE,
                  facts |-> NoFacts,
                  conditions |-> <<Condition("intentional", b), Condition("intentional", c)>>]>>) :
        es \in SeqsUpTo({<<a, b>>, <<b, c>>, <<a, c>>, <<b, a>>, <<c, c>>}, 3),
        p \in {"s", "t"},
        table \in {NoAlgebra, <<>>, (<<"s", "s">> :> "s") @@ (<<"s", "t">> :> "t"),
                   (<<"s", "s">> :> "s") @@ (<<"s", "t">> :> Escalate)}}

-----------------------------------------------------------------------------
NormContent(es, xs, cq, covered, exceptional, modality, modal) ==
    [decodes |-> TRUE, elements |-> es, exceptions |-> xs, consequence |-> cq,
     covered |-> covered, exceptional |-> exceptional, modality |-> modality, modal |-> modal]

NormProposals ==
    {Asked("norm", content, given, <<AskLiteral(h)>>) :
        given \in SUBSET {a, b, x},
        content \in
            {NormContent(es, xs, Concept(l, q), TRUE, exceptional, m[1], m[2]) :
                es \in {{Concept(a, q) : q \in {r}} : r \in Qualities}
                       \cup {{}, {Concept(a, Sound85), Concept(b, Sound85)},
                             {Concept(a, Sound85), Concept(Neg(a), Sound85)}},
                xs \in {{}, {Concept(x, Sound85)}}, l \in {h, Neg(a), NoLiteral},
                q \in {Sound85}, exceptional \in BOOLEAN,
                m \in {<<NoModality, "none">>, <<"permitted", "binding">>,
                       <<"permitted", "discretionary">>}}
            \cup {NormContent({Concept(a, Sound85)}, {}, e, FALSE, FALSE, NoModality, "none") :
                    e \in {NoElement, Concept(h, Sound85)}}}

Fact(l, q, n) == [literal |-> l, necessary |-> n] @@ q

RatioProposals ==
    {Asked("ratio",
           [decodes |-> TRUE, facts |-> fs, holding |-> hold, obiter |-> os,
            candidates |-> n, unclear |-> u, stated |-> w],
           given, <<AskLiteral(h)>>) :
        given \in SUBSET {a, b, x},
        fs \in {{Fact(a, q, TRUE)} : q \in Qualities}
               \cup {{}, {Fact(a, Sound85, TRUE), Fact(b, Sound85, FALSE)},
                     {Fact(a, Sound85, TRUE), Fact(b, Sound85, TRUE)}},
        hold \in {NoElement, Concept(h, Sound85)},
        os \in {{}, {Concept(x, Sound85)}, {Concept(a, Sound85)}},
        n \in {1, 2}, u \in BOOLEAN, w \in BOOLEAN}

TermPart(s, e, d, parses, back, q) ==
    [starts |-> s, ends |-> e, lasts |-> d, parses |-> parses, backwards |-> back,
     grounded |-> q.grounded, confidence |-> q.confidence]

RenewalProposals ==
    {Asked("renewal",
           [decodes |-> TRUE, term |-> t, renewal |-> r, reversions |-> vs],
           {a}, <<AskLiteral(a)>>) :
        t \in {NoElement, TermPart(TRUE, TRUE, FALSE, TRUE, TRUE, Sound85),
               TermPart(TRUE, FALSE, TRUE, FALSE, FALSE, Sound85)}
              \cup {TermPart(s, e, d, TRUE, FALSE, Sound85) : s, e, d \in BOOLEAN},
        r \in {NoElement}
              \cup {[kind |-> k, kindGrounded |-> g, parses |-> TRUE, notice |-> n,
                     noticeGrounded |-> ng, grounded |-> q.grounded, confidence |-> q.confidence] :
                        k \in {"auto", "option", "other"}, g, n, ng \in BOOLEAN, q \in Qualities},
        vs \in {{}} \cup {{[literal |-> a, event |-> c, eventGrounded |-> g] @@ Sound85} :
                           g \in BOOLEAN}}

-----------------------------------------------------------------------------
GapProposals ==
    {Asked("gap",
           [decodes |-> TRUE, move |-> m, class |-> k, gap |-> g, likeCase |-> lc,
            similarity |-> s, result |-> h, capped |-> cap, contraLegem |-> cl, carries |-> ca],
           {}, <<AskText(h)>>) :
        m \in Moves \cup {"guess"}, k \in GapClasses \cup {"unclear"},
        g \in {Concept(a, q) : q \in Qualities} \cup {NoElement},
        lc \in {NoElement, Concept(b, Sound85)},
        s \in {NoElement, Concept(c, Sound85), Concept(Neg(a), Sound85)},
        <<cap, cl, ca>> \in {<<FALSE, FALSE, TRUE>>, <<FALSE, FALSE, FALSE>>,
                             <<TRUE, FALSE, TRUE>>, <<FALSE, TRUE, TRUE>>}}

Answer(l, from, conf) ==
    [facts |-> {from}, rules |-> <<Rule({a}, l, {}, NoModality)>>, reading |-> l,
     confidence |-> conf]
Silent == [facts |-> {}, rules |-> <<>>, reading |-> NoReading, confidence |-> -1]
Broad  == [facts |-> {a}, rules |-> <<Rule({a}, h, {}, NoModality), Rule({h}, x, {}, NoModality)>>,
           reading |-> x, confidence |-> 90]

Answers == {Answer(h, a, 90), Answer(x, a, 90), Answer(h, a, 80), Answer(h, b, 90),
            [Answer(h, a, 90) EXCEPT !.confidence = -1], Silent, Broad}

ReadingProposals ==
    {Asked("reading",
           [set |-> CanonSets[f], settled |-> s,
            answers |-> [k \in Range(CanonSets[f].canons) |->
                           CASE k = CanonSets[f].tiebreaker -> one
                             [] k = Last(CanonSets[f].canons) -> other
                             [] k = Head(CanonSets[f].canons) -> other
                             [] OTHER -> third]],
           {}, <<AskLiteral(h)>>) :
        f \in DOMAIN CanonSets, s \in {NoReading, h}, one, other, third \in Answers}
-----------------------------------------------------------------------------
(* One stage of each kind and outcome, for cases that carry their facts.    *)
SmallStages ==
    {Stated("stated"), Absent("absent"), Unclassified("unclassified", "s", "o"),
     [IsA("kind", <<"s", "m", "n", "o">>) EXCEPT !.warranted = FALSE],
     [Stated("ungrounded") EXCEPT !.grounded = FALSE]}

SmallStageSeqs ==
    {<<s>> : s \in SmallStages}
    \cup {<<Stated("stated"), Absent("absent")>>, <<Absent("absent"), Unanswered("gap")>>}

SmallProbes == {<<>>, <<Probe(<<Unanswered("gap")>>)>>, <<Probe(<<Stated("fabricated")>>)>>}

SmallCases ==
    {k \in {[PanelCase("case", "contract", e, stages)
             EXCEPT !.options = o, !.tempting = t, !.probes = ps, !.personal = pl[1],
                    !.stake = pl[2], !.level = pl[3]] :
                e \in Terminals, stages \in SmallStageSeqs, o \in {0, 2}, t \in BOOLEAN,
                ps \in SmallProbes,
                pl \in {<<FALSE, FALSE, "autonomous">>, <<FALSE, TRUE, "autonomous">>,
                        <<FALSE, TRUE, "approve">>, <<TRUE, TRUE, "approve">>,
                        <<TRUE, FALSE, "manual">>}} : IsCase(k)}

PolicyVariants ==
    {[PanelCase("policy", "policy", "escalate", <<Stated("stated"), Unanswered("gap")>>)
      EXCEPT !.subgraph = Subgraph(<<Stated("stated"), Unanswered("gap")>>, open, {}),
             !.closure = cl, !.presupposed = Presupposed(<<target>>), !.failing = fd] :
        open \in {{}, {"gap"}}, target \in {"stated", "gap", "nowhere"},
        cl \in {Closures(<<"stated">>, <<"gap">>), Closures(<<"gap">>, <<>>)},
        fd \in {{}, {"provenance"}}}

NormsOf(specificities) ==
    {[Norm(y, m, r, s) EXCEPT !.time = 0] :
        y \in {"act"}, m \in {"obligatory", "prohibited", "permitted"}, r \in {0, 1},
        s \in specificities}
    \cup {Norm("other", "prohibited", 1, 1)}

DeonticPanels ==
    {<<PanelCase("act", "statute", "determinate",
                 <<Claim("act", "deontic", TRUE) @@ [norms |-> ns, pack |-> p, act |-> "act"]>>)>> :
        p \in {LexPack, GenericPack},
        ns \in {s \in SeqsUpTo(NormsOf({0, 1}), 2) \cup [1..3 -> NormsOf({0})] :
                   \E i \in 1..Len(s) : s[i].act = "act"}}

(* A standard that is met or not, and applications whose verdict is empty.  *)
StandardPanels ==
    LET applied(met) == StandardClaim("standard", TRUE, met, FALSE)
        empty == [applied(TRUE) EXCEPT !.proposal.verdict.literal = NoLiteral]
    IN  {<<PanelCase("standard", "statute", "determinate", <<st>>)>> :
            st \in {applied(TRUE), applied(FALSE), empty,
                    [empty EXCEPT !.proposal.relied = {Element(NoLiteral, TRUE, 100)}]}}

MCProposals ==
    [causal |-> CausalProposals, structural |-> StructuralProposals,
     temporal |-> TemporalProposals, relational |-> RelationalProposals,
     norm |-> NormProposals, ratio |-> RatioProposals, renewal |-> RenewalProposals,
     gap |-> GapProposals, reading |-> ReadingProposals, definition |-> DefinitionProposals]

MCPanels ==
    {ShippedPanel} \cup DeonticPanels \cup StandardPanels
    \cup {<<k>> : k \in SmallCases \cup PolicyVariants}
    \cup {<<k, [AutoRenewal EXCEPT !.tempting = TRUE]>> : k \in PolicyVariants}

(* A taxonomy of k layers of two kinds, each kind of a layer under both of  *)
(* the next, and last a direct link from the subject to the object asked    *)
(* about: 2 to the k + 1 paths, one of which answers the question.          *)
Ladder(k) ==
    LET isA(from, to) == Edge(from, "is_a", to, "structural", 0)
        up(i) == <<isA(<<i, 1>>, <<i + 1, 1>>), isA(<<i, 1>>, <<i + 1, 2>>),
                   isA(<<i, 2>>, <<i + 1, 1>>), isA(<<i, 2>>, <<i + 1, 2>>)>>
    IN  <<isA(<<0, 0>>, <<1, 1>>), isA(<<0, 0>>, <<1, 2>>)>>
        \o FlattenSeq([i \in 1..k - 1 |-> up(i)])
        \o <<isA(<<0, 0>>, <<k + 1, 0>>)>>

NoProposals == <<>>
LadderPanels ==
    {<<PanelCase("ladder", "statute", "determinate",
                 <<StructuralClaim("direct", TRUE, <<0, 0>>, <<k + 1, 0>>, Ladder(k), {})>>)>> :
        k \in {2, 10}}

(* The cases the repository ships are what its own acceptance asks of a     *)
(* panel: run as they are, they hit high on every bar.                      *)
ShippedPanelHitsHigh == panel = ShippedPanel /\ card # NoCard => card.hitHigh
=============================================================================
