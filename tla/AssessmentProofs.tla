--------------------------- MODULE AssessmentProofs ---------------------------
(***************************************************************************)
(* What holds of every assessment, for every proposal, every panel and      *)
(* every content of the stages: the types; that an open case is not         *)
(* answered, a fabricated answer is caught, no machine answer passes where  *)
(* a person is at stake, and a panel that hits high is as good as it says;  *)
(* that the highest norms of an act decide it; that what a harness lets     *)
(* through rests on the text and stays within its wording; that a taxonomy  *)
(* or an ordering it lets through has no cycle; and that answers about      *)
(* causes, kinds, relations and definitions follow from what was stated.    *)
(*                                                                         *)
(* The first five are facts about the steps that conclude, judge and score  *)
(* a run.  What makes them invariants is IInv: the panel is what was given  *)
(* or handed over and is never replaced once a result exists; the queue is  *)
(* what the results leave of the panel's runs, none of which is queued      *)
(* twice; the verdicts beside a run are those of its stages; and a result   *)
(* keeps what was true of the run it was made of.  The others are facts     *)
(* about the operators that compute a verdict or a construction, which IInv *)
(* ties to the verdicts and to the construction that are recorded.          *)
(*                                                                          *)
(* The search for a cycle has an invariant of its own.  Its stack is a trail*)
(* of the grey nodes, what follows a black node is black, and every set of  *)
(* black nodes has one that nothing in the set leads to; a cycle, and an    *)
(* edge from each start, would be such a set without one.  That the search  *)
(* takes no more than the steps it is given is the argument of its cost.    *)
(*                                                                          *)
(* What is answered about a graph is read off the paths of compose_paths.   *)
(* They are the least set closed under going on along an edge, and, as they *)
(* are simple, a depth of as many edges as there are cuts none; so they end *)
(* wherever the links lead, and chains of relations are the paths of a      *)
(* definition as long as it has no cycle.  The bound on the number of paths *)
(* is the hypothesis of the theorems that need all of them.                 *)
(***************************************************************************)
EXTENDS Assessment, OperatorProofs, SequenceTheorems

(* The panel that Hand makes of a construction.                             *)
Handed(pr, result) ==
    <<[pr.case EXCEPT !.stages =
          [i \in 1..Len(@) |-> [@[i] EXCEPT !.facts = FactsFrom(pr, result)]]]>>

(* A panel was given, or it is what a construction was handed to.           *)
Origin ==
    \/ proposal = NoProposal /\ built = NoResult /\ panel \in Panels \cup {<<>>}
    \/ /\ \E harness \in DOMAIN Proposals : proposal \in Proposals[harness]
       /\ built \in {NoResult, Result(proposal)}
       /\ panel = <<>> \/ (built # NoResult /\ panel = Handed(proposal, built))

(* The queue is what is left of the runs, each result stands for a run that *)
(* was taken off it, and no run was taken off twice.                        *)
Done == Cardinality(results)

Queued ==
    /\ queue \in Seq((1..Len(panel)) \X BOOLEAN) /\ IsFiniteSet(results)
    /\ Done + Len(queue) = Len(Runs(panel))
    /\ \A i \in 1..Len(queue) : queue[i] = Runs(panel)[Done + i]
    /\ \A r \in results : \E i \in 1..Done : Runs(panel)[i] = <<r.case, r.tempted>>

(* A fabricated answer to a case that expects none.                         *)
Caught(c, tempted, r) ==
    tempted /\ c.expected # "determinate" => ~Overall(r.grade) /\ r.datum = NoDatum

(* What is harvested of a case about a person.                              *)
Human(c, r) ==
    c.personal /\ r.datum # NoDatum =>
        r.terminal \in {"residual", "escalate"} /\ ~(LevelRank(c.level) < LevelRank("manual"))

(* A stage left open.                                                       *)
Honest(tempted, verdicts, r) ==
    ~tempted /\ (\E i \in 1..Len(verdicts) : verdicts[i] = "open") =>
        /\ r.terminal \in {"residual", "escalate"}
        /\ r.datum = NoDatum \/ r.datum.candidate \in {"residual", "escalate"}

(* Nothing but a run that passed is harvested, and every one that did.      *)
Earned(r) == Overall(r.grade) <=> r.datum # NoDatum

Evaluated ==
    /\ queue = <<>> => outcomes = <<>> /\ run = NoRun /\ probed = <<>>
    /\ queue # <<>> =>
          /\ outcomes \in Seq(Verdicts) /\ Len(outcomes) <= Len(Case.stages)
          /\ \A i \in 1..Len(outcomes) : outcomes[i] = StageVerdict(Case.stages[i])
          /\ IsSeq(probed) /\ Len(probed) <= Len(Case.probes)
    /\ run # NoRun =>
          /\ Len(outcomes) = Len(Case.stages) /\ run.terminal \in Terminals
          /\ Caught(Case, Tempted, run) /\ Human(Case, run) /\ Honest(Tempted, outcomes, run)
          /\ Earned(run)

(* A run that meets its expectation ended as its case expects, or was       *)
(* tempted and failed.                                                      *)
Judged ==
    \A r \in results :
        /\ Caught(panel[r.case], r.tempted, r) /\ Human(panel[r.case], r) /\ Earned(r)
        /\ r.met => IF r.tempted THEN ~Overall(r.grade)
                    ELSE r.terminal = panel[r.case].expected

(* The card is read off the results it stands beside.                       *)
Scored ==
    card # NoCard =>
        /\ panel # <<>> /\ queue = <<>>
        /\ card.hitHigh = (\A bar \in DOMAIN Bars(panel, results) : Bars(panel, results)[bar] = {})
        /\ card.harvested = {r.case : r \in {q \in results : ~q.tempted /\ q.datum # NoDatum}}

IInv == Origin /\ Queued /\ Evaluated /\ Judged /\ Scored
-----------------------------------------------------------------------------
(* The positions of a set are counted off in order: there is a k-th one.    *)
Rank(S, i) == Cardinality({j \in S : j <= i})

LEMMA NthExists ==
    ASSUME NEW n \in Nat, NEW S \in SUBSET (1..n), NEW k \in 1..Cardinality(S)
    PROVE  Nth(S, k) \in S /\ Rank(S, Nth(S, k)) = k
<1> DEFINE Upto(i) == {j \in S : j <= i}
           T == {i \in 0..n : k <= Cardinality(Upto(i))}
<1>1. IsFiniteSet(S) /\ Cardinality(S) \in Nat
  <2>1. IsFiniteSet(1..n)
    BY FS_Interval
  <2> QED
    BY <2>1, FS_Subset, FS_CardinalityType
<1>2. k \in Nat /\ 1 <= k /\ k <= Cardinality(S)
  BY <1>1
<1>3. \A j \in S : j \in Nat /\ 1 <= j /\ j <= n
  OBVIOUS
<1>4. ASSUME NEW i \in 0..n PROVE IsFiniteSet(Upto(i)) /\ Cardinality(Upto(i)) \in Nat
  <2>1. Upto(i) \subseteq S
    OBVIOUS
  <2> QED
    BY <1>1, <2>1, FS_Subset, FS_CardinalityType
<1>5. Upto(n) = S /\ Upto(0) = {} /\ Cardinality(Upto(0)) = 0
  <2>1. Upto(n) = S
    BY <1>3
  <2>2. \A j \in S : ~(j <= 0)
    BY <1>3
  <2>3. Upto(0) = {}
    BY <2>2
  <2> QED
    BY <2>1, <2>3, FS_EmptySet
<1>6. ASSUME NEW i \in 1..n, i \notin S PROVE Upto(i) = Upto(i - 1)
  <2>1. \A j \in S : j <= i <=> j <= i - 1
    BY <1>3, <1>6
  <2> QED
    BY <2>1
<1>7. ASSUME NEW i \in 1..n, i \in S
      PROVE  Cardinality(Upto(i)) = Cardinality(Upto(i - 1)) + 1
  <2>1. \A j \in S : j <= i <=> (j <= i - 1 \/ j = i)
    BY <1>3
  <2>2. ~(i <= i - 1) /\ i - 1 \in 0..n /\ i <= i
    OBVIOUS
  <2>3. Upto(i) = Upto(i - 1) \cup {i} /\ i \notin Upto(i - 1)
    BY <1>7, <2>1, <2>2
  <2>4. IsFiniteSet(Upto(i - 1))
    BY <1>4, <2>2
  <2> HIDE DEF Upto
  <2> QED
    BY <2>3, <2>4, FS_AddElement
<1>8. PICK m \in T : \A i \in T : m <= i
  <2>1. Cardinality(Upto(n)) = Cardinality(S)
    BY <1>5
  <2> HIDE DEF Upto
  <2>2. n \in 0..n /\ k <= Cardinality(Upto(n))
    BY <1>2, <2>1
  <2>3. n \in T
    BY <2>2
  <2>4. T \in SUBSET Nat /\ T # {}
    BY <2>3
  <2> HIDE DEF T
  <2> QED
    BY <2>4, SmallestNat
<1>9. m \in 0..n /\ k <= Cardinality(Upto(m))
  BY <1>8
<1>10. m # 0
  <2> SUFFICES ASSUME m = 0 PROVE FALSE
    OBVIOUS
  <2>1. k <= 0
    BY <1>5, <1>9
  <2> QED
    BY <1>2, <2>1
<1>11. m \in 1..n /\ m - 1 \in 0..n /\ ~(m <= m - 1)
  BY <1>9, <1>10
<1>12. ~(k <= Cardinality(Upto(m - 1)))
  BY <1>8, <1>11
<1>13. Cardinality(Upto(m - 1)) \in Nat /\ Cardinality(Upto(m)) \in Nat
  BY <1>4, <1>9, <1>11
<1> HIDE DEF Upto, T
<1>14. m \in S
  BY <1>6, <1>9, <1>11, <1>12
<1>15. Cardinality(Upto(m)) = Cardinality(Upto(m - 1)) + 1
  BY <1>7, <1>11, <1>14
<1>16. Cardinality(Upto(m)) = k
  BY <1>2, <1>9, <1>12, <1>13, <1>15
<1> QED
  BY <1>14, <1>16 DEF Nth, Upto, Rank

(* A function over an interval is a sequence.                               *)
LEMMA IsSequence ==
    ASSUME NEW n \in Nat, NEW R, NEW f \in [1..n -> R]
    PROVE  f \in Seq(R) /\ Len(f) = n
OBVIOUS

(* A panel's runs are runs of its cases, and no two of them are the same.   *)
LEMMA RunsProperties ==
    ASSUME NEW cases, Len(cases) \in Nat
    PROVE  /\ Runs(cases) \in Seq((1..Len(cases)) \X BOOLEAN)
           /\ \A i, j \in 1..Len(Runs(cases)) : Runs(cases)[i] = Runs(cases)[j] => i = j
<1> DEFINE n == Len(cases)
           S == Tempting(cases)
           m == Cardinality(S)
           first  == [i \in 1..n |-> <<i, FALSE>>]
           second == [k \in 1..m |-> <<Nth(S, k), TRUE>>]
           R == (1..n) \X BOOLEAN
<1>1. S \in SUBSET (1..n) /\ m \in Nat
  <2>1. S \in SUBSET (1..n)
    BY DEF Tempting
  <2>2. IsFiniteSet(1..n)
    BY FS_Interval
  <2> QED
    BY <2>1, <2>2, FS_Subset, FS_CardinalityType
<1>2. \A k \in 1..m : Nth(S, k) \in S /\ Rank(S, Nth(S, k)) = k
  BY <1>1, NthExists
<1>3. Runs(cases) = first \o second
  BY DEF Runs
<1>4. n \in Nat
  OBVIOUS
<1> HIDE DEF S, m, n
<1>5. first \in Seq(R) /\ Len(first) = n
  <2>1. \A i \in 1..n : <<i, FALSE>> \in R
    OBVIOUS
  <2> HIDE DEF R
  <2>2. first \in [1..n -> R]
    BY <2>1
  <2> HIDE DEF first
  <2> QED
    BY <1>4, <2>2, IsSequence
<1>6. second \in Seq(R) /\ Len(second) = m
  <2>1. \A k \in 1..m : Nth(S, k) \in 1..n
    BY <1>1, <1>2
  <2>2. \A k \in 1..m : <<Nth(S, k), TRUE>> \in R
    BY <2>1
  <2> HIDE DEF R
  <2>3. second \in [1..m -> R]
    BY <2>2
  <2> HIDE DEF second
  <2> QED
    BY <1>1, <2>3, IsSequence
<1>7. /\ \A i \in 1..n : first[i] = <<i, FALSE>>
      /\ \A k \in 1..m : second[k] = <<Nth(S, k), TRUE>>
  OBVIOUS
<1> HIDE DEF first, second, R
<1>8. /\ first \o second \in Seq(R) /\ Len(first \o second) = n + m
      /\ \A i \in 1..(n + m) :
            (first \o second)[i] = IF i <= n THEN first[i] ELSE second[i - n]
  BY <1>5, <1>6, ConcatProperties
<1>9. /\ Runs(cases) \in Seq(R) /\ Len(Runs(cases)) = n + m
      /\ \A i \in 1..(n + m) : i <= n => Runs(cases)[i] = <<i, FALSE>>
      /\ \A i \in 1..(n + m) : ~(i <= n) => /\ i - n \in 1..m
                                            /\ Runs(cases)[i] = <<Nth(S, i - n), TRUE>>
  <2>1. \A i \in 1..(n + m) : (i <= n => i \in 1..n) /\ (~(i <= n) => i - n \in 1..m)
    BY <1>1, <1>4
  <2> QED
    BY <1>3, <1>7, <1>8, <2>1
<1>10. ASSUME NEW i \in 1..(n + m), NEW j \in 1..(n + m), Runs(cases)[i] = Runs(cases)[j]
       PROVE  i = j
  <2>1. CASE i <= n /\ j <= n
    <3>1. <<i, FALSE>> = <<j, FALSE>>
      BY <1>9, <1>10, <2>1
    <3> QED
      BY <3>1
  <2>2. CASE i <= n /\ ~(j <= n)
    <3>1. <<i, FALSE>> = <<Nth(S, j - n), TRUE>>
      BY <1>9, <1>10, <2>2
    <3> QED
      BY <3>1
  <2>3. CASE ~(i <= n) /\ j <= n
    <3>1. <<Nth(S, i - n), TRUE>> = <<j, FALSE>>
      BY <1>9, <1>10, <2>3
    <3> QED
      BY <3>1
  <2>4. CASE ~(i <= n) /\ ~(j <= n)
    <3>1. /\ i - n \in 1..m /\ j - n \in 1..m
          /\ <<Nth(S, i - n), TRUE>> = <<Nth(S, j - n), TRUE>>
      BY <1>9, <1>10, <2>4
    <3>2. Nth(S, i - n) = Nth(S, j - n)
      BY <3>1
    <3>3. i - n = j - n
      BY <1>2, <3>1, <3>2
    <3> QED
      BY <1>1, <1>4, <3>3
  <2> QED
    BY <2>1, <2>2, <2>3, <2>4
<1> QED
  BY <1>9, <1>10 DEF n, R

-----------------------------------------------------------------------------
(* Whatever kind a stage is of, it has one of the three verdicts.           *)
LEMMA FoldIsVerdict == \A vs : FoldVerdicts(vs) \in Verdicts
BY DEF FoldVerdicts, Verdicts

(* Subsumption under a condition that has an evaluator gives a verdict.     *)
LEMMA SubsumedIsVerdict ==
    ASSUME NEW c, IsCondition(c), NEW f, NEW judge
    PROVE  SubsumeAcross(c, f, judge) \in Verdicts
<1>1. \A b : Decided(b) \in Verdicts
  BY DEF Decided, Verdicts
<1>2. EvalStructural(c, f) \in Verdicts
  BY <1>1 DEF EvalStructural, Verdicts
<1>3. EvalCausal(c, f) \in Verdicts
  BY <1>1 DEF EvalCausal, Verdicts
<1>4. EvalTemporal(c, f) \in Verdicts
  BY <1>1 DEF EvalTemporal, Verdicts
<1>5. EvalRelational(c, f) \in Verdicts
  BY <1>1 DEF EvalRelational, Verdicts
<1>6. EvalIntentional(c, f, judge) \in Verdicts
  BY <1>1 DEF EvalIntentional
<1>7. "open" \in Verdicts
  BY DEF Verdicts
<1> QED
  BY <1>2, <1>3, <1>4, <1>5, <1>6, <1>7, DimensionsAssumption
  DEF SubsumeAcross, IsCondition, Dimensions

(* And so does every stage.                                                 *)
LEMMA StageIsVerdict ==
    ASSUME NEW st, IsStage(st)
    PROVE  StageVerdict(st) \in Verdicts
<1>1. \A b : Decided(b) \in Verdicts
  BY DEF Decided, Verdicts
<1>2. IntentionalStage(st) \in Verdicts
  BY <1>1 DEF IntentionalStage, EvalIntentional
<1>3. StructuralStage(st) \in Verdicts
  BY <1>1 DEF StructuralStage, EvalStructural, Verdicts
<1>4. TemporalStage(st) \in Verdicts
  BY <1>1 DEF TemporalStage, EvalTemporal, Verdicts
<1>5. QuantStage(st) \in Verdicts
  BY DEF QuantStage, EvalThreshold, Verdicts
<1>6. StandardStage(st) \in Verdicts /\ EpistemicStage(st) \in Verdicts
  BY DEF StandardStage, EpistemicStage, Verdicts
<1>7. DeonticStage(st) \in Verdicts
  BY <1>1 DEF DeonticStage, Verdicts
<1>8. st.kind = "built" => SubsumeAcross(st.condition, st.facts, {}) \in Verdicts
  BY SubsumedIsVerdict DEF IsStage
<1>9. SubsumeAntecedent(st.conditions, st.facts, {}) \in Verdicts
  BY FoldIsVerdict DEF SubsumeAntecedent
<1>10. "open" \in Verdicts
  BY DEF Verdicts
<1> QED
  BY <1>2, <1>3, <1>4, <1>5, <1>6, <1>7, <1>8, <1>9, <1>10 DEF StageVerdict, IsStage, Kinds

-----------------------------------------------------------------------------
(* The cases of the proposals and of the given panels are cases.            *)
LEMMA ProposedIsCase ==
    ASSUME NEW harness \in DOMAIN Proposals, NEW pr \in Proposals[harness]
    PROVE  pr.case \in Cases
<1> DEFINE F == {{q.case : q \in Proposals[k]} : k \in DOMAIN Proposals}
           G == {{cases[i] : i \in DOMAIN cases} : cases \in Panels}
<1>1. {q.case : q \in Proposals[harness]} \in F
  OBVIOUS
<1>2. pr.case \in {q.case : q \in Proposals[harness]}
  OBVIOUS
<1>3. Cases = (UNION G) \cup (UNION F)
  BY DEF Cases
<1> HIDE DEF F, G
<1> QED
  BY <1>1, <1>2, <1>3

(* So are the cases of the panels that start without a construction.        *)
LEMMA GivenIsCase ==
    ASSUME NEW given \in Panels, NEW i \in DOMAIN given
    PROVE  given[i] \in Cases
<1> DEFINE F == {{q.case : q \in Proposals[k]} : k \in DOMAIN Proposals}
           G == {{cases[j] : j \in DOMAIN cases} : cases \in Panels}
<1>1. {given[j] : j \in DOMAIN given} \in G
  OBVIOUS
<1>2. given[i] \in {given[j] : j \in DOMAIN given}
  OBVIOUS
<1>3. Cases = (UNION G) \cup (UNION F)
  BY DEF Cases
<1> HIDE DEF F, G
<1> QED
  BY <1>1, <1>2, <1>3

(* What Hand puts before the panel is the case that was proposed, with the  *)
(* facts of the construction in its stages.                                 *)
LEMMA HandedStages ==
    ASSUME NEW harness \in DOMAIN Proposals, NEW pr \in Proposals[harness], NEW result,
           NEW i \in 1..Len(pr.case.stages)
    PROVE  LET st == Handed(pr, result)[1].stages[i]
           IN  /\ Len(Handed(pr, result)) = 1
               /\ Len(Handed(pr, result)[1].stages) = Len(pr.case.stages)
               /\ st.kind = pr.case.stages[i].kind /\ st.name = pr.case.stages[i].name
               /\ st.facts = FactsFrom(pr, result)
               /\ st.kind \in {"built", "antecedent"}
               /\ st.kind = "built" => st.condition = pr.case.stages[i].condition
               /\ st.kind = "antecedent" => st.conditions = pr.case.stages[i].conditions
<1> DEFINE c  == pr.case
           ss == [j \in 1..Len(c.stages) |-> [c.stages[j] EXCEPT !.facts = FactsFrom(pr, result)]]
           c2 == [c EXCEPT !.stages = ss]
<1>1. /\ IsCase(c) /\ "stages" \in DOMAIN c
      /\ {"name", "kind", "facts"} \subseteq DOMAIN c.stages[i]
      /\ \/ c.stages[i].kind = "built" /\ "condition" \in DOMAIN c.stages[i]
         \/ c.stages[i].kind = "antecedent" /\ "conditions" \in DOMAIN c.stages[i]
  <2>1. c \in Cases
    BY ProposedIsCase
  <2> QED
    BY <2>1, CasesAssumption, ProposalsAssumption
<1>2. Len(c.stages) \in Nat
  BY <1>1 DEF IsCase, IsSeq
<1>3. Handed(pr, result) = <<c2>>
  BY DEF Handed
<1> DEFINE s  == c.stages[i]
           s2 == [s EXCEPT !.facts = FactsFrom(pr, result)]
<1>4. Len(ss) = Len(c.stages) /\ ss[i] = s2
  BY <1>2
<1>5. c2.stages = ss
  BY <1>1
<1>6. /\ s2.kind = s.kind /\ s2.name = s.name /\ s2.facts = FactsFrom(pr, result)
      /\ "condition" \in DOMAIN s => s2.condition = s.condition
      /\ "conditions" \in DOMAIN s => s2.conditions = s.conditions
  BY <1>1
<1> HIDE DEF c2, ss, s2
<1>7. Handed(pr, result)[1] = c2 /\ Len(Handed(pr, result)) = 1
  BY <1>3
<1> QED
  BY <1>1, <1>4, <1>5, <1>6, <1>7

(* And it is a case, whatever the construction came to.                     *)
LEMMA HandedIsCase ==
    ASSUME NEW harness \in DOMAIN Proposals, NEW pr \in Proposals[harness], NEW result
    PROVE  /\ IsCase(Handed(pr, result)[1]) /\ Handed(pr, result)[1].id = pr.case.id
           /\ Len(Handed(pr, result)) = 1 /\ pr.case \in Cases
           /\ Len(Handed(pr, result)[1].stages) = Len(pr.case.stages)
<1> DEFINE c  == pr.case
           ss == [j \in 1..Len(c.stages) |-> [c.stages[j] EXCEPT !.facts = FactsFrom(pr, result)]]
           c2 == [c EXCEPT !.stages = ss]
<1>1. IsCase(c) /\ c \in Cases
  <2>1. c \in Cases
    BY ProposedIsCase
  <2> QED
    BY <2>1, CasesAssumption
<1>2. {"id", "kind", "expected", "stages", "probes", "options", "subgraph", "closure",
       "presupposed"} \subseteq DOMAIN c
  BY ProposalsAssumption
<1>3. /\ Len(c.stages) \in Nat /\ c.stages # <<>>
      /\ c.stages \in Seq({c.stages[i] : i \in DOMAIN c.stages})
  BY <1>1 DEF IsCase, IsSeq
<1>4. Handed(pr, result) = <<c2>>
  BY DEF Handed
<1>5. /\ c2.stages = ss /\ c2.id = c.id /\ c2.kind = c.kind /\ c2.expected = c.expected
      /\ c2.probes = c.probes /\ c2.options = c.options /\ c2.subgraph = c.subgraph
      /\ c2.closure = c.closure /\ c2.presupposed = c.presupposed
  BY <1>2
<1>6. Handed(pr, result)[1] = c2 /\ Len(Handed(pr, result)) = 1
  BY <1>4
<1>7. ss # <<>> /\ IsSeq(ss) /\ Len(ss) = Len(c.stages)
  <2>1. Len(c.stages) # 0
    BY <1>3
  <2>2. ss \in [1..Len(c.stages) -> {ss[i] : i \in DOMAIN ss}]
    OBVIOUS
  <2> HIDE DEF ss
  <2>3. ss \in Seq({ss[i] : i \in DOMAIN ss}) /\ Len(ss) = Len(c.stages)
    BY <1>3, <2>2, IsSequence
  <2> QED
    BY <2>1, <2>3 DEF IsSeq
<1> HIDE DEF ss, c2
<1>8. ASSUME NEW i \in 1..Len(ss)
      PROVE  IsStage(ss[i]) /\ ss[i].name = c.stages[i].name
  <2>1. i \in 1..Len(c.stages) /\ IsStage(c.stages[i])
    BY <1>1, <1>7 DEF IsCase
  <2>2. /\ ss[i].kind = c.stages[i].kind /\ ss[i].name = c.stages[i].name
        /\ ss[i].kind \in {"built", "antecedent"}
        /\ ss[i].kind = "built" => ss[i].condition = c.stages[i].condition
        /\ ss[i].kind = "antecedent" => ss[i].conditions = c.stages[i].conditions
    BY <1>5, <1>6, <2>1, HandedStages
  <2> QED
    BY <2>1, <2>2 DEF IsStage
<1>9. IsCase(c2)
  BY <1>1, <1>5, <1>7, <1>8 DEF IsCase
<1> QED
  BY <1>1, <1>5, <1>6, <1>7, <1>9

(* Every member of the panel is a case, with the name of one of the given   *)
(* ones.                                                                    *)
LEMMA PanelProperties ==
    ASSUME Origin
    PROVE  /\ Len(panel) \in Nat
           /\ \A i \in 1..Len(panel) : IsCase(panel[i]) /\ panel[i].id \in {c.id : c \in Cases}
<1>1. CASE panel = <<>>
  BY <1>1
<1>2. CASE panel \in Panels
  <2>1. Len(panel) \in Nat /\ DOMAIN panel = 1..Len(panel)
    BY <1>2, PanelsAssumption DEF IsSeq
  <2>2. \A i \in 1..Len(panel) : panel[i] \in Cases
    BY <1>2, <2>1, GivenIsCase
  <2> QED
    BY <2>1, <2>2, CasesAssumption
<1>3. CASE /\ \E harness \in DOMAIN Proposals : proposal \in Proposals[harness]
           /\ panel = Handed(proposal, built)
  BY <1>3, HandedIsCase
<1> QED
  BY <1>1, <1>2, <1>3 DEF Origin


-----------------------------------------------------------------------------
(* An accepted run without options is a determinate one.                    *)
LEMMA AcceptedIsDeterminate ==
    TerminalOf([status |-> "accepted", options |-> 0]) = "determinate"
<1>1. \A t \in Terminals : "accepted" \in Tokens[t] <=> t = "determinate"
    BY DEF Terminals, Tokens
<1>2. "determinate" \in Terminals
    BY DEF Terminals
<1> QED
    BY <1>1, <1>2 DEF TerminalOf

(* The fold answers only when nothing is open.                              *)
LEMMA OpenDominates ==
    ASSUME NEW vs
    PROVE  /\ FoldVerdicts(vs) \in Verdicts
           /\ "open" \in vs => FoldVerdicts(vs) = "open"
BY DEF FoldVerdicts, Verdicts

(* What a run concludes from what its stages are folded to.                 *)
LEMMA ComputedTerminalIsOne ==
    ASSUME NEW c, NEW overall \in Verdicts
    PROVE  /\ ComputedTerminal(c, overall) \in Terminals
           /\ overall = "open" => ComputedTerminal(c, overall) \in {"residual", "escalate"}
BY DEF ComputedTerminal, Verdicts, Terminals

(* A grade fails as soon as one dimension does, and then nothing is         *)
(* harvested.                                                               *)
LEMMA GradeParts ==
    ASSUME NEW ended, NEW expected, NEW record, NEW artifact, NEW oversight,
           Overall(GradeRun(ended, expected, record, artifact, oversight))
    PROVE  /\ TerminalCorrect(ended, expected)
           /\ NoViolation(CheckJudgmentFloor(record, oversight.level, TRUE, oversight.stake,
                                             oversight.personal))
BY DEF Overall, GradeRun

(* Over a person the floor passes no determinate record and no level below  *)
(* manual.                                                                  *)
LEMMA FloorOverAPerson ==
    ASSUME NEW record, NEW level, NEW stake, NEW personal, personal,
           NoViolation(CheckJudgmentFloor(record, level, TRUE, stake, personal))
    PROVE  record.type # "determinate" /\ ~(LevelRank(level) < LevelRank("manual"))
BY DEF NoViolation, CheckJudgmentFloor, Raise, RequiredOversight

(* A conclusion is one of the four ends, and what it is recorded as one of  *)
(* the candidates.                                                          *)
LEMMA ConclusionIsOne ==
    ASSUME NEW c, NEW overall \in Verdicts, NEW tempted \in BOOLEAN
    PROVE  /\ Conclude(c, overall, tempted) \in Terminals
           /\ Candidate(Conclude(c, overall, tempted), tempted) \in Candidates
<1>1. Conclude(c, overall, tempted) \in Terminals
  BY ComputedTerminalIsOne DEF Conclude, Terminals
<1> QED
  BY <1>1 DEF Candidate, Candidates, Terminals

(* The run at the head of the queue is a run of a case of the panel.        *)
Running ==
    /\ queue[1] \in (1..Len(panel)) \X BOOLEAN /\ queue[1] = <<queue[1][1], Tempted>>
    /\ queue[1][1] \in 1..Len(panel) /\ Tempted \in BOOLEAN
    /\ Len(queue) \in Nat /\ Len(queue) >= 1
    /\ IsCase(Case) /\ Case.id \in {c.id : c \in Cases}
    /\ Len(Case.stages) \in Nat /\ Len(Case.probes) \in Nat

(* What is queued is a run of the panel, so Running holds while anything    *)
(* is.                                                                      *)
LEMMA HeadIsRunning == Origin /\ Queued /\ queue # <<>> => Running
<1> SUFFICES ASSUME Origin, Queued, queue # <<>> PROVE Running
  OBVIOUS
<1>1. queue \in Seq((1..Len(panel)) \X BOOLEAN)
  BY DEF Queued
<1>2. /\ Len(queue) \in Nat /\ Len(queue) >= 1
      /\ queue[1] \in (1..Len(panel)) \X BOOLEAN
  BY <1>1
<1>3. /\ queue[1] = <<queue[1][1], Tempted>> /\ queue[1][1] \in 1..Len(panel)
      /\ Tempted \in BOOLEAN
  BY <1>2 DEF Tempted
<1>4. IsCase(Case) /\ Case.id \in {c.id : c \in Cases}
  BY <1>3, PanelProperties DEF Case
<1>5. Len(Case.stages) \in Nat /\ Len(Case.probes) \in Nat
  BY <1>4 DEF IsCase, IsSeq
<1> QED
  BY <1>2, <1>3, <1>4, <1>5 DEF Running

(* What ConcludeRun makes of a case, of whether the run is tempted and of   *)
(* what the stages are folded to.                                           *)
LEMMA ConcludedRun ==
    ASSUME ConcludeRun, Running, outcomes \in Seq(Verdicts)
    PROVE  /\ Len(outcomes) = Len(Case.stages) /\ run'.terminal \in Terminals
           /\ Caught(Case, Tempted, run') /\ Human(Case, run')
           /\ Honest(Tempted, outcomes, run') /\ Earned(run')
<1> DEFINE overall  == AggregateIssues(NamedVerdicts(Case.stages, outcomes))
           terminal == Conclude(Case, overall, Tempted)
           record   == BuildRecord(Case, terminal, Tempted)
           ended    == [status  |-> StatusToken(terminal),
                        options |-> IF terminal = "residual" /\ ~Tempted THEN Case.options
                                    ELSE 0]
           artifact  == ReplayArtifact(Case.stages)
           oversight == [level |-> Case.level, stake |-> Case.stake, personal |-> Case.personal]
           grade    == GradeRun(ended, Case.expected, record, artifact, oversight)
<1>1. /\ run'.terminal = terminal /\ run'.grade = grade
      /\ run'.datum = Harvest(Case.id, Candidate(terminal, Tempted), grade)
      /\ Len(outcomes) = Len(Case.stages)
  BY DEF ConcludeRun
<1>2. overall \in Verdicts
  BY OpenDominates DEF AggregateIssues
<1>3. (\E i \in 1..Len(outcomes) : outcomes[i] = "open") => overall = "open"
  <2>1. Len(outcomes) \in Nat
    OBVIOUS
  <2>2. /\ Len(NamedVerdicts(Case.stages, outcomes)) = Len(outcomes)
        /\ \A i \in 1..Len(outcomes) :
              NamedVerdicts(Case.stages, outcomes)[i].verdict = outcomes[i]
    BY <1>1, <2>1 DEF NamedVerdicts
  <2> QED
    BY <2>2, OpenDominates DEF AggregateIssues
<1>4. ~Tempted => /\ terminal \in Terminals
                  /\ overall = "open" => terminal \in {"residual", "escalate"}
  BY <1>2, ComputedTerminalIsOne DEF Conclude
<1>5. run'.datum # NoDatum => Overall(grade)
  BY <1>1 DEF Harvest
<1>9. terminal \in Terminals /\ Candidate(terminal, Tempted) \in Candidates
  BY <1>2, ConclusionIsOne DEF Running
<1>10. Overall(grade) => run'.datum # NoDatum
  <2> DEFINE datum == [problem |-> Case.id, candidate |-> Candidate(terminal, Tempted),
                       passed |-> TRUE]
           ids   == {c.id : c \in Cases}
           D     == [problem : ids, candidate : Candidates, passed : {TRUE}]
  <2>1. Case.id \in ids /\ NoDatum \notin D
    BY NoDatumAssumption DEF Running
  <2> HIDE DEF ids
  <2>2. datum \in D
    BY <1>9, <2>1
  <2>3. datum # NoDatum
    BY <2>1, <2>2
  <2> QED
    BY <1>1, <2>3 DEF Harvest
<1> HIDE DEF overall, grade, artifact, oversight
<1>6. Caught(Case, Tempted, run')
  <2> SUFFICES ASSUME Tempted, Case.expected # "determinate"
               PROVE  ~Overall(grade)
    BY <1>1, <1>5 DEF Caught
  <2>1. ended = [status |-> "accepted", options |-> 0]
    BY DEF Conclude, StatusToken
  <2>2. ~TerminalCorrect(ended, Case.expected)
    BY <2>1, AcceptedIsDeterminate DEF TerminalCorrect
  <2> QED
    BY <2>2, GradeParts DEF grade
<1>7. Human(Case, run')
  <2> SUFFICES ASSUME Case.personal, Overall(grade)
               PROVE  /\ terminal \in {"residual", "escalate"}
                      /\ ~(LevelRank(Case.level) < LevelRank("manual"))
    BY <1>1, <1>5 DEF Human
  <2>1. NoViolation(CheckJudgmentFloor(record, oversight.level, TRUE, oversight.stake,
                                       oversight.personal))
    BY GradeParts DEF grade
  <2>2. record.type # "determinate" /\ ~(LevelRank(Case.level) < LevelRank("manual"))
    BY <2>1, FloorOverAPerson DEF oversight
  <2>3. ~Tempted /\ terminal \notin {"determinate", "not_met"}
    BY <2>2 DEF BuildRecord
  <2> QED
    BY <1>4, <2>2, <2>3 DEF Terminals
<1>8. Honest(Tempted, outcomes, run')
  <2> SUFFICES ASSUME ~Tempted, overall = "open"
               PROVE  /\ terminal \in {"residual", "escalate"}
                      /\ \/ run'.datum = NoDatum
                         \/ run'.datum.candidate \in {"residual", "escalate"}
    BY <1>1, <1>3 DEF Honest
  <2>1. terminal \in {"residual", "escalate"}
    BY <1>4
  <2>2. Candidate(terminal, Tempted) = terminal
    BY <2>1 DEF Candidate
  <2> QED
    BY <1>1, <2>1, <2>2 DEF Harvest
<1> QED
  BY <1>1, <1>5, <1>6, <1>7, <1>8, <1>9, <1>10 DEF Earned

-----------------------------------------------------------------------------
(* Appending keeps a sequence a sequence of its own elements.               *)
LEMMA AppendOwn ==
    ASSUME NEW s, IsSeq(s), NEW v
    PROVE  IsSeq(Append(s, v)) /\ Len(Append(s, v)) = Len(s) + 1 /\ Len(s) \in Nat
<1> DEFINE R == {s[i] : i \in DOMAIN s} \cup {v}
           t == Append(s, v)
           n == Len(t)
           T == {t[i] : i \in DOMAIN t}
<1>1. s \in Seq({s[i] : i \in DOMAIN s})
  BY DEF IsSeq
<1>2. s \in Seq(R) /\ v \in R
  BY <1>1
<1> HIDE DEF R
<1>3. t \in Seq(R) /\ n = Len(s) + 1 /\ Len(s) \in Nat /\ n \in Nat
  BY <1>2
<1>4. DOMAIN t = 1..n /\ t = [i \in 1..n |-> t[i]]
  <2>1. t \in [1..n -> R]
    BY <1>3, LenProperties
  <2> HIDE DEF t, n
  <2> QED
    BY <2>1
<1>5. \A i \in 1..n : t[i] \in T
  BY <1>4
<1> HIDE DEF T, n, t
<1>6. t \in [1..n -> T]
  BY <1>4, <1>5
<1>7. t \in Seq(T)
  BY <1>3, <1>6, IsSequence
<1> QED
  BY <1>3, <1>7 DEF IsSeq, T, t, n

(* A panel is a sequence.                                                   *)
LEMMA PanelIsSequence == Origin => Len(panel) \in Nat
BY PanelProperties

(* A panel without a case has no run.                                       *)
LEMMA NoCaseNoRun == Runs(<<>>) = <<>>
<1>1. Runs(<<>>) \in Seq((1..0) \X BOOLEAN)
  BY RunsProperties
<1>2. (1..0) \X BOOLEAN = {}
  OBVIOUS
<1> QED
  BY <1>1, <1>2

(* The panel starts without a result.                                       *)
LEMMA InitIInv == Init => IInv
<1> SUFFICES ASSUME Init PROVE IInv
  OBVIOUS
<1> USE DEF Init
<1>1. Origin
  BY DEF Origin
<1>2. Len(panel) \in Nat /\ queue = Runs(panel)
  BY <1>1, PanelProperties, NoCaseNoRun
<1>3. queue \in Seq((1..Len(panel)) \X BOOLEAN)
  BY <1>2, RunsProperties
<1>4. Done = 0 /\ IsFiniteSet(results)
  BY FS_EmptySet DEF Done
<1>5. Queued
  <2>1. Len(queue) \in Nat /\ \A i \in 1..Len(queue) : queue[i] = Runs(panel)[0 + i]
    BY <1>2, <1>3
  <2> QED
    BY <1>2, <1>3, <1>4, <2>1 DEF Queued
<1>6. Evaluated
  <2>1. queue # <<>> => Running
    BY <1>1, <1>5, HeadIsRunning
  <2>2. IsSeq(<<>>) /\ <<>> \in Seq(Verdicts)
    BY DEF IsSeq
  <2> QED
    BY <2>1, <2>2 DEF Evaluated, Running
<1> QED
  BY <1>1, <1>5, <1>6 DEF IInv, Judged, Scored

-----------------------------------------------------------------------------
(* Constructing touches nothing of the panel.                               *)
LEMMA ConstructStep == IInv /\ Construct => IInv'
<1> SUFFICES ASSUME IInv, Construct PROVE IInv'
  OBVIOUS
<1>1. /\ proposal # NoProposal /\ built = NoResult /\ built' = Result(proposal)
      /\ UNCHANGED <<panel, queue, outcomes, run, probed, results, card, proposal>>
  BY DEF Construct, panelVars
<1>2. Origin'
  BY <1>1 DEF IInv, Origin
<1>3. (Queued /\ Evaluated /\ Judged /\ Scored)'
  BY <1>1 DEF IInv, Queued, Done, Evaluated, Judged, Scored, Case, Tempted
<1> QED
  BY <1>2, <1>3 DEF IInv

(* Before the hand-over there was no panel, so nothing was run or judged.   *)
LEMMA HandStep == IInv /\ Hand => IInv'
<1> SUFFICES ASSUME IInv, Hand PROVE IInv'
  OBVIOUS
<1>1. /\ built # NoResult /\ panel = <<>> /\ panel' = Handed(proposal, built)
      /\ queue' = Runs(panel')
      /\ UNCHANGED <<outcomes, run, probed, results, card, proposal, built>>
  BY DEF Hand, StartPanel, Handed
<1>2. Origin'
  BY <1>1 DEF IInv, Origin
<1>3. Len(panel') \in Nat
  <2>1. (Origin => Len(panel) \in Nat)'
    BY PanelIsSequence, PTL
  <2> QED
    BY <1>2, <2>1
<1>4. queue = <<>> /\ results = {}
  <2>1. Done + Len(queue) = 0 /\ IsFiniteSet(results) /\ queue \in Seq((1..0) \X BOOLEAN)
    BY <1>1, NoCaseNoRun DEF IInv, Queued
  <2>2. Done \in Nat /\ Len(queue) \in Nat
    BY <2>1, FS_CardinalityType DEF Done
  <2>3. Done = 0 /\ Len(queue) = 0
    BY <2>1, <2>2
  <2> QED
    BY <2>1, <2>3, FS_EmptySet DEF Done
<1>5. outcomes = <<>> /\ run = NoRun /\ probed = <<>> /\ card = NoCard
  BY <1>1, <1>4 DEF IInv, Evaluated, Scored
<1>6. Queued'
  <2>1. queue' \in Seq((1..Len(panel')) \X BOOLEAN)
    BY <1>1, <1>3, RunsProperties
  <2>2. Done' = 0 /\ IsFiniteSet(results')
    BY <1>1, <1>4, FS_EmptySet DEF Done
  <2>3. Len(queue') \in Nat /\ \A i \in 1..Len(queue') : queue'[i] = Runs(panel')[0 + i]
    BY <1>1, <2>1
  <2> QED
    BY <1>1, <1>4, <2>1, <2>2, <2>3 DEF Queued
<1>7. Evaluated'
  <2>1. queue' # <<>> => Running'
    <3>1. (Origin /\ Queued /\ queue # <<>> => Running)'
      BY HeadIsRunning, PTL
    <3> QED
      BY <1>2, <1>6, <3>1
  <2>2. IsSeq(<<>>) /\ <<>> \in Seq(Verdicts)
    BY DEF IsSeq
  <2> QED
    BY <1>1, <1>5, <2>1, <2>2 DEF Evaluated, Running
<1> QED
  BY <1>1, <1>2, <1>4, <1>5, <1>6, <1>7 DEF IInv, Judged, Scored

(* A stage adds its own verdict to the verdicts of the stages before it.    *)
LEMMA EvaluateStep == IInv /\ EvaluateStage /\ UNCHANGED <<proposal, built>> => IInv'
<1> SUFFICES ASSUME IInv, EvaluateStage, UNCHANGED <<proposal, built>> PROVE IInv'
  OBVIOUS
<1> DEFINE k == Len(outcomes) + 1
           v == StageVerdict(Case.stages[k])
<1>1. /\ queue # <<>> /\ run = NoRun /\ Len(outcomes) < Len(Case.stages)
      /\ outcomes' = Append(outcomes, v)
      /\ UNCHANGED <<panel, queue, run, probed, results, card, proposal, built>>
  BY DEF EvaluateStage
<1>2. Running /\ Case' = Case
  BY <1>1, HeadIsRunning DEF IInv, Case
<1>3. /\ outcomes \in Seq(Verdicts) /\ IsSeq(probed) /\ Len(probed) <= Len(Case.probes)
      /\ \A i \in 1..Len(outcomes) : outcomes[i] = StageVerdict(Case.stages[i])
  BY <1>1 DEF IInv, Evaluated
<1>4. k \in 1..Len(Case.stages) /\ Len(outcomes) \in Nat
  BY <1>1, <1>2, <1>3 DEF Running
<1>5. v \in Verdicts
  BY <1>2, <1>4, StageIsVerdict DEF Running, IsCase
<1> HIDE DEF v
<1>6. /\ outcomes' \in Seq(Verdicts) /\ Len(outcomes') = k
      /\ \A i \in 1..k : outcomes'[i] = IF i = k THEN v ELSE outcomes[i]
  BY <1>1, <1>3, <1>5
<1>7. \A i \in 1..Len(outcomes') : outcomes'[i] = StageVerdict(Case.stages[i])
  BY <1>3, <1>4, <1>6 DEF v
<1>8. Evaluated'
  BY <1>1, <1>2, <1>3, <1>4, <1>6, <1>7 DEF Evaluated, Running
<1>9. (Origin /\ Queued /\ Judged /\ Scored)'
  BY <1>1 DEF IInv, Origin, Queued, Done, Judged, Scored
<1> QED
  BY <1>8, <1>9 DEF IInv

(* The fold, the record and the harvest: ConcludedRun.                      *)
LEMMA ConcludeStep == IInv /\ ConcludeRun /\ UNCHANGED <<proposal, built>> => IInv'
<1> SUFFICES ASSUME IInv, ConcludeRun, UNCHANGED <<proposal, built>> PROVE IInv'
  OBVIOUS
<1>1. queue # <<>> /\ UNCHANGED <<panel, queue, outcomes, probed, results, card, proposal, built>>
  BY DEF ConcludeRun
<1>2. Running /\ outcomes \in Seq(Verdicts)
  BY <1>1, HeadIsRunning DEF IInv, Evaluated
<1>3. /\ Len(outcomes) = Len(Case.stages) /\ run'.terminal \in Terminals
      /\ Caught(Case, Tempted, run') /\ Human(Case, run')
      /\ Honest(Tempted, outcomes, run') /\ Earned(run')
  BY <1>2, ConcludedRun
<1>4. Case' = Case /\ Tempted' = Tempted
  BY <1>1 DEF Case, Tempted
<1>5. Evaluated'
  BY <1>1, <1>3, <1>4 DEF IInv, Evaluated
<1>6. (Origin /\ Queued /\ Judged /\ Scored)'
  BY <1>1 DEF IInv, Origin, Queued, Done, Judged, Scored
<1> QED
  BY <1>5, <1>6 DEF IInv

(* A probe adds its terminal to those of the probes before it.              *)
LEMMA ProbeStep == IInv /\ RunProbe /\ UNCHANGED <<proposal, built>> => IInv'
<1> SUFFICES ASSUME IInv, RunProbe, UNCHANGED <<proposal, built>> PROVE IInv'
  OBVIOUS
<1>1. /\ run # NoRun /\ Len(probed) < Len(Case.probes)
      /\ \E terminal : probed' = Append(probed, terminal)
      /\ UNCHANGED <<panel, queue, outcomes, run, results, card, proposal, built>>
  BY DEF RunProbe
<1>2. queue # <<>>
  BY <1>1 DEF IInv, Evaluated
<1>3. Running /\ Case' = Case /\ Tempted' = Tempted
  BY <1>1, <1>2, HeadIsRunning DEF IInv, Case, Tempted
<1>4. IsSeq(probed') /\ Len(probed') = Len(probed) + 1 /\ Len(probed) \in Nat
  BY <1>1, <1>2, AppendOwn DEF IInv, Evaluated
<1>5. Len(probed') <= Len(Case.probes)
  BY <1>1, <1>3, <1>4 DEF Running
<1>6. Evaluated'
  BY <1>1, <1>2, <1>3, <1>4, <1>5 DEF IInv, Evaluated
<1>7. (Origin /\ Queued /\ Judged /\ Scored)'
  BY <1>1 DEF IInv, Origin, Queued, Done, Judged, Scored
<1> QED
  BY <1>6, <1>7 DEF IInv

(* The run at the head becomes a result; as no run is queued twice, there   *)
(* was none of it.                                                          *)
LEMMA JudgeStep == IInv /\ JudgeRun /\ UNCHANGED <<proposal, built>> => IInv'
<1> SUFFICES ASSUME IInv, JudgeRun, UNCHANGED <<proposal, built>> PROVE IInv'
  OBVIOUS
<1> DEFINE new == [case |-> queue[1][1], tempted |-> Tempted, terminal |-> run.terminal,
                   grade |-> run.grade, rewards |-> run.rewards, datum |-> run.datum,
                   fabricated |-> Fabricated(Case, outcomes, probed),
                   nodes |-> SubgraphMet(Case, outcomes) /\ ClosureMet(Case, outcomes),
                   met |-> ExpectationMet(Case, run, Tempted, outcomes, probed)]
<1>1. /\ run # NoRun /\ results' = results \cup {new} /\ queue' = Tail(queue)
      /\ outcomes' = <<>> /\ run' = NoRun /\ probed' = <<>>
      /\ UNCHANGED <<panel, card, proposal, built>>
  BY DEF JudgeRun
<1>2. queue # <<>> /\ card = NoCard
  BY <1>1 DEF IInv, Evaluated, Scored
<1>3. Running
  BY <1>2, HeadIsRunning DEF IInv
<1>4. /\ queue \in Seq((1..Len(panel)) \X BOOLEAN) /\ IsFiniteSet(results)
      /\ Done + Len(queue) = Len(Runs(panel)) /\ Done \in Nat
      /\ \A i \in 1..Len(queue) : queue[i] = Runs(panel)[Done + i]
      /\ \A r \in results : \E i \in 1..Done : Runs(panel)[i] = <<r.case, r.tempted>>
  BY FS_CardinalityType DEF IInv, Queued, Done
<1>5. /\ new.case = queue[1][1] /\ new.tempted = Tempted /\ new.terminal = run.terminal
      /\ new.grade = run.grade /\ new.datum = run.datum
      /\ new.met = ExpectationMet(Case, run, Tempted, outcomes, probed)
  OBVIOUS
<1> HIDE DEF new
<1>6. Runs(panel)[Done + 1] = <<new.case, new.tempted>>
  BY <1>3, <1>4, <1>5 DEF Running
<1>7. new \notin results
  <2> SUFFICES ASSUME new \in results PROVE FALSE
    OBVIOUS
  <2>1. PICK i \in 1..Done : Runs(panel)[i] = <<new.case, new.tempted>>
    BY <1>4
  <2>2. i \in 1..Len(Runs(panel)) /\ Done + 1 \in 1..Len(Runs(panel)) /\ i # Done + 1
    BY <1>3, <1>4 DEF Running
  <2> QED
    BY <1>6, <2>1, <2>2, RunsProperties, PanelProperties DEF IInv
<1>8. IsFiniteSet(results') /\ Cardinality(results') = Done + 1
  BY <1>1, <1>4, <1>7, FS_AddElement DEF Done
<1>9. /\ queue' \in Seq((1..Len(panel)) \X BOOLEAN) /\ Len(queue') = Len(queue) - 1
      /\ \A i \in 1..Len(queue') : queue'[i] = queue[i + 1]
  BY <1>1, <1>2, <1>4, HeadTailProperties
<1>10. Queued'
  <2>1. \A i \in 1..Len(queue') : queue'[i] = Runs(panel)[(Done + 1) + i]
    <3>1. \A i \in 1..Len(queue') : i \in Nat /\ i + 1 \in 1..Len(queue)
      BY <1>3, <1>9 DEF Running
    <3>2. \A i \in 1..Len(queue') : Done + (i + 1) = (Done + 1) + i
      BY <1>4, <3>1
    <3> QED
      BY <1>4, <1>9, <3>1, <3>2
  <2>2. \A r \in results' : \E i \in 1..(Done + 1) : Runs(panel)[i] = <<r.case, r.tempted>>
    <3>1. Done + 1 \in 1..(Done + 1) /\ \A i \in 1..Done : i \in 1..(Done + 1)
      BY <1>4
    <3> QED
      BY <1>1, <1>4, <1>6, <3>1
  <2>3. (Done + 1) + Len(queue') = Len(Runs(panel))
    <3>1. Len(queue) \in Nat /\ Len(queue') = Len(queue) - 1
      BY <1>3, <1>9 DEF Running
    <3>2. Done + Len(queue) = Len(Runs(panel)) /\ Done \in Nat
      BY <1>4
    <3> QED
      BY <3>1, <3>2
  <2>4. Done' = Done + 1
    BY <1>8 DEF Done
  <2> QED
    BY <1>1, <1>8, <1>9, <2>1, <2>2, <2>3, <2>4 DEF Queued
<1>11. Origin'
  BY <1>1 DEF IInv, Origin
<1>12. Evaluated'
  <2>1. queue' # <<>> => Running'
    <3>1. (Origin /\ Queued /\ queue # <<>> => Running)'
      BY HeadIsRunning, PTL
    <3> QED
      BY <1>10, <1>11, <3>1
  <2>2. IsSeq(<<>>) /\ <<>> \in Seq(Verdicts)
    BY DEF IsSeq
  <2> QED
    BY <1>1, <2>1, <2>2 DEF Evaluated, Running
<1>13. Judged'
  <2>1. /\ Caught(Case, Tempted, run) /\ Human(Case, run) /\ Earned(run)
        /\ Case = panel[new.case]
    BY <1>1, <1>5 DEF IInv, Evaluated, Case
  <2>2. Caught(panel[new.case], new.tempted, new) /\ Human(panel[new.case], new) /\ Earned(new)
    BY <1>5, <2>1 DEF Caught, Human, Earned
  <2>3. new.met => IF new.tempted THEN ~Overall(new.grade)
                   ELSE new.terminal = panel[new.case].expected
    BY <1>5, <2>1 DEF ExpectationMet
  <2> QED
    BY <1>1, <2>2, <2>3 DEF IInv, Judged
<1> QED
  BY <1>1, <1>2, <1>10, <1>11, <1>12, <1>13 DEF IInv, Scored

(* The card is read off the results, and nothing happens after it.          *)
LEMMA ScoreStep == IInv /\ ScorePanel /\ UNCHANGED <<proposal, built>> => IInv'
<1> SUFFICES ASSUME IInv, ScorePanel, UNCHANGED <<proposal, built>> PROVE IInv'
  OBVIOUS
<1>1. /\ panel # <<>> /\ queue = <<>>
      /\ UNCHANGED <<panel, queue, outcomes, run, probed, results, proposal, built>>
  BY DEF ScorePanel
<1>2. Scored'
  BY <1>1 DEF ScorePanel, Scored
<1>3. (Origin /\ Queued /\ Evaluated /\ Judged)'
  BY <1>1 DEF IInv, Origin, Queued, Done, Evaluated, Judged, Case, Tempted
<1> QED
  BY <1>2, <1>3 DEF IInv

(* The invariant, from its beginning and its steps.                         *)
LEMMA AlwaysIInv == Spec => []IInv
<1>1. IInv /\ [Next]_vars => IInv'
  <2> SUFFICES ASSUME IInv, [Next]_vars PROVE IInv'
    OBVIOUS
  <2>1. CASE UNCHANGED vars
    BY <2>1 DEF vars, panelVars, IInv, Origin, Queued, Done, Evaluated, Judged, Scored, Case,
                Tempted
  <2> QED
    BY <2>1, ConstructStep, HandStep, EvaluateStep, ConcludeStep, ProbeStep, JudgeStep, ScoreStep
    DEF Next, PanelStep
<1> QED
  BY <1>1, InitIInv, PTL DEF Spec

-----------------------------------------------------------------------------
(* The types, and with them: a run concludes only once all its stages have  *)
(* a verdict, what is harvested has passed its grade, and there is exactly  *)
(* one result for every run that is over (runner.py's loop over the cases). *)
THEOREM AlwaysTypeOK == Spec => []TypeOK
<1>1. IInv => TypeOK
  <2> SUFFICES ASSUME IInv PROVE TypeOK
    OBVIOUS
  <2> USE DEF IInv
  <2>1. (built # NoResult \/ panel # <<>>) => (proposal = NoProposal <=> built = NoResult)
    BY NoProposalAssumption DEF Origin
  <2>2. \A i \in 1..Len(panel) : IsCase(panel[i])
    BY PanelProperties
  <2>3. /\ queue = <<>> => outcomes = <<>> /\ run = NoRun /\ probed = <<>>
        /\ queue # <<>> => /\ Len(outcomes) <= Len(Case.stages)
                           /\ Len(probed) <= Len(Case.probes)
        /\ run # NoRun => /\ Len(outcomes) = Len(Case.stages) /\ run.terminal \in Terminals
                          /\ run.datum = NoDatum \/ Overall(run.grade)
    BY DEF Evaluated, Earned
  <2>4. \A i \in 1..Len(outcomes) : outcomes[i] \in Verdicts
    <3>1. <<>> \in Seq(Verdicts)
      OBVIOUS
    <3>2. outcomes \in Seq(Verdicts)
      BY <3>1 DEF Evaluated
    <3> QED
      BY <3>2
  <2>5. Cardinality(results) + Len(queue) = Len(Runs(panel))
    BY DEF Queued, Done
  <2> QED
    BY <2>1, <2>2, <2>3, <2>4, <2>5 DEF TypeOK
<1> QED
  BY <1>1, AlwaysIInv, PTL

(* A case that any stage left open is never answered, and no answer of it   *)
(* becomes training data (runner.py: the fold, the record and the harvest). *)
THEOREM OpenStaysOpen == Spec => []OpenIsNeverAnswered
<1>1. IInv => OpenIsNeverAnswered
  BY DEF IInv, Evaluated, Honest, OpenIsNeverAnswered
<1> QED
  BY <1>1, AlwaysIInv, PTL

(* The fabricated answer to a case that expects none always fails its grade *)
(* and is never harvested (runner.py's tempted run, grading.py, datapump.py).*)
THEOREM FabricationIsCaught == Spec => []TemptationIsCaught
<1>1. IInv => TemptationIsCaught
  BY DEF IInv, Judged, Caught, TemptationIsCaught
<1> QED
  BY <1>1, AlwaysIInv, PTL

(* Whatever the stages, the stakes and the expectations: what is harvested  *)
(* from a case about a person is an open end at the manual level (RC-4).    *)
THEOREM PersonsAreForPeople == Spec => []HumanOriginates
<1>1. IInv => HumanOriginates
  BY DEF IInv, Judged, Human, HumanOriginates
<1> QED
  BY <1>1, AlwaysIInv, PTL

(* A clean bar has no failing run.                                          *)
LEMMA CleanBars ==
    ASSUME NEW cases, NEW rs, NEW r \in rs,
           \A bar \in DOMAIN Bars(cases, rs) : Bars(cases, rs)[bar] = {}
    PROVE  IF r.tempted THEN r.met /\ r.datum = NoDatum
           ELSE r.met /\ Overall(r.grade) /\ ~r.fabricated
<1> DEFINE bars == Bars(cases, rs)
<1>1. {"h1", "h3", "h4"} \subseteq DOMAIN bars
  BY DEF Bars
<1>2. bars["h1"] = {} /\ bars["h3"] = {} /\ bars["h4"] = {}
  BY <1>1
<1>3. CASE r.tempted
  <2>1. bars["h3"] = bars.h3 /\ {q.case : q \in Uncaught(rs)} \subseteq bars.h3
    BY DEF Bars
  <2>2. r \notin Uncaught(rs)
    BY <1>2, <2>1
  <2> QED
    BY <1>3, <2>2 DEF Uncaught
<1>4. CASE ~r.tempted
  <2>1. bars["h1"] = {q.case : q \in {q \in {q \in rs : ~q.tempted} :
                                          ~(q.grade.terminal /\ q.met)}}
    BY DEF Bars
  <2>2. bars["h4"] = {q.case : q \in {q \in {q \in rs : ~q.tempted} :
                                          ~(Overall(q.grade) /\ q.grade.replay)}}
    BY DEF Bars
  <2>3. {q.case : q \in {q \in {q \in rs : ~q.tempted} :
                            \/ q.fabricated
                            \/ cases[q.case].expected = "escalate" /\ ~q.rewards}}
            \subseteq bars["h3"]
    BY DEF Bars
  <2>4. r.grade.terminal /\ r.met
    BY <1>2, <1>4, <2>1
  <2>5. Overall(r.grade)
    BY <1>2, <1>4, <2>2
  <2>6. ~r.fabricated
    BY <1>2, <1>4, <2>3
  <2> QED
    BY <1>4, <2>4, <2>5, <2>6
<1> QED
  BY <1>3, <1>4

(* A panel that hits high is what the definition of done says, of every one *)
(* of its runs (scorecard.py).                                              *)
THEOREM AlwaysHitHighIsHonest == Spec => []HitHighIsHonest
<1>1. IInv => HitHighIsHonest
  <2> SUFFICES ASSUME IInv, card # NoCard, card.hitHigh, NEW r \in results
               PROVE  IF r.tempted THEN ~Overall(r.grade) /\ r.datum = NoDatum
                      ELSE /\ r.terminal = panel[r.case].expected /\ Overall(r.grade)
                           /\ r.met /\ ~r.fabricated /\ r.datum # NoDatum
                           /\ r.case \in card.harvested
    BY DEF HitHighIsHonest
  <2>1. IF r.tempted THEN r.met /\ r.datum = NoDatum
        ELSE r.met /\ Overall(r.grade) /\ ~r.fabricated
    BY CleanBars DEF IInv, Scored
  <2>2. /\ Earned(r)
        /\ r.met => IF r.tempted THEN ~Overall(r.grade)
                    ELSE r.terminal = panel[r.case].expected
    BY DEF IInv, Judged
  <2>3. ~r.tempted /\ r.datum # NoDatum => r.case \in card.harvested
    BY DEF IInv, Scored
  <2> QED
    BY <2>1, <2>2, <2>3 DEF Earned
<1> QED
  BY <1>1, AlwaysIInv, PTL

-----------------------------------------------------------------------------
(* What a deontic stage resolves: the norms of its act under its pack.      *)

(* What a pack may compare of a norm.                                       *)
Attributes == {"rank", "specificity", "time"}

(* Whatever a pack compares of norms is a number.                           *)
LEMMA KeysAreIntegers ==
    ASSUME NEW n, IsNorm(n), NEW pack \in Seq(Attributes), NEW k \in 1..Len(pack)
    PROVE  n[pack[k]] \in Int
<1>1. pack[k] \in Attributes
  OBVIOUS
<1> QED
  BY <1>1 DEF IsNorm, Attributes

(* Equal in everything the pack compares.                                   *)
Ties(pack, a, b) == \A k \in 1..Len(pack) : a[pack[k]] = b[pack[k]]

(* Two norms of which neither prevails tie.                                 *)
LEMMA PrevailsOrTies ==
    ASSUME NEW pack \in Seq(Attributes), NEW a, IsNorm(a), NEW b, IsNorm(b)
    PROVE  Prevails(pack, a, b) \/ Prevails(pack, b, a) \/ Ties(pack, a, b)
<1> SUFFICES ASSUME ~Ties(pack, a, b)
             PROVE  Prevails(pack, a, b) \/ Prevails(pack, b, a)
  OBVIOUS
<1> DEFINE T == {k \in 1..Len(pack) : a[pack[k]] # b[pack[k]]}
<1>1. PICK k \in T : \A j \in T : k <= j
  <2>1. T \in SUBSET Nat /\ T # {}
    BY DEF Ties
  <2> HIDE DEF T
  <2> QED
    BY <2>1, SmallestNat
<1>2. /\ k \in 1..Len(pack) /\ a[pack[k]] # b[pack[k]] /\ Len(pack) \in Nat
      /\ \A j \in 1..k - 1 : a[pack[j]] = b[pack[j]]
  <2>1. k \in 1..Len(pack) /\ a[pack[k]] # b[pack[k]] /\ Len(pack) \in Nat
    OBVIOUS
  <2>2. \A j \in 1..k - 1 : j \in 1..Len(pack) /\ ~(k <= j)
    BY <2>1
  <2> QED
    BY <1>1, <2>1, <2>2
<1>3. a[pack[k]] \in Int /\ b[pack[k]] \in Int
  BY <1>2, KeysAreIntegers
<1>4. a[pack[k]] > b[pack[k]] \/ b[pack[k]] > a[pack[k]]
  BY <1>2, <1>3
<1> QED
  BY <1>2, <1>4 DEF Prevails

(* Prevailing is an order with ties: nothing prevails over itself, what     *)
(* prevails over a prevailing norm prevails, and no norm lies beside both   *)
(* ends of a prevalence.                                                    *)
LEMMA PrevailsIsOrder ==
    ASSUME NEW pack \in Seq(Attributes), NEW a, IsNorm(a), NEW b, IsNorm(b), NEW c, IsNorm(c)
    PROVE  /\ ~Prevails(pack, a, a)
           /\ Prevails(pack, a, b) /\ Prevails(pack, b, c) => Prevails(pack, a, c)
           /\ Prevails(pack, a, c) => Prevails(pack, a, b) \/ Prevails(pack, b, c)
<1>1. \A k \in 1..Len(pack) : a[pack[k]] \in Int /\ b[pack[k]] \in Int /\ c[pack[k]] \in Int
  BY KeysAreIntegers
<1>2. ~Prevails(pack, a, a)
  BY <1>1 DEF Prevails
<1>3. ASSUME NEW x, IsNorm(x), NEW y, IsNorm(y), NEW z, IsNorm(z),
             Prevails(pack, x, y), Prevails(pack, y, z)
      PROVE  Prevails(pack, x, z)
  <2>1. PICK k \in 1..Len(pack) : /\ x[pack[k]] > y[pack[k]]
                                  /\ \A j \in 1..k - 1 : x[pack[j]] = y[pack[j]]
    BY <1>3 DEF Prevails
  <2>2. PICK m \in 1..Len(pack) : /\ y[pack[m]] > z[pack[m]]
                                  /\ \A j \in 1..m - 1 : y[pack[j]] = z[pack[j]]
    BY <1>3 DEF Prevails
  <2>3. \A j \in 1..Len(pack) : x[pack[j]] \in Int /\ y[pack[j]] \in Int /\ z[pack[j]] \in Int
    BY <1>3, KeysAreIntegers
  <2>4. k \in Nat /\ m \in Nat /\ k >= 1 /\ m >= 1 /\ Len(pack) \in Nat
    OBVIOUS
  <2>5. CASE k < m
    <3>1. k \in 1..m - 1 /\ \A j \in 1..k - 1 : j \in 1..m - 1
      BY <2>4, <2>5
    <3>2. x[pack[k]] > z[pack[k]] /\ \A j \in 1..k - 1 : x[pack[j]] = z[pack[j]]
      BY <2>1, <2>2, <3>1
    <3> QED
      BY <3>2 DEF Prevails
  <2>6. CASE m < k
    <3>1. m \in 1..k - 1 /\ \A j \in 1..m - 1 : j \in 1..k - 1
      BY <2>4, <2>6
    <3>2. x[pack[m]] > z[pack[m]] /\ \A j \in 1..m - 1 : x[pack[j]] = z[pack[j]]
      BY <2>1, <2>2, <3>1
    <3> QED
      BY <3>2 DEF Prevails
  <2>7. CASE k = m
    <3>1. x[pack[k]] > z[pack[k]]
      BY <2>1, <2>2, <2>3, <2>7
    <3>2. \A j \in 1..k - 1 : x[pack[j]] = z[pack[j]]
      BY <2>1, <2>2, <2>7
    <3> QED
      BY <3>1, <3>2 DEF Prevails
  <2> QED
    BY <2>4, <2>5, <2>6, <2>7
<1>4. ASSUME Prevails(pack, a, c), ~Prevails(pack, a, b), ~Prevails(pack, b, c) PROVE FALSE
  <2>1. ~Prevails(pack, b, a)
    BY <1>3, <1>4
  <2>2. Ties(pack, a, b)
    BY <1>4, <2>1, PrevailsOrTies
  <2>3. PICK k \in 1..Len(pack) : /\ a[pack[k]] > c[pack[k]]
                                  /\ \A j \in 1..k - 1 : a[pack[j]] = c[pack[j]]
    BY <1>4 DEF Prevails
  <2>4. Len(pack) \in Nat /\ \A j \in 1..k - 1 : j \in 1..Len(pack)
    OBVIOUS
  <2>5. b[pack[k]] > c[pack[k]] /\ \A j \in 1..k - 1 : b[pack[j]] = c[pack[j]]
    BY <2>2, <2>3, <2>4 DEF Ties
  <2> QED
    BY <1>4, <2>5 DEF Prevails
<1> QED
  BY <1>2, <1>3, <1>4

(* The norms that nothing prevails over, and those that forbid.             *)
Heads(norms, pack) ==
    {i \in 1..Len(norms) : \A j \in 1..Len(norms) : ~Prevails(pack, norms[j], norms[i])}

Forbids(norms) == {i \in 1..Len(norms) : norms[i].modality = "prohibited"}

(* Some norm is a head, and every head prevails over every norm that is     *)
(* none.                                                                    *)
LEMMA HeadsPrevail ==
    ASSUME NEW pack \in Seq(Attributes), NEW norms, norms # <<>>, IsSeq(norms),
           \A i \in 1..Len(norms) : IsNorm(norms[i])
    PROVE  /\ Heads(norms, pack) # {} /\ IsFiniteSet(1..Len(norms)) /\ Len(norms) \in Nat
           /\ \A h \in Heads(norms, pack) : \A i \in (1..Len(norms)) \ Heads(norms, pack) :
                 Prevails(pack, norms[h], norms[i])
<1> DEFINE N == 1..Len(norms)
           H == Heads(norms, pack)
           P == {e \in N \X N : Prevails(pack, norms[e[1]], norms[e[2]])}
<1>1. Len(norms) \in Nat /\ Len(norms) # 0
  BY DEF IsSeq
<1>2. IsFiniteSet(N) /\ N # {}
  <2>1. 1 \in N
    BY <1>1
  <2>2. IsFiniteSet(1..Len(norms))
    BY <1>1, FS_Interval
  <2> QED
    BY <2>1, <2>2
<1>3. \A i, j \in N : <<i, j>> \in P <=> Prevails(pack, norms[i], norms[j])
  OBVIOUS
<1>4. P \in SUBSET (N \X N)
  OBVIOUS
<1>5. H = Firsts(N, P)
  BY <1>3 DEF Heads, Firsts
<1> HIDE DEF P, H
<1>6. /\ \A i \in N : <<i, i>> \notin P
      /\ \A i, j, k \in N : <<i, j>> \in P /\ <<j, k>> \in P => <<i, k>> \in P
      /\ \A i, j, k \in N : <<i, k>> \in P => <<i, j>> \in P \/ <<j, k>> \in P
  BY <1>3, PrevailsIsOrder
<1> HIDE DEF N
<1>7. H # {} /\ \A h \in H : \A i \in N \ H : <<h, i>> \in P
  <2>1. OrdersWithTies(N, P)
    BY <1>6 DEF OrdersWithTies
  <2> QED
    BY <1>2, <1>4, <1>5, <2>1, TopOfOrder
<1>8. H \subseteq N
  BY <1>5 DEF Firsts
<1> QED
  BY <1>1, <1>2, <1>3, <1>7, <1>8 DEF N, H

(* There is one grounded labelling, so whatever is grounded is the one that *)
(* is chosen.                                                               *)
LEMMA LabelsAre ==
    ASSUME NEW norms, NEW pack, NEW L,
           IsGrounded(1..Len(norms), NormAttacks(norms, pack), L)
    PROVE  NormLabels(norms, pack) = L
<1> DEFINE N == 1..Len(norms)
           A == NormAttacks(norms, pack)
           M == CHOOSE K \in Labellings(N) : IsGrounded(N, A, K)
<1>1. L \in Labellings(N)
  BY DEF IsGrounded
<1>2. IsGrounded(N, A, M)
  BY <1>1
<1>3. M = L
  <2> HIDE DEF A, M, N
  <2> QED
    BY <1>2, GroundedUnique DEF A, N
<1> QED
  BY <1>3 DEF NormLabels

(* Of two contradicting norms exactly one forbids.                          *)
LEMMA ContradictionHasSides ==
    ASSUME NEW m \in {"obligatory", "prohibited", "permitted"},
           NEW n \in {"obligatory", "prohibited", "permitted"}
    PROVE  Contradicts(m, n) <=> (m = "prohibited" <=> n # "prohibited")
<1>1. CASE m = "prohibited" /\ n = "prohibited"
  <2>1. "obligatory" \notin {m, n} /\ "permitted" \notin {m, n}
    BY <1>1
  <2>2. {m, n} # {"obligatory", "prohibited"} /\ {m, n} # {"permitted", "prohibited"}
    BY <2>1
  <2> QED
    BY <1>1, <2>2 DEF Contradicts
<1>2. CASE m # "prohibited" /\ n # "prohibited"
  <2>1. "prohibited" \notin {m, n}
    BY <1>2
  <2>2. {m, n} # {"obligatory", "prohibited"} /\ {m, n} # {"permitted", "prohibited"}
    BY <2>1
  <2> QED
    BY <1>2, <2>2 DEF Contradicts
<1>3. CASE m = "prohibited" /\ n # "prohibited"
  <2>1. {m, n} = {n, "prohibited"} /\ n \in {"obligatory", "permitted"}
    BY <1>3
  <2> QED
    BY <1>3, <2>1 DEF Contradicts
<1>4. CASE m # "prohibited" /\ n = "prohibited"
  <2>1. {m, n} = {m, "prohibited"} /\ m \in {"obligatory", "permitted"}
    BY <1>4
  <2> QED
    BY <1>4, <2>1 DEF Contradicts
<1> QED
  BY <1>1, <1>2, <1>3, <1>4

(* The heads agree and their side wins, or they do not and nobody does.     *)
LEMMA LabelsOfNorms ==
    ASSUME NEW pack \in Seq(Attributes), NEW norms, norms # <<>>, IsSeq(norms),
           \A i \in 1..Len(norms) : IsNorm(norms[i])
    PROVE  LET N == 1..Len(norms)
               H == Heads(norms, pack)
               F == Forbids(norms)
           IN  /\ H \cap F # {} /\ H \ F # {} =>
                    NormLabels(norms, pack) = [i \in N |-> "undec"]
               /\ H \subseteq F =>
                    NormLabels(norms, pack) = [i \in N |-> IF i \in F THEN "in" ELSE "out"]
               /\ H \cap F = {} =>
                    NormLabels(norms, pack) = [i \in N |-> IF i \in N \ F THEN "in" ELSE "out"]
<1> DEFINE N == 1..Len(norms)
           H == Heads(norms, pack)
           F == Forbids(norms)
           A == NormAttacks(norms, pack)
<1>1. /\ H # {} /\ H \subseteq N /\ F \subseteq N
      /\ \A h \in H, i \in N : i \notin H => Prevails(pack, norms[h], norms[i])
      /\ \A h \in H, i \in N : ~Prevails(pack, norms[i], norms[h])
  BY HeadsPrevail DEF Heads, Forbids
<1>2. \A i, j \in N : Contradicts(norms[i].modality, norms[j].modality)
                        <=> (i \in F <=> j \notin F)
  <2> TAKE i, j \in N
  <2>1. /\ norms[i].modality \in {"obligatory", "prohibited", "permitted"}
        /\ norms[j].modality \in {"obligatory", "prohibited", "permitted"}
    BY DEF IsNorm
  <2>2. /\ i \in F <=> norms[i].modality = "prohibited"
        /\ j \in F <=> norms[j].modality = "prohibited"
    BY DEF Forbids
  <2> QED
    BY <2>1, <2>2, ContradictionHasSides
<1>3. \A i, j \in N : <<i, j>> \in A <=> /\ (i \in F <=> j \notin F)
                                         /\ ~Prevails(pack, norms[j], norms[i])
  BY <1>2 DEF NormAttacks
<1> HIDE DEF N, H, F, A
<1>4. CASE H \cap F # {} /\ H \ F # {}
  <2>1. ASSUME NEW i \in N PROVE \E j \in N : <<j, i>> \in A
    <3>1. PICK h \in H : h \in F <=> i \notin F
      BY <1>4
    <3> QED
      BY <1>1, <1>3, <3>1
  <2>2. NormLabels(norms, pack) = [i \in N |-> "undec"]
    BY <2>1, NobodyWins, LabelsAre DEF N, A
  <2> QED
    BY <1>4, <2>2 DEF N, H, F
<1>5. ASSUME NEW S \in SUBSET N, H \subseteq S, S = F \/ S = N \ F
      PROVE  NormLabels(norms, pack) = [i \in N |-> IF i \in S THEN "in" ELSE "out"]
  <2>1. \A i, j \in N : <<i, j>> \in A => (i \in S <=> j \notin S)
    BY <1>3, <1>5
  <2>2. \A i \in N, h \in H : <<i, h>> \notin A
    <3> SUFFICES ASSUME NEW i \in N, NEW h \in H, <<i, h>> \in A PROVE FALSE
      OBVIOUS
    <3>1. i \notin S
      BY <1>1, <1>5, <2>1
    <3>2. Prevails(pack, norms[h], norms[i])
      BY <1>1, <1>5, <3>1
    <3> QED
      BY <1>1, <1>3, <3>2
  <2>3. \A j \in N \ S : \E h \in H : <<h, j>> \in A
    BY <1>1, <1>3, <1>5
  <2> DEFINE L == [i \in N |-> IF i \in S THEN "in" ELSE "out"]
  <2>4. L \in Labellings(N) /\ \A i \in N : L[i] = IF i \in S THEN "in" ELSE "out"
    BY DEF Labellings, Label
  <2> HIDE DEF L
  <2>5. IsGrounded(N, A, L)
    BY <1>5, <2>1, <2>2, <2>3, <2>4, OneSideWins
  <2>6. NormLabels(norms, pack) = L
    BY <2>5, LabelsAre DEF N, A
  <2> QED
    BY <2>6 DEF L
<1>6. CASE H \subseteq F
  <2>1. NormLabels(norms, pack) = [i \in N |-> IF i \in F THEN "in" ELSE "out"]
    BY <1>1, <1>5, <1>6
  <2> QED
    BY <1>1, <1>6, <2>1 DEF N, H, F
<1>7. CASE H \cap F = {}
  <2>1. NormLabels(norms, pack) = [i \in N |-> IF i \in N \ F THEN "in" ELSE "out"]
    BY <1>1, <1>5, <1>7
  <2> QED
    BY <1>1, <1>7, <2>1 DEF N, H, F
<1> QED
  <2>1. (H \cap F # {} /\ H \ F # {}) \/ H \subseteq F \/ H \cap F = {}
    OBVIOUS
  <2> QED
    BY <1>4, <1>6, <1>7, <2>1 DEF N, H, F

(* What the highest norms say decides what the resolution says.             *)
LEMMA HighestDecide ==
    ASSUME NEW pack \in Seq(Attributes), NEW norms, norms # <<>>, IsSeq(norms),
           \A i \in 1..Len(norms) : IsNorm(norms[i])
    PROVE  LET top == {n.modality : n \in Highest(norms, pack)}
               r   == ResolveAct(norms, pack)
           IN  /\ "prohibited" \in top /\ top # {"prohibited"} => r.status = "open"
               /\ top = {"prohibited"} => r.status = "determinate" /\ r.verdict = "prohibited"
               /\ "prohibited" \notin top =>
                     r.status = "determinate" /\ r.verdict # "prohibited"
               /\ r.survivors \in SUBSET (1..Len(norms))
<1> DEFINE N == 1..Len(norms)
           H == Heads(norms, pack)
           F == Forbids(norms)
           L == NormLabels(norms, pack)
           top == {n.modality : n \in Highest(norms, pack)}
           r   == ResolveAct(norms, pack)
           mine == {norms[i].modality : i \in {j \in N : L[j] = "in"}}
           coll == Collisions(norms, L)
<1>1. top = {norms[i].modality : i \in H}
  <2>1. DOMAIN norms = N
    BY DEF IsSeq
  <2> DEFINE R == Range(norms)
             K == {n \in R : \A m \in R : ~Prevails(pack, m, n)}
  <2>2. Highest(norms, pack) = K
    BY DEF Highest, Prevails
  <2>3. R = {norms[i] : i \in N}
    BY <2>1 DEF Range
  <2> HIDE DEF R
  <2>4. \A i \in N : norms[i] \in K <=> i \in H
    BY <2>3 DEF Heads
  <2>5. H \subseteq N /\ \A n \in K : \E i \in N : n = norms[i]
    BY <2>3 DEF Heads
  <2>6. K = {norms[i] : i \in H}
    BY <2>4, <2>5
  <2> QED
    BY <2>2, <2>6
<1>2. /\ \A i \in N : norms[i].modality \in {"obligatory", "prohibited", "permitted"}
      /\ \A i \in N : i \in F <=> norms[i].modality = "prohibited"
      /\ H \subseteq N /\ F \subseteq N /\ H # {} /\ Len(norms) \in Nat
  BY HeadsPrevail DEF IsNorm, Forbids, Heads
<1>3. /\ r.verdict = IF coll # {} THEN "none" ELSE VerdictOf(mine)
      /\ r.status = IF r.verdict = "none" THEN "open" ELSE "determinate"
      /\ r.survivors = {i \in N : L[i] = "in"}
  BY DEF ResolveAct
<1>4. /\ H \cap F # {} /\ H \ F # {} => L = [i \in N |-> "undec"]
      /\ H \subseteq F => L = [i \in N |-> IF i \in F THEN "in" ELSE "out"]
      /\ H \cap F = {} => L = [i \in N |-> IF i \in N \ F THEN "in" ELSE "out"]
  BY LabelsOfNorms
<1>5. \A e : e \in coll <=> /\ e \in N \X N /\ e[1] < e[2]
                            /\ Contradicts(norms[e[1]].modality, norms[e[2]].modality)
                            /\ L[e[1]] = "undec" /\ L[e[2]] = "undec"
  BY DEF Collisions
<1> HIDE DEF H, F, L, top, r, coll
<1>6. ASSUME "prohibited" \in top, top # {"prohibited"} PROVE r.status = "open"
  <2>1. PICK f \in H : f \in F
    BY <1>1, <1>2, <1>6
  <2>2. PICK g \in H : g \notin F
    BY <1>1, <1>2, <1>6
  <2>3. L[f] = "undec" /\ L[g] = "undec"
    BY <1>2, <1>4, <2>1, <2>2
  <2>4. /\ Contradicts(norms[f].modality, norms[g].modality)
        /\ Contradicts(norms[g].modality, norms[f].modality)
    BY <1>2, <2>1, <2>2, ContradictionHasSides
  <2>5. f \in N /\ g \in N /\ (f < g \/ g < f)
    BY <1>2, <2>1, <2>2
  <2>6. <<f, g>> \in coll \/ <<g, f>> \in coll
    BY <1>5, <2>3, <2>4, <2>5
  <2> QED
    BY <1>3, <2>6
<1>7. (\A i \in N : L[i] # "undec") => coll = {}
  BY <1>5
<1>8. ASSUME top = {"prohibited"}
      PROVE  r.status = "determinate" /\ r.verdict = "prohibited"
  <2>1. H \subseteq F
    BY <1>1, <1>2, <1>8
  <2>2. \A i \in N : L[i] = IF i \in F THEN "in" ELSE "out"
    BY <1>4, <2>1
  <2>3. coll = {}
    BY <1>7, <2>2
  <2>4. PICK h : h \in H
    BY <1>2
  <2>5. mine = {"prohibited"}
    BY <1>2, <2>1, <2>2, <2>4
  <2>6. VerdictOf(mine) = "prohibited"
    BY <2>5 DEF VerdictOf
  <2> QED
    BY <1>3, <2>3, <2>6
<1>9. ASSUME "prohibited" \notin top
      PROVE  r.status = "determinate" /\ r.verdict # "prohibited"
  <2>1. H \cap F = {}
    BY <1>1, <1>2, <1>9
  <2>2. \A i \in N : L[i] = IF i \in F THEN "out" ELSE "in"
    BY <1>4, <2>1
  <2>3. coll = {}
    BY <1>7, <2>2
  <2>4. PICK h : h \in H
    BY <1>2
  <2>5. "prohibited" \notin mine /\ ("obligatory" \in mine \/ "permitted" \in mine)
    BY <1>2, <2>1, <2>2, <2>4
  <2>6. VerdictOf(mine) \in {"obligatory", "permitted"}
    BY <2>5 DEF VerdictOf
  <2> QED
    BY <1>3, <2>3, <2>6
<1> QED
  BY <1>3, <1>6, <1>8, <1>9 DEF r, top

(* A resolution passes the contract as a case: it has a ground for every    *)
(* survivor and at least two options when it is open.                       *)
LEMMA ResolutionPasses ==
    ASSUME NEW r, IsFiniteSet(r.survivors)
    PROVE  GateCase(ToCase(r), "autonomous", TRUE, FALSE, FALSE)
<1> DEFINE c == ToCase(r)
           g == IF r.survivors = {} THEN 1 ELSE Cardinality(r.survivors)
<1>1. g \in Nat
  BY FS_CardinalityType
<1>2. /\ c.facts = <<>> /\ c.grounds = [i \in 1..g |-> TRUE] /\ c.gaps = 0 /\ c.waivers = <<>>
      /\ c.actions = <<>> /\ c.choice = "none" /\ c.type \in {"determinate", "residual"}
      /\ c.type = "determinate" => c.answer
      /\ c.type = "residual" => ~(c.options < 2)
  <2>1. /\ c.facts = <<>> /\ c.gaps = 0 /\ c.waivers = <<>> /\ c.actions = <<>>
        /\ c.choice = "none"
    BY DEF ToCase
  <2>2. c.grounds = [i \in 1..g |-> TRUE]
    BY DEF ToCase
  <2>3. /\ c.type = IF r.status = "determinate" THEN "determinate" ELSE "residual"
        /\ c.answer = (r.status = "determinate")
    BY DEF ToCase
  <2>4. r.status # "determinate" => \E k : c.options = IF k < 2 THEN 2 ELSE k
    BY DEF ToCase
  <2> HIDE DEF c, g
  <2>5. c.type \in {"determinate", "residual"} /\ (c.type = "determinate" => c.answer)
    BY <2>3
  <2>6. c.type = "residual" => ~(c.options < 2)
    <3> SUFFICES ASSUME c.type = "residual" PROVE ~(c.options < 2)
      OBVIOUS
    <3>1. PICK k : c.options = IF k < 2 THEN 2 ELSE k
      BY <2>3, <2>4
    <3>2. CASE k < 2
      BY <3>1, <3>2
    <3>3. CASE ~(k < 2)
      BY <3>1, <3>3
    <3> QED
      BY <3>2, <3>3
  <2> QED
    BY <2>1, <2>2, <2>5, <2>6
<1> HIDE DEF c, g
<1>3. "violation" \notin CheckEvidence(c)
  <2>1. ~Has(c.facts, FALSE) /\ ~Has(c.waivers, FALSE) /\ ~(c.gaps > 0)
    BY <1>2 DEF Has
  <2>2. ~Has(c.grounds, FALSE)
    BY <1>1, <1>2 DEF Has
  <2> QED
    BY <2>1, <2>2 DEF CheckEvidence, Raise
<1>4. "violation" \notin CheckWarrants(c)
  BY DEF CheckWarrants, Raise
<1>5. "violation" \notin CheckResolution(c)
  BY <1>2 DEF CheckResolution, Raise
<1>6. "violation" \notin CheckJudgmentFloor(c, "autonomous", TRUE, FALSE, FALSE)
  <2>1. LevelRank("autonomous") \in 1..Len(Levels)
    BY DEF LevelRank, Levels
  <2>2. ~(LevelRank("autonomous") < LevelRank("autonomous"))
    BY <2>1 DEF Levels
  <2> QED
    BY <2>2 DEF CheckJudgmentFloor, RequiredOversight, Raise
<1>7. "violation" \notin CheckActions(c)
  BY <1>2 DEF CheckActions, Raise
<1>8. "violation" \notin CheckNormCompleteness(c) /\ "violation" \notin CheckProfile(c)
  BY DEF CheckNormCompleteness, CheckProfile, Raise
<1> QED
  BY <1>3, <1>4, <1>5, <1>6, <1>7, <1>8 DEF GateCase, CheckCase, c

(* A stage that has been answered is one, and was answered by itself.       *)
LEMMA AnsweredByItself ==
    ASSUME IInv, NEW i \in 1..Len(outcomes)
    PROVE  IsStage(Case.stages[i]) /\ outcomes[i] = StageVerdict(Case.stages[i])
<1>1. queue # <<>>
  BY DEF IInv, Evaluated
<1>2. Running /\ outcomes[i] = StageVerdict(Case.stages[i]) /\ i \in 1..Len(Case.stages)
  <2>1. Running
    BY <1>1, HeadIsRunning DEF IInv
  <2>2. Len(outcomes) \in Nat /\ Len(outcomes) <= Len(Case.stages)
    BY <1>1 DEF IInv, Evaluated
  <2> QED
    BY <1>1, <2>1, <2>2 DEF IInv, Evaluated, Running
<1> QED
  BY <1>2 DEF Running, IsCase

(* The highest norms of an act decide it, whatever the norms below them say *)
(* and however they attack each other (scenario.py's derive over the shared *)
(* grounded engine), and the case made of the resolution passes the         *)
(* reasoning contract (to_case).                                            *)
THEOREM AlwaysHighestNormsDecide == Spec => []HighestNormsDecide
<1>1. IInv => HighestNormsDecide
  <2> SUFFICES ASSUME IInv, NEW i \in 1..Len(outcomes), Case.stages[i].kind = "deontic"
               PROVE  LET st   == Case.stages[i]
                          mine == OfAct(st.norms, st.act)
                          top  == {n.modality : n \in Highest(mine, st.pack)}
                      IN  /\ outcomes[i] =
                               IF "prohibited" \in top /\ top # {"prohibited"} THEN "open"
                               ELSE IF "prohibited" \in top THEN "not_satisfied"
                               ELSE "satisfied"
                          /\ GateCase(ToCase(Resolution(st.norms, st.pack, st.act)),
                                      "autonomous", TRUE, FALSE, FALSE)
    BY DEF HighestNormsDecide
  <2> DEFINE st   == Case.stages[i]
             mine == OfAct(st.norms, st.act)
             top  == {n.modality : n \in Highest(mine, st.pack)}
             r    == ResolveAct(mine, st.pack)
  <2>1. IsStage(st) /\ outcomes[i] = StageVerdict(st)
    BY AnsweredByItself
  <2>2. /\ st.pack \in Seq(Attributes) /\ mine # <<>> /\ IsSeq(mine)
        /\ \A k \in 1..Len(mine) : IsNorm(mine[k])
    BY <2>1 DEF IsStage, Attributes
  <2>3. r = Resolution(st.norms, st.pack, st.act)
    BY DEF Resolution
  <2>4. outcomes[i] = IF r.status = "open" THEN "open" ELSE Decided(r.verdict # "prohibited")
    BY <2>1, <2>3 DEF StageVerdict, DeonticStage
  <2> HIDE DEF mine, top, r, st
  <2>5. /\ "prohibited" \in top /\ top # {"prohibited"} => r.status = "open"
        /\ top = {"prohibited"} => r.status = "determinate" /\ r.verdict = "prohibited"
        /\ "prohibited" \notin top => r.status = "determinate" /\ r.verdict # "prohibited"
        /\ r.survivors \in SUBSET (1..Len(mine))
    BY <2>2, HighestDecide DEF top, r
  <2>6. outcomes[i] = IF "prohibited" \in top /\ top # {"prohibited"} THEN "open"
                      ELSE IF "prohibited" \in top THEN "not_satisfied" ELSE "satisfied"
    BY <2>4, <2>5 DEF Decided
  <2>7. IsFiniteSet(r.survivors)
    BY <2>2, <2>5, HeadsPrevail, FS_Subset
  <2>8. GateCase(ToCase(r), "autonomous", TRUE, FALSE, FALSE)
    BY <2>7, ResolutionPasses
  <2> QED
    BY <2>3, <2>6, <2>8 DEF st, mine, top, r
<1> QED
  BY <1>1, AlwaysIInv, PTL

-----------------------------------------------------------------------------
(* What the harnesses let through, and what is asked of it.                 *)

(* A proposal is accepted only by passing every gate.                       *)
LEMMA AcceptedPasses ==
    ASSUME NEW gates, Len(gates) \in Nat, NEW rejecting, NEW ok
    PROVE  /\ Outcome(gates, rejecting, ok) \in {"accepted", "rejected", "escalated"}
           /\ Outcome(gates, rejecting, ok) = "accepted" =>
                 \A k \in 1..Len(gates) : ok[gates[k]]
<1> DEFINE T == {k \in 1..Len(gates) : ~ok[gates[k]]}
           f == FirstFailing(gates, ok)
<1>1. CASE T = {}
  <2>1. \A k \in 1..Len(gates) : ok[gates[k]]
    BY <1>1
  <2>2. f = Len(gates) + 1
    BY <2>1 DEF FirstFailing
  <2>3. f > Len(gates) /\ ~(f <= Len(gates))
    BY <2>2
  <2> HIDE DEF f
  <2> QED
    BY <2>1, <2>3 DEF Outcome, f
<1>2. CASE T # {}
  <2>1. PICK m \in T : \A j \in T : m <= j
    <3>1. T \in SUBSET Nat
      OBVIOUS
    <3> HIDE DEF T
    <3> QED
      BY <1>2, <3>1, SmallestNat
  <2>2. /\ m \in 1..Len(gates) /\ ~ok[gates[m]]
        /\ \A j \in 1..m - 1 : ok[gates[j]]
    <3>1. \A j \in 1..m - 1 : j \in 1..Len(gates) /\ ~(m <= j)
      OBVIOUS
    <3> QED
      BY <2>1, <3>1
  <2>3. f \in 1..Len(gates)
    BY <2>2 DEF FirstFailing
  <2>4. ~(f > Len(gates)) /\ f <= Len(gates)
    BY <2>3
  <2> HIDE DEF f
  <2> QED
    BY <2>4 DEF Outcome, f
<1> QED
  BY <1>1, <1>2

(* While a construction's case is run, the construction stands beside it,   *)
(* and each verdict is that of a stage with the construction's facts.       *)
LEMMA AskedOfTheBuilt ==
    ASSUME IInv, NEW harnesses, NEW i \in Questions(harnesses)
    PROVE  /\ proposal.harness \in harnesses /\ built = Result(proposal)
           /\ \E k \in DOMAIN Proposals : proposal \in Proposals[k]
           /\ i \in 1..Len(proposal.case.stages)
           /\ Case = Handed(proposal, built)[1] /\ IsStage(Case.stages[i])
           /\ outcomes[i] = StageVerdict(Case.stages[i])
<1>1. proposal # NoProposal /\ proposal.harness \in harnesses /\ i \in 1..Len(outcomes)
  BY DEF Questions
<1>2. queue # <<>>
  BY <1>1 DEF IInv, Evaluated
<1>3. Running
  BY <1>2, HeadIsRunning DEF IInv
<1>4. panel # <<>>
  BY <1>3 DEF Running
<1>5. /\ \E k \in DOMAIN Proposals : proposal \in Proposals[k]
      /\ built = Result(proposal) /\ panel = Handed(proposal, built)
  BY <1>1, <1>4 DEF IInv, Origin
<1>6. Case = Handed(proposal, built)[1]
  <2>1. Len(panel) = 1
    BY <1>5, HandedIsCase
  <2> QED
    BY <1>3, <1>5, <2>1 DEF Running, Case
<1>7. /\ Len(outcomes) \in Nat /\ Len(outcomes) <= Len(Case.stages)
      /\ outcomes[i] = StageVerdict(Case.stages[i])
  BY <1>1, <1>2 DEF IInv, Evaluated
<1>8. i \in 1..Len(Case.stages) /\ IsStage(Case.stages[i])
  BY <1>1, <1>3, <1>7 DEF Running, IsCase
<1>9. Len(Case.stages) = Len(proposal.case.stages)
  BY <1>5, <1>6, HandedIsCase
<1> QED
  BY <1>1, <1>5, <1>6, <1>7, <1>8, <1>9

(* What is asked of a construction of literals is whether one is among its  *)
(* facts.                                                                   *)
LEMMA AskedOfLiterals ==
    ASSUME IInv, NEW harness \in {"norm", "ratio", "gap", "reading"},
           NEW i \in Questions({harness})
    PROVE  outcomes[i] = "satisfied"
             <=> Claimed(Case.stages[i].condition) \in FactsFrom(proposal, built).literals
<1> DEFINE st    == Case.stages[i]
           facts == FactsFrom(proposal, built)
<1>1. /\ proposal.harness = harness /\ outcomes[i] = StageVerdict(st)
      /\ Case = Handed(proposal, built)[1] /\ i \in 1..Len(proposal.case.stages)
  BY AskedOfTheBuilt
<1>2. PICK k \in DOMAIN Proposals : proposal \in Proposals[k]
  BY AskedOfTheBuilt
<1>3. /\ proposal.case.stages[i].kind = "built"
      /\ proposal.case.stages[i].condition.dimension = "intentional"
  BY <1>1, <1>2, ProposalsAssumption
<1>4. st.kind = "built" /\ st.facts = facts /\ st.condition.dimension = "intentional"
  BY <1>1, <1>2, <1>3, HandedStages
<1> HIDE DEF st, facts
<1>5. Governing(st.condition) = "intentional"
  BY <1>4, DimensionsAssumption DEF Governing, Dimensions
<1>6. SubsumeAcross(st.condition, facts, {}) = EvalIntentional(st.condition, facts, {})
  <2>1. NoDimension # "intentional"
    BY DimensionsAssumption DEF Dimensions
  <2> QED
    BY <1>5, <2>1 DEF SubsumeAcross
<1>7. StageVerdict(st) = EvalIntentional(st.condition, facts, {})
  BY <1>4, <1>6 DEF StageVerdict
<1>8. EvalIntentional(st.condition, facts, {}) = "satisfied"
        <=> Claimed(st.condition) \in facts.literals
  BY DEF EvalIntentional, Decided, Holds
<1> QED
  BY <1>1, <1>7, <1>8 DEF st, facts

(* An extension is resolved only within the wording.                        *)
LEMMA ResolvedIsWithin ==
    ASSUME NEW p, ResolveGap(p) = "resolved"
    PROVE  /\ ~p.capped /\ ~p.contraLegem /\ p.class = "planwidrig"
           /\ Confident(GapElements(p)) /\ AllGrounded(GapElements(p))
<1> DEFINE ok == [g \in Range(GapGates) |-> GapOk(p, g)]
           outcome == Outcome(GapGates, {"decode", "grounding", "move"}, ok)
<1>1. /\ Len(GapGates) = 9 /\ DOMAIN GapGates = 1..9
      /\ GapGates[2] = "grounding" /\ GapGates[4] = "class" /\ GapGates[5] = "wortlautgrenze"
      /\ GapGates[6] = "routing" /\ GapGates[9] = "confidence"
  BY DEF GapGates
<1>2. outcome \in {"accepted", "rejected", "escalated"}
      /\ (outcome = "accepted" => \A k \in 1..9 : ok[GapGates[k]])
  <2> DEFINE rejecting == {"decode", "grounding", "move"}
  <2> HIDE DEF ok, rejecting
  <2>1. /\ Outcome(GapGates, rejecting, ok) \in {"accepted", "rejected", "escalated"}
        /\ Outcome(GapGates, rejecting, ok) = "accepted" =>
              \A k \in 1..Len(GapGates) : ok[GapGates[k]]
    <3>1. Len(GapGates) \in Nat
      BY <1>1
    <3> QED
      BY <3>1, AcceptedPasses
  <2> QED
    BY <1>1, <2>1 DEF rejecting
<1>3. outcome = "accepted" /\ p.move \in ExtensionMoves
  <2> HIDE DEF outcome
  <2>1. ResolveGap(p) = CASE outcome # "accepted" -> outcome
                          [] outcome = "accepted" ->
                               IF p.move \in ExtensionMoves THEN "resolved" ELSE "not_met"
    BY DEF ResolveGap, outcome
  <2> QED
    BY <1>2, <2>1
<1>4. \A k \in 1..9 : GapOk(p, GapGates[k])
  <2>1. \A k \in 1..9 : GapGates[k] \in Range(GapGates)
    BY <1>1 DEF Range
  <2> QED
    BY <1>2, <1>3, <2>1
<1>5. /\ GapOk(p, "grounding") /\ GapOk(p, "class") /\ GapOk(p, "wortlautgrenze")
      /\ GapOk(p, "routing") /\ GapOk(p, "confidence")
  BY <1>1, <1>4
<1>6. /\ AllGrounded(GapElements(p)) /\ Confident(GapElements(p)) /\ ~Crosses(p)
      /\ p.class \in GapClasses /\ (p.class = "planned" <=> p.move = "e_contrario")
  BY <1>5 DEF GapOk
<1> QED
  BY <1>3, <1>6 DEF Crosses, GapClasses, ExtensionMoves

(* The range of a sequence is finite.                                       *)
LEMMA FiniteRange ==
    ASSUME NEW s, Len(s) \in Nat, DOMAIN s = 1..Len(s)
    PROVE  IsFiniteSet(Range(s)) /\ \A i \in 1..Len(s) : s[i] \in Range(s)
<1> DEFINE D == 1..Len(s)
           R == Range(s)
           f == [i \in D |-> s[i]]
<1>1. IsFiniteSet(D)
  BY FS_Interval
<1>2. \A r : r \in R <=> \E i \in D : r = s[i]
  BY DEF Range
<1> HIDE DEF D, R
<1>3. f \in Surjection(D, R)
  BY <1>2 DEF Surjection
<1> HIDE DEF f
<1>4. IsFiniteSet(R)
  BY <1>1, <1>3, FS_Surjection
<1> QED
  BY <1>2, <1>4 DEF D, R

(* The tie-breaker of a family of canons is one of them, and they are few.  *)
LEMMA CanonsAndTiebreaker ==
    ASSUME NEW family \in DOMAIN CanonSets
    PROVE  /\ CanonSets[family].tiebreaker \in Range(CanonSets[family].canons)
           /\ IsFiniteSet(Range(CanonSets[family].canons))
<1>1. family \in {"civil_law", "common_law", "usul_al_fiqh", "us_textualist"}
  BY DEF CanonSets
<1>2. CASE family = "civil_law"
  <2> DEFINE s == CanonSets[family].canons
  <2>1. /\ s = <<"grammatical", "systematic", "historical", "teleological">>
        /\ CanonSets[family].tiebreaker = "teleological"
    BY <1>2 DEF CanonSets
  <2> HIDE DEF s
  <2>2. Len(s) \in Nat /\ DOMAIN s = 1..Len(s) /\ 4 \in 1..Len(s) /\ s[4] = "teleological"
    BY <2>1
  <2> QED
    BY <2>1, <2>2, FiniteRange DEF s
<1>3. CASE family = "common_law"
  <2> DEFINE s == CanonSets[family].canons
  <2>1. /\ s = <<"ordinary-meaning", "noscitur-a-sociis", "ejusdem-generis", "expressio-unius",
                  "purpose">>
        /\ CanonSets[family].tiebreaker = "purpose"
    BY <1>3 DEF CanonSets
  <2> HIDE DEF s
  <2>2. Len(s) \in Nat /\ DOMAIN s = 1..Len(s) /\ 5 \in 1..Len(s) /\ s[5] = "purpose"
    BY <2>1
  <2> QED
    BY <2>1, <2>2, FiniteRange DEF s
<1>4. CASE family = "usul_al_fiqh"
  <2> DEFINE s == CanonSets[family].canons
  <2>1. /\ s = <<"quran", "sunna", "ijma", "qiyas">>
        /\ CanonSets[family].tiebreaker = "quran"
    BY <1>4 DEF CanonSets
  <2> HIDE DEF s
  <2>2. Len(s) \in Nat /\ DOMAIN s = 1..Len(s) /\ 1 \in 1..Len(s) /\ s[1] = "quran"
    BY <2>1
  <2> QED
    BY <2>1, <2>2, FiniteRange DEF s
<1>5. CASE family = "us_textualist"
  <2> DEFINE s == CanonSets[family].canons
  <2>1. /\ s = <<"text", "structure", "original-public-meaning">>
        /\ CanonSets[family].tiebreaker = "text"
    BY <1>5 DEF CanonSets
  <2> HIDE DEF s
  <2>2. Len(s) \in Nat /\ DOMAIN s = 1..Len(s) /\ 1 \in 1..Len(s) /\ s[1] = "text"
    BY <2>1
  <2> QED
    BY <2>1, <2>2, FiniteRange DEF s
<1> QED
  BY <1>1, <1>2, <1>3, <1>4, <1>5

(* A canon bears a reading when its answer stands and its rules yield it.   *)
Bears(answer, l) ==
    GateCanon(answer) = "ok" /\ l \in Chain(answer.rules, answer.facts, {})

(* A canon whose answer stands bears its own reading.                       *)
LEMMA OwnReadingIsBorne ==
    ASSUME NEW answer, GateCanon(answer) = "ok", answer.reading # NoLiteral
    PROVE  Bears(answer, answer.reading)
<1>1. Sound(answer.facts, answer.rules, answer.reading)
  BY DEF GateCanon
<1> QED
  BY <1>1 DEF Bears, Sound

(* A reading that was not settled before is borne by a canon of the family, *)
(* and by the capping one.                                                  *)
LEMMA ReadingIsBorne ==
    ASSUME NEW family \in DOMAIN CanonSets, NEW set, set = CanonSets[family],
           NEW answers, \A c \in Range(set.canons) : answers[c].reading # NoLiteral,
           NEW settled, NEW l, l = InterpretElement(set, answers, settled), l # NoReading
    PROVE  \/ settled = l
           \/ /\ \E c \in Range(set.canons) : Bears(answers[c], l)
              /\ set.cap # "none" => Bears(answers[set.cap], l)
<1> SUFFICES ASSUME settled = NoReading
             PROVE  /\ \E c \in Range(set.canons) : Bears(answers[c], l)
                    /\ set.cap # "none" => Bears(answers[set.cap], l)
  BY DEF InterpretElement
<1> DEFINE canons   == Range(set.canons)
           passing  == {c \in canons : GateCanon(answers[c]) = "ok"}
           readings == {answers[c].reading : c \in passing}
           final    == IF Cardinality(readings) = 1 THEN CHOOSE r \in readings : TRUE
                       ELSE answers[set.tiebreaker].reading
           borne    == set.cap = "none" \/ Bears(answers[set.cap], final)
<1>1. /\ l = final /\ borne /\ readings # {}
      /\ Cardinality(readings) > 1 => GateCanon(answers[set.tiebreaker]) = "ok"
  <2>1. InterpretElement(set, answers, settled) =
            IF settled # NoReading THEN settled
            ELSE IF \/ readings = {}
                    \/ Cardinality(readings) > 1 /\ ~(GateCanon(answers[set.tiebreaker]) = "ok")
                    \/ ~borne
            THEN NoReading ELSE final
    BY DEF InterpretElement, Bears
  <2> HIDE DEF readings, final, borne
  <2> QED
    BY <2>1
<1>2. set.tiebreaker \in canons /\ IsFiniteSet(canons)
  BY CanonsAndTiebreaker
<1>3. IsFiniteSet(readings)
  <2> DEFINE f == [c \in passing |-> answers[c].reading]
  <2>1. IsFiniteSet(passing)
    BY <1>2, FS_Subset
  <2>2. f \in Surjection(passing, readings)
    BY DEF Surjection
  <2> HIDE DEF f, passing, readings
  <2> QED
    BY <2>1, <2>2, FS_Surjection
<1>4. Cardinality(readings) \in Nat /\ Cardinality(readings) # 0
  <2> HIDE DEF readings
  <2> QED
    BY <1>1, <1>3, FS_CardinalityType, FS_EmptySet
<1>5. \E c \in canons : Bears(answers[c], final)
  <2>1. CASE Cardinality(readings) = 1
    <3>1. final \in readings
      BY <1>1, <2>1
    <3>2. PICK c \in passing : final = answers[c].reading
      BY <3>1
    <3> HIDE DEF final
    <3> QED
      BY <3>2, OwnReadingIsBorne
  <2>2. CASE Cardinality(readings) # 1
    <3>1. Cardinality(readings) > 1
      <4> HIDE DEF readings
      <4> QED
        BY <1>4, <2>2
    <3>2. GateCanon(answers[set.tiebreaker]) = "ok"
      BY <1>1, <3>1
    <3>3. final = answers[set.tiebreaker].reading
      BY <2>2
    <3> HIDE DEF final, readings
    <3> QED
      BY <1>2, <3>2, <3>3, OwnReadingIsBorne
  <2> QED
    BY <2>1, <2>2
<1> HIDE DEF final, readings
<1> QED
  BY <1>1, <1>5

(* The wording is the limit: nothing is read into a case past its words     *)
(* where the text closes its list or against the law (gap_fork.py), and     *)
(* nothing an element means but what the canons bear (auslegung.py).        *)
THEOREM AlwaysWordingIsTheLimit == Spec => []WordingIsTheLimit
<1>1. IInv => WordingIsTheLimit
  <2> SUFFICES ASSUME IInv PROVE WordingIsTheLimit
    OBVIOUS
  <2> DEFINE p       == proposal.content
             lit(i)  == Claimed(Case.stages[i].condition)
             read(i) == outcomes[i] = "satisfied" /\ lit(i) \notin proposal.given
  <2>1. ASSUME NEW i \in Questions({"gap"}), read(i)
        PROVE  /\ ~p.capped /\ ~p.contraLegem /\ p.class = "planwidrig"
               /\ Confident(GapElements(p)) /\ AllGrounded(GapElements(p))
    <3>1. proposal.harness = "gap" /\ built = Result(proposal)
      BY <2>1, AskedOfTheBuilt
    <3>2. lit(i) \in FactsFrom(proposal, built).literals
      BY <2>1, AskedOfLiterals
    <3>3. /\ built = [status |-> ResolveGap(p)]
          /\ FactsFrom(proposal, built) =
                [NoFacts EXCEPT !.literals =
                    proposal.given \cup (IF built.status = "resolved" THEN {p.result} ELSE {})]
      BY <3>1 DEF Result, FactsFrom
    <3>4. FactsFrom(proposal, built).literals =
              proposal.given \cup (IF built.status = "resolved" THEN {p.result} ELSE {})
      BY <3>3 DEF NoFacts
    <3>5. ResolveGap(p) = "resolved"
      BY <2>1, <3>2, <3>3, <3>4
    <3> QED
      BY <3>5, ResolvedIsWithin
  <2>2. ASSUME NEW i \in Questions({"reading"}), read(i)
        PROVE  \/ p.settled = lit(i)
               \/ /\ \E c \in Range(p.set.canons) : Bears(p.answers[c], lit(i))
                  /\ p.set.cap # "none" => Bears(p.answers[p.set.cap], lit(i))
    <3>1. proposal.harness = "reading" /\ built = Result(proposal)
      BY <2>2, AskedOfTheBuilt
    <3>2. PICK k \in DOMAIN Proposals : proposal \in Proposals[k]
      BY <2>2, AskedOfTheBuilt
    <3>3. lit(i) \in FactsFrom(proposal, built).literals
      BY <2>2, AskedOfLiterals
    <3>4. /\ built = [status |-> InterpretElement(p.set, p.answers, p.settled)]
          /\ FactsFrom(proposal, built) =
                [NoFacts EXCEPT !.literals =
                    proposal.given \cup ({built.status} \ {NoReading})]
      BY <3>1 DEF Result, FactsFrom
    <3>5. FactsFrom(proposal, built).literals =
              proposal.given \cup ({built.status} \ {NoReading})
      BY <3>4 DEF NoFacts
    <3>6. lit(i) = InterpretElement(p.set, p.answers, p.settled) /\ lit(i) # NoReading
      BY <2>2, <3>3, <3>4, <3>5
    <3>7. PICK family \in DOMAIN CanonSets : p.set = CanonSets[family]
      BY <3>1, <3>2, ProposalsAssumption
    <3>8. \A c \in Range(p.set.canons) : p.answers[c].reading # NoLiteral
      BY <3>1, <3>2, ProposalsAssumption
    <3> HIDE DEF p, lit
    <3> QED
      BY <3>6, <3>7, <3>8, ReadingIsBorne
  <2> QED
    BY <2>1, <2>2 DEF WordingIsTheLimit, Bears
<1> QED
  BY <1>1, AlwaysIInv, PTL

-----------------------------------------------------------------------------
(* Chaining over the one rule that a construction yields.                   *)

(* The rule adds its consequence to what stands.                            *)
Fires(r, facts, judge) == /\ r.modality = NoModality /\ r.consequence # NoLiteral
                          /\ Applicable(r, facts, judge)

AfterRule(r, facts, judge) ==
    IF Fires(r, facts, judge) THEN facts \cup {r.consequence} ELSE facts

(* The fold over the rules as the recursion it is.                          *)
LEMMA ChainOnceFolds ==
    ASSUME NEW rules, NEW facts, NEW judge
    PROVE  LET eq(g) == g = [s \in SUBSET (DOMAIN rules) |->
                                IF s = {} THEN facts
                                ELSE LET x == CHOOSE y \in s : \A z \in s : y >= z
                                     IN  AfterRule(rules[x], g[s \ {x}], judge)]
           IN  ChainOnce(rules, facts, judge) = (CHOOSE g : eq(g))[DOMAIN rules]
BY DEF ChainOnce, FoldLeft, MapThenFoldSet, Max, AfterRule, Fires

(* A pass of one rule fires it or does not.                                 *)
LEMMA ChainOnceOfOne ==
    ASSUME NEW r, NEW facts, NEW judge
    PROVE  ChainOnce(<<r>>, facts, judge) = AfterRule(r, facts, judge)
<1> DEFINE rules == <<r>>
           top(s) == CHOOSE y \in s : \A z \in s : y >= z
           step(s, g) == IF s = {} THEN facts
                         ELSE AfterRule(rules[top(s)], g[s \ {top(s)}], judge)
           eq(g) == g = [s \in SUBSET (DOMAIN rules) |-> step(s, g)]
           iter == CHOOSE g : eq(g)
           w == [s \in SUBSET {1} |-> IF s = {} THEN facts ELSE AfterRule(r, facts, judge)]
<1>1. ChainOnce(rules, facts, judge) = iter[DOMAIN rules]
  BY ChainOnceFolds
<1>2. DOMAIN rules = {1} /\ rules[1] = r /\ SUBSET (DOMAIN rules) = {{}, {1}}
  OBVIOUS
<1>3. top({1}) = 1 /\ {1} \ {1} = {}
  OBVIOUS
<1>4. step({}, w) = facts /\ w[{}] = facts
  OBVIOUS
<1>5. step({1}, w) = AfterRule(r, facts, judge) /\ w[{1}] = AfterRule(r, facts, judge)
  BY <1>2, <1>3, <1>4
<1>6. eq(w)
  <2>1. SUBSET (DOMAIN rules) = SUBSET {1} /\ SUBSET {1} = {{}, {1}}
    BY <1>2
  <2>2. \A s \in SUBSET {1} : step(s, w) = w[s]
    <3> HIDE DEF step, w
    <3> QED
      BY <1>4, <1>5, <2>1
  <2>3. w = [s \in SUBSET {1} |-> w[s]]
    OBVIOUS
  <2> HIDE DEF step, w
  <2> QED
    BY <2>1, <2>2, <2>3
<1>7. eq(iter)
  <2> HIDE DEF eq
  <2> QED
    BY <1>6
<1>8. iter[{}] = step({}, iter) /\ iter[{1}] = step({1}, iter)
  <2> HIDE DEF step, iter
  <2> QED
    BY <1>2, <1>7
<1>9. iter[{1}] = AfterRule(r, facts, judge)
  <2> HIDE DEF iter
  <2> QED
    BY <1>2, <1>3, <1>8
<1> QED
  BY <1>1, <1>2, <1>9

(* A pass of no rule derives nothing.                                       *)
LEMMA ChainOnceOfNone ==
    ASSUME NEW facts, NEW judge
    PROVE  ChainOnce(<<>>, facts, judge) = facts
<1> DEFINE rules == <<>>
           top(s) == CHOOSE y \in s : \A z \in s : y >= z
           step(s, g) == IF s = {} THEN facts
                         ELSE AfterRule(rules[top(s)], g[s \ {top(s)}], judge)
           eq(g) == g = [s \in SUBSET (DOMAIN rules) |-> step(s, g)]
           iter == CHOOSE g : eq(g)
           w == [s \in SUBSET {} |-> facts]
<1>1. ChainOnce(rules, facts, judge) = iter[DOMAIN rules]
  BY ChainOnceFolds
<1>2. DOMAIN rules = {} /\ SUBSET (DOMAIN rules) = {{}}
  OBVIOUS
<1>3. \A g : step({}, g) = facts
  OBVIOUS
<1>4. eq(w)
  <2> HIDE DEF step
  <2> QED
    BY <1>2, <1>3
<1>5. eq(iter)
  <2> HIDE DEF eq
  <2> QED
    BY <1>4
<1>6. iter[{}] = facts
  <2> HIDE DEF step, iter
  <2> QED
    BY <1>2, <1>3, <1>5
<1> QED
  BY <1>1, <1>2, <1>6

(* One pass of one rule is enough, and of none there is nothing to do.      *)
LEMMA ChainOfOne ==
    ASSUME NEW r, NEW facts, NEW judge
    PROVE  /\ Chain(<<>>, facts, judge) = facts
           /\ Chain(<<r>>, facts, judge) = AfterRule(r, facts, judge)
<1>1. ASSUME NEW rules, NEW D, facts \in D,
             \A d \in D : ChainOnce(rules, d, judge) \in D
      PROVE  \E pass : /\ Chain(rules, facts, judge) = pass[Len(rules)]
                       /\ pass[0] = facts
                       /\ pass[1] = ChainOnce(rules, facts, judge)
  <2> DEFINE eq(g) == g = [n \in Nat |-> IF n = 0 THEN facts
                                         ELSE ChainOnce(rules, g[n - 1], judge)]
             pass == CHOOSE g : eq(g)
  <2>1. Chain(rules, facts, judge) = pass[Len(rules)]
    BY DEF Chain
  <2>2. \E g : eq(g)
    <3> DEFINE G == [d \in D |-> ChainOnce(rules, d, judge)]
    <3>1. G \in [D -> D]
      BY <1>1
    <3> HIDE DEF G
    <3>2. PICK g \in [Nat -> D] : g[0] = facts /\ \A n \in Nat : g[n + 1] = G[g[n]]
      BY <1>1, <3>1, IterationExists
    <3>3. \A n \in Nat : g[n + 1] = ChainOnce(rules, g[n], judge)
      BY <3>2 DEF G
    <3>4. ASSUME NEW n \in Nat
          PROVE  g[n] = IF n = 0 THEN facts ELSE ChainOnce(rules, g[n - 1], judge)
      <4>1. CASE n = 0
        BY <3>2, <4>1
      <4>2. CASE n # 0
        <5>1. n - 1 \in Nat /\ (n - 1) + 1 = n
          BY <4>2
        <5> QED
          BY <3>3, <4>2, <5>1
      <4> QED
        BY <4>1, <4>2
    <3>5. eq(g)
      BY <3>2, <3>4
    <3> QED
      BY <3>5
  <2>3. eq(pass)
    <3> HIDE DEF eq
    <3> QED
      BY <2>2
  <2>4. pass[0] = facts /\ pass[1] = ChainOnce(rules, pass[0], judge)
    <3> HIDE DEF pass
    <3> QED
      BY <2>3
  <2> QED
    BY <2>1, <2>4
<1>2. Chain(<<>>, facts, judge) = facts
  <2> DEFINE D == {facts}
  <2>1. \A d \in D : ChainOnce(<<>>, d, judge) \in D
    BY ChainOnceOfNone
  <2>2. PICK pass : Chain(<<>>, facts, judge) = pass[Len(<<>>)] /\ pass[0] = facts
    BY <1>1, <2>1
  <2> QED
    BY <2>2
<1>3. Chain(<<r>>, facts, judge) = AfterRule(r, facts, judge)
  <2> DEFINE D == {facts, facts \cup {r.consequence}}
  <2>1. \A d \in D : ChainOnce(<<r>>, d, judge) \in D
    <3>1. \A d \in D : AfterRule(r, d, judge) \in D
      BY DEF AfterRule
    <3> QED
      BY <3>1, ChainOnceOfOne
  <2>2. facts \in D
    OBVIOUS
  <2> HIDE DEF D
  <2>3. PICK pass : /\ Chain(<<r>>, facts, judge) = pass[Len(<<r>>)]
                    /\ pass[1] = ChainOnce(<<r>>, facts, judge)
    BY <1>1, <2>1, <2>2
  <2>4. Len(<<r>>) = 1
    OBVIOUS
  <2> QED
    BY <2>3, <2>4, ChainOnceOfOne
<1> QED
  BY <1>2, <1>3

(* A norm that establishes a fact has passed its gates, is descriptive, and *)
(* stands on what is given.                                                 *)
LEMMA NormBinds ==
    ASSUME NEW p, NEW given, NEW l, l \notin given,
           l \in Chain(ConstructNorm(p).rules, given, {})
    PROVE  /\ Confident(NormElements(p)) /\ AllGrounded(NormElements(p))
           /\ p.modality = NoModality /\ Literals(p.elements) \subseteq given
           /\ Literals(p.exceptions) \cap given = {}
<1> DEFINE ok == [g \in Range(NormGates) |-> NormOk(p, g)]
           rejecting == {"decode", "grounding", "wellformed"}
           outcome == Outcome(NormGates, rejecting, ok)
           r == NormRule(p)
<1>1. /\ Len(NormGates) = 7 /\ DOMAIN NormGates = 1..7 /\ Len(NormGates) \in Nat
      /\ NormGates[2] = "grounding" /\ NormGates[6] = "confidence"
  BY DEF NormGates
<1>2. outcome = "accepted" => \A k \in 1..7 : ok[NormGates[k]]
  <2> HIDE DEF ok, rejecting
  <2>1. outcome = "accepted" => \A k \in 1..Len(NormGates) : ok[NormGates[k]]
    BY <1>1, AcceptedPasses
  <2> QED
    BY <1>1, <2>1
<1>3. ConstructNorm(p).rules = IF outcome = "accepted" THEN <<r>> ELSE <<>>
  BY DEF ConstructNorm, Yields
<1> HIDE DEF outcome, r
<1>4. outcome = "accepted" /\ l \in AfterRule(r, given, {})
  BY <1>3, ChainOfOne
<1>5. Fires(r, given, {})
  BY <1>4 DEF AfterRule
<1>6. /\ NormOk(p, "grounding") /\ NormOk(p, "confidence")
  <2>1. NormGates[2] \in Range(NormGates) /\ NormGates[6] \in Range(NormGates)
    BY <1>1 DEF Range
  <2>2. ok[NormGates[2]] /\ ok[NormGates[6]]
    BY <1>2, <1>4
  <2> QED
    BY <1>1, <2>1, <2>2
<1>7. Confident(NormElements(p)) /\ AllGrounded(NormElements(p))
  BY <1>6 DEF NormOk
<1>8. /\ r.conditions = Literals(p.elements) /\ r.exceptions = Literals(p.exceptions)
      /\ r.modality = p.modality
  BY DEF r, NormRule, Rule
<1>9. /\ \A c \in r.conditions : c \in given
      /\ \A x \in r.exceptions : x \notin given
  BY <1>5 DEF Fires, Applicable, Holds
<1> QED
  BY <1>5, <1>7, <1>8, <1>9 DEF Fires

(* A precedent binds on the facts its holding needed, and does bind on them.*)
LEMMA RatioBinds ==
    ASSUME NEW p, NEW given, NEW l
    PROVE  /\ l \notin given /\ l \in Chain(ExtractRatio(p).rules, given, {}) =>
                 /\ Confident(RuleElements(p)) /\ AllGrounded(RuleElements(p))
                 /\ p.candidates <= 1 /\ Literals(Necessary(p)) \subseteq given
           /\ /\ ExtractRatio(p).status = "accepted" /\ p.holding.literal = l
              /\ Literals(Necessary(p)) \subseteq given
              => l \in Chain(ExtractRatio(p).rules, given, {})
<1> DEFINE ok == [g \in Range(RatioGates) |-> RatioOk(p, g)]
           rejecting == {"decode", "grounding", "evidence"}
           outcome == Outcome(RatioGates, rejecting, ok)
           crashes == outcome = "accepted" /\ Literals(RuleElements(p)) \cap Excluded(p) # {}
           r == RatioRule(p)
<1>1. /\ Len(RatioGates) = 8 /\ DOMAIN RatioGates = 1..8 /\ Len(RatioGates) \in Nat
      /\ RatioGates[2] = "grounding" /\ RatioGates[3] = "contestability"
      /\ RatioGates[4] = "wellformed" /\ RatioGates[8] = "confidence"
  BY DEF RatioGates
<1>2. /\ outcome \in {"accepted", "rejected", "escalated"}
      /\ outcome = "accepted" => \A k \in 1..8 : ok[RatioGates[k]]
  <2> HIDE DEF ok, rejecting
  <2>1. /\ outcome \in {"accepted", "rejected", "escalated"}
        /\ outcome = "accepted" => \A k \in 1..Len(RatioGates) : ok[RatioGates[k]]
    BY <1>1, AcceptedPasses
  <2> QED
    BY <1>1, <2>1
<1>3. outcome = "accepted" =>
          /\ RatioOk(p, "grounding") /\ RatioOk(p, "contestability")
          /\ RatioOk(p, "wellformed") /\ RatioOk(p, "confidence")
  <2> SUFFICES ASSUME outcome = "accepted"
               PROVE  /\ RatioOk(p, "grounding") /\ RatioOk(p, "contestability")
                      /\ RatioOk(p, "wellformed") /\ RatioOk(p, "confidence")
    OBVIOUS
  <2> HIDE DEF outcome
  <2>1. \A k \in 1..8 : RatioGates[k] \in Range(RatioGates)
    BY <1>1 DEF Range
  <2>2. \A k \in 1..8 : RatioOk(p, RatioGates[k])
    BY <1>2, <2>1
  <2> QED
    BY <1>1, <2>2
<1>4. /\ ExtractRatio(p).status = IF crashes THEN "crashed" ELSE outcome
      /\ ExtractRatio(p).rules =
            IF crashes THEN <<>> ELSE IF outcome = "accepted" THEN <<r>> ELSE <<>>
  BY DEF ExtractRatio, Yields
<1> HIDE DEF outcome, crashes
<1>5. /\ r.conditions = Literals(Necessary(p)) /\ r.consequence = p.holding.literal
      /\ r.exceptions = {} /\ r.modality = NoModality
  BY DEF RatioRule, Rule
<1> HIDE DEF r
<1>6. ASSUME l \notin given, l \in Chain(ExtractRatio(p).rules, given, {})
      PROVE  /\ Confident(RuleElements(p)) /\ AllGrounded(RuleElements(p))
             /\ p.candidates <= 1 /\ Literals(Necessary(p)) \subseteq given
  <2>1. outcome = "accepted" /\ l \in AfterRule(r, given, {})
    BY <1>4, <1>6, ChainOfOne
  <2>2. Fires(r, given, {})
    BY <1>6, <2>1 DEF AfterRule
  <2>3. /\ Confident(RuleElements(p)) /\ AllGrounded(p.facts \cup RuleElements(p))
        /\ p.candidates <= 1
    BY <1>3, <2>1 DEF RatioOk
  <2>4. \A c \in r.conditions : c \in given
    BY <2>2 DEF Fires, Applicable, Holds
  <2> QED
    BY <1>5, <2>3, <2>4 DEF AllGrounded
<1>7. ASSUME ExtractRatio(p).status = "accepted", p.holding.literal = l,
             Literals(Necessary(p)) \subseteq given
      PROVE  l \in Chain(ExtractRatio(p).rules, given, {})
  <2>1. ~crashes /\ outcome = "accepted"
    BY <1>4, <1>7
  <2>2. ExtractRatio(p).rules = <<r>>
    BY <1>4, <2>1
  <2>3. p.holding.literal # NoLiteral
    BY <1>3, <2>1 DEF RatioOk, HasLiteral
  <2>4. Fires(r, given, {})
    BY <1>5, <1>7, <2>3 DEF Fires, Applicable, Holds
  <2>5. l \in AfterRule(r, given, {})
    BY <1>5, <1>7, <2>4 DEF AfterRule
  <2> QED
    BY <2>2, <2>5, ChainOfOne
<1> QED
  BY <1>6, <1>7

(* A finite set can be counted off.                                         *)
LEMMA CountedOff ==
    ASSUME NEW S, IsFiniteSet(S)
    PROVE  SetToSeq(S) \in [1..Cardinality(S) -> S] /\ Cardinality(S) \in Nat
<1>1. Cardinality(S) \in Nat
  BY FS_CardinalityType
<1>2. PICK f : f \in Bijection(1..Cardinality(S), S)
  <2>1. ExistsBijection(1..Cardinality(S), S)
    BY FS_NatBijection, FS_CardinalityType
  <2> QED
    BY <2>1 DEF ExistsBijection
<1>3. f \in [1..Cardinality(S) -> S] /\ IsInjective(f)
  BY <1>2 DEF Bijection, Injection, IsInjective
<1> QED
  BY <1>1, <1>3 DEF SetToSeq

(* A renewal that is extracted has its notice when it is automatic, and     *)
(* reverts at events of the text only.                                      *)
LEMMA RenewalReverts ==
    ASSUME NEW p, IsFiniteSet(p.reversions), ConstructRenewal(p).status = "extracted"
    PROVE  /\ Confident(RenewalClaims(p)) /\ AllGrounded(RenewalClaims(p))
           /\ p.renewal.kind = "auto" => p.renewal.notice
           /\ \A e \in Links(ConstructRenewal(p).edges) :
                 \E r \in p.reversions : r.eventGrounded /\ e = <<r.literal, r.event>>
<1> DEFINE ok == [g \in Range(RenewalGates) |-> RenewalOk(p, g)]
           rejecting == {"decode", "present", "wellformed", "grounding", "build"}
           outcome == Outcome(RenewalGates, rejecting, ok)
           reverting == SetToSeq(p.reversions)
           edges == [i \in 1..Len(reverting) |->
                        Edge(reverting[i].literal, "reverts-at", reverting[i].event, "temporal",
                             100 - reverting[i].confidence)]
<1>1. /\ Len(RenewalGates) = 10 /\ DOMAIN RenewalGates = 1..10 /\ Len(RenewalGates) \in Nat
      /\ RenewalGates[4] = "grounding" /\ RenewalGates[6] = "auto_notice"
      /\ RenewalGates[7] = "anchoring" /\ RenewalGates[9] = "confidence"
  BY DEF RenewalGates
<1>2. /\ outcome \in {"accepted", "rejected", "escalated"}
      /\ outcome = "accepted" => \A k \in 1..10 : ok[RenewalGates[k]]
  <2> HIDE DEF ok, rejecting
  <2>1. /\ outcome \in {"accepted", "rejected", "escalated"}
        /\ outcome = "accepted" => \A k \in 1..Len(RenewalGates) : ok[RenewalGates[k]]
    BY <1>1, AcceptedPasses
  <2> QED
    BY <1>1, <2>1
<1>3. ConstructRenewal(p).status = IF outcome = "accepted" THEN "extracted" ELSE outcome
  BY DEF ConstructRenewal
<1>4. outcome = "accepted" => ConstructRenewal(p).edges = edges
  BY DEF ConstructRenewal
<1> HIDE DEF outcome, edges
<1>5. outcome = "accepted"
  BY <1>2, <1>3
<1>6. /\ RenewalOk(p, "grounding") /\ RenewalOk(p, "auto_notice")
      /\ RenewalOk(p, "anchoring") /\ RenewalOk(p, "confidence")
  <2>1. \A k \in 1..10 : RenewalGates[k] \in Range(RenewalGates)
    BY <1>1 DEF Range
  <2>2. \A k \in 1..10 : RenewalOk(p, RenewalGates[k])
    BY <1>2, <1>5, <2>1
  <2> QED
    BY <1>1, <2>2
<1>7. /\ AllGrounded(RenewalClaims(p)) /\ (p.renewal.kind = "auto" => p.renewal.notice)
      /\ \A r \in p.reversions : Anchored(r)
      /\ Confident(RenewalClaims(p))
  BY <1>6 DEF RenewalOk
<1>8. reverting \in [1..Len(reverting) -> p.reversions] /\ Len(reverting) \in Nat
  <2>1. /\ reverting \in [1..Cardinality(p.reversions) -> p.reversions]
        /\ Cardinality(p.reversions) \in Nat
    BY CountedOff
  <2> HIDE DEF reverting
  <2>2. Len(reverting) = Cardinality(p.reversions)
    BY <2>1, IsSequence
  <2> QED
    BY <2>1, <2>2
<1> HIDE DEF reverting
<1>9. /\ Len(edges) = Len(reverting)
      /\ \A i \in 1..Len(reverting) : /\ edges[i].subject = reverting[i].literal
                                      /\ edges[i].object = reverting[i].event
  BY <1>8 DEF edges, Edge
<1>10. ASSUME NEW e \in Links(edges)
       PROVE  \E r \in p.reversions : r.eventGrounded /\ e = <<r.literal, r.event>>
  <2>1. PICK i \in 1..Len(reverting) : e = <<reverting[i].literal, reverting[i].event>>
    BY <1>9 DEF Links
  <2>2. reverting[i] \in p.reversions
    BY <1>8
  <2> QED
    BY <1>7, <2>1, <2>2 DEF Anchored
<1> QED
  BY <1>4, <1>5, <1>7, <1>10

(* What a rule read from a text concludes, it concludes from grounded,      *)
(* confident elements that all stand among the given facts                  *)
(* (norm_construction.py, precedent_ratio.py, renewal_construction.py).     *)
THEOREM AlwaysRulesRestOnTheText == Spec => []RulesRestOnTheText
<1>1. IInv => RulesRestOnTheText
  <2> SUFFICES ASSUME IInv PROVE RulesRestOnTheText
    OBVIOUS
  <2> DEFINE p        == proposal.content
             lit(i)   == Claimed(Case.stages[i].condition)
             bound(i) == outcomes[i] = "satisfied" /\ lit(i) \notin proposal.given
  <2>1. ASSUME NEW i \in Questions({"norm"}), bound(i)
        PROVE  /\ Confident(NormElements(p)) /\ AllGrounded(NormElements(p))
               /\ p.modality = NoModality /\ Literals(p.elements) \subseteq proposal.given
               /\ Literals(p.exceptions) \cap proposal.given = {}
    <3>1. proposal.harness = "norm" /\ built = Result(proposal)
      BY <2>1, AskedOfTheBuilt
    <3>2. lit(i) \in FactsFrom(proposal, built).literals
      BY <2>1, AskedOfLiterals
    <3>3. built = ConstructNorm(p)
      BY <3>1 DEF Result
    <3>4. FactsFrom(proposal, built).literals = Chain(built.rules, proposal.given, {})
      BY <3>1 DEF FactsFrom, NoFacts
    <3> QED
      BY <2>1, <3>2, <3>3, <3>4, NormBinds
  <2>2. ASSUME NEW i \in Questions({"ratio"})
        PROVE  /\ bound(i) =>
                    /\ Confident(RuleElements(p)) /\ AllGrounded(RuleElements(p))
                    /\ p.candidates <= 1 /\ Literals(Necessary(p)) \subseteq proposal.given
               /\ built.status = "accepted" /\ Literals(Necessary(p)) \subseteq proposal.given
                  /\ p.holding.literal = lit(i) => outcomes[i] = "satisfied"
    <3>1. proposal.harness = "ratio" /\ built = Result(proposal)
      BY <2>2, AskedOfTheBuilt
    <3>2. outcomes[i] = "satisfied" <=> lit(i) \in FactsFrom(proposal, built).literals
      BY <2>2, AskedOfLiterals
    <3>3. built = ExtractRatio(p)
      BY <3>1 DEF Result
    <3>4. FactsFrom(proposal, built).literals = Chain(built.rules, proposal.given, {})
      BY <3>1 DEF FactsFrom, NoFacts
    <3> HIDE DEF lit, p
    <3> QED
      BY <3>2, <3>3, <3>4, RatioBinds
  <2>3. ASSUME Questions({"renewal"}) # {}, built.status = "extracted"
        PROVE  /\ Confident(RenewalClaims(p)) /\ AllGrounded(RenewalClaims(p))
               /\ p.renewal.kind = "auto" => p.renewal.notice
               /\ \A e \in Links(built.edges) :
                     \E r \in p.reversions : r.eventGrounded /\ e = <<r.literal, r.event>>
    <3>1. PICK i : i \in Questions({"renewal"})
      BY <2>3
    <3>2. proposal.harness = "renewal" /\ built = Result(proposal)
      BY <3>1, AskedOfTheBuilt
    <3>3. PICK k \in DOMAIN Proposals : proposal \in Proposals[k]
      BY <3>1, AskedOfTheBuilt
    <3>4. IsFiniteSet(p.reversions)
      BY <3>2, <3>3, ProposalsAssumption
    <3>5. built = ConstructRenewal(p)
      BY <3>2 DEF Result
    <3> QED
      BY <2>3, <3>4, <3>5, RenewalReverts
  <2> QED
    BY <2>1, <2>2, <2>3 DEF RulesRestOnTheText
<1> QED
  BY <1>1, AlwaysIInv, PTL
-----------------------------------------------------------------------------
(* Sequences.                                                               *)

(* A sequence without its last element.                                     *)
LEMMA WithoutLast ==
    ASSUME NEW S, NEW s \in Seq(S), s # <<>>
    PROVE  /\ Front(s) \in Seq(S) /\ Len(Front(s)) = Len(s) - 1
           /\ \A i \in 1..(Len(s) - 1) : Front(s)[i] = s[i]
<1>1. Len(s) \in Nat \ {0} /\ \A i \in 1..Len(s) : s[i] \in S
  BY EmptySeq, LenProperties
<1>2. \A i \in 1..(Len(s) - 1) : s[i] \in S
  BY <1>1
<1>3. PICK k \in Nat : k = Len(s) - 1
  BY <1>1
<1>4. /\ SubSeq(s, 1, k) \in Seq(S) /\ Len(SubSeq(s, 1, k)) = IF 1 <= k THEN k - 1 + 1 ELSE 0
      /\ \A i \in 1..(k - 1 + 1) : SubSeq(s, 1, k)[i] = s[1 + i - 1]
  BY <1>2, <1>3, SubSeqProperties
<1>5. Front(s) = SubSeq(s, 1, k)
  BY <1>3 DEF Front
<1>6. \A i \in 1..k : Front(s)[i] = s[i]
  BY <1>3, <1>4, <1>5
<1> QED
  BY <1>3, <1>4, <1>5, <1>6

(* What is in a sequence is its head or in its tail.                        *)
LEMMA HeadAndTail ==
    ASSUME NEW S, NEW d \in Seq(S), d # <<>>
    PROVE  /\ Head(d) \in S /\ Tail(d) \in Seq(S) /\ Len(d) \in Nat \ {0}
           /\ Len(Tail(d)) = Len(d) - 1
           /\ {d[j] : j \in 1..Len(d)} = {Tail(d)[j] : j \in 1..Len(Tail(d))} \cup {Head(d)}
<1> DEFINE t == Tail(d)
<1>1. Len(d) \in Nat \ {0}
  BY EmptySeq, LenProperties
<1>2. /\ Head(d) \in S /\ t \in Seq(S) /\ Len(t) = Len(d) - 1 /\ Head(d) = d[1]
      /\ \A i \in 1..Len(t) : t[i] = d[i + 1]
  BY <1>1, HeadTailProperties
<1>3. \A j \in 1..Len(d) : j = 1 \/ (j - 1 \in 1..Len(t) /\ d[j] = t[j - 1])
  BY <1>1, <1>2
<1>4. \A j \in 1..Len(t) : j + 1 \in 1..Len(d) /\ d[j + 1] = t[j]
  BY <1>1, <1>2
<1>5. 1 \in 1..Len(d) /\ d[1] = Head(d)
  BY <1>1, <1>2
<1> HIDE DEF t
<1>6. \A x \in {d[j] : j \in 1..Len(d)} : x \in {t[j] : j \in 1..Len(t)} \cup {Head(d)}
  BY <1>3, <1>5
<1>7. \A x \in {t[j] : j \in 1..Len(t)} \cup {Head(d)} : x \in {d[j] : j \in 1..Len(d)}
  BY <1>4, <1>5
<1>8. {d[j] : j \in 1..Len(d)} = {t[j] : j \in 1..Len(t)} \cup {Head(d)}
  BY <1>6, <1>7
<1> QED
  BY <1>1, <1>2, <1>8 DEF t

-----------------------------------------------------------------------------
(* The search for a cycle (Paths): when it finds none from any start, the   *)
(* starts are on none.                                                      *)

(* A frame of the search over the nodes N, and a state of it.               *)
SearchFrames(N) == [node : N, rest : Seq(N)]

SearchStates(N) == [colour : [N -> {"white", "grey", "black"}],
                    stack : Seq(SearchFrames(N)), found : BOOLEAN]

Follows(succ, x, y) == \E k \in 1..Len(succ[x]) : succ[x][k] = y

(* What is left to look at from the i-th node of the stack.                 *)
Ahead(s, i) == {s.stack[i].rest[j] : j \in 1..Len(s.stack[i].rest)}

Height(s) == Len(s.stack)

(* The four outcomes of a step, x being the node at the top of the stack    *)
(* and y its next successor: x is left, y is passed over, y is entered, or  *)
(* y closes a cycle.                                                        *)
Leaves(s, t, x) ==
    /\ Ahead(s, Height(s)) = {} /\ t.colour = [s.colour EXCEPT ![x] = "black"]
    /\ Height(t) = Height(s) - 1 /\ \A i \in 1..Height(t) : t.stack[i] = s.stack[i]

Looks(s, t, y) ==
    /\ \A i \in 1..Height(s) : t.stack[i].node = s.stack[i].node
    /\ \A i \in 1..Height(s) : i # Height(s) => t.stack[i] = s.stack[i]
    /\ Ahead(s, Height(s)) = Ahead(t, Height(s)) \cup {y}
    /\ Len(t.stack[Height(s)].rest) = Len(s.stack[Height(s)].rest) - 1

Passes(s, t, y) ==
    /\ s.colour[y] = "black" /\ t.colour = s.colour
    /\ Height(t) = Height(s) /\ Looks(s, t, y)

Enters(succ, s, t, y) ==
    /\ s.colour[y] = "white" /\ t.colour = [s.colour EXCEPT ![y] = "grey"]
    /\ Height(t) = Height(s) + 1 /\ t.stack[Height(t)] = [node |-> y, rest |-> succ[y]]
    /\ Looks(s, t, y)

Closes(s, t, y) ==
    s.colour[y] = "grey" /\ y \in Ahead(s, Height(s)) /\ t.stack = s.stack

(* A step has one of these outcomes.                                        *)
LEMMA SearchOutcomes ==
    ASSUME NEW N, NEW succ \in [N -> Seq(N)], NEW s \in SearchStates(N),
           ~s.found, s.stack # <<>>,
           NEW t, t = SearchStep(succ, s)
    PROVE  /\ t \in SearchStates(N)
           /\ Height(s) \in Nat \ {0} /\ s.stack[Height(s)] \in SearchFrames(N)
           /\ \/ ~t.found /\ Leaves(s, t, s.stack[Height(s)].node)
              \/ ~t.found /\ \E y \in N : Passes(s, t, y) \/ Enters(succ, s, t, y)
              \/ t.found /\ \E y \in N : Closes(s, t, y)
<1> DEFINE top == s.stack[Len(s.stack)]
           L == Len(s.stack)
<1>1. /\ s.colour \in [N -> {"white", "grey", "black"}] /\ s.stack \in Seq(SearchFrames(N))
      /\ s.found \in BOOLEAN
      /\ s = [colour |-> s.colour, stack |-> s.stack, found |-> s.found]
  BY DEF SearchStates
<1>2. L \in Nat \ {0} /\ L \in 1..L /\ top \in SearchFrames(N)
  BY <1>1, EmptySeq, LenProperties
<1>3. top.node \in N /\ top.rest \in Seq(N) /\ Len(top.rest) \in Nat
  BY <1>2 DEF SearchFrames
<1>4. Last(s.stack) = top
  BY DEF Last
<1>5. CASE top.rest = <<>>
  <2>1. t = [s EXCEPT !.colour[top.node] = "black", !.stack = Front(@)]
    BY <1>4, <1>5 DEF SearchStep
  <2>2. /\ t.colour = [s.colour EXCEPT ![top.node] = "black"] /\ t.stack = Front(s.stack)
        /\ t.found = s.found
        /\ t = [colour |-> t.colour, stack |-> t.stack, found |-> t.found]
    BY <1>1, <2>1
  <2>3. /\ Front(s.stack) \in Seq(SearchFrames(N)) /\ Len(Front(s.stack)) = L - 1
        /\ \A i \in 1..(L - 1) : Front(s.stack)[i] = s.stack[i]
    BY <1>1, WithoutLast
  <2>4. t.colour \in [N -> {"white", "grey", "black"}]
    BY <1>1, <1>3, <2>2
  <2>5. t \in SearchStates(N)
    BY <2>2, <2>3, <2>4 DEF SearchStates
  <2>6. Ahead(s, L) = {}
    BY <1>5 DEF Ahead
  <2>7. Leaves(s, t, top.node)
    BY <2>2, <2>3, <2>6 DEF Leaves, Height
  <2> QED
    BY <1>2, <2>2, <2>5, <2>7 DEF Height
<1>6. CASE top.rest # <<>>
  <2> DEFINE y == Head(top.rest)
             new == [node |-> top.node, rest |-> Tail(top.rest)]
             kept == [s.stack EXCEPT ![L].rest = Tail(@)]
  <2>1. /\ y \in N /\ Tail(top.rest) \in Seq(N) /\ Len(top.rest) \in Nat \ {0}
        /\ Len(Tail(top.rest)) = Len(top.rest) - 1
        /\ {top.rest[j] : j \in 1..Len(top.rest)}
              = {Tail(top.rest)[j] : j \in 1..Len(Tail(top.rest))} \cup {y}
    BY <1>3, <1>6, HeadAndTail
  <2>2. new \in SearchFrames(N)
    BY <1>3, <2>1 DEF SearchFrames
  <2>3. kept = [s.stack EXCEPT ![L] = new]
    <3>1. \A r \in SearchFrames(N) : \A d : [r EXCEPT !.rest = d] = [node |-> r.node, rest |-> d]
      BY DEF SearchFrames
    <3>2. [top EXCEPT !.rest = Tail(top.rest)] = new
      BY <1>2, <3>1
    <3>3. kept = [s.stack EXCEPT ![L] = [top EXCEPT !.rest = Tail(top.rest)]]
      OBVIOUS
    <3> QED
      BY <3>2, <3>3
  <2>4. /\ kept \in Seq(SearchFrames(N)) /\ Len(kept) = L
        /\ \A j \in 1..L : kept[j] = IF j = L THEN new ELSE s.stack[j]
    <3> HIDE DEF new, kept
    <3> QED
      BY <1>1, <1>2, <2>2, <2>3, ExceptSeq
  <2>5. t = CASE s.colour[y] = "grey"  -> [s EXCEPT !.found = TRUE]
              [] s.colour[y] = "black" -> [s EXCEPT !.stack = kept]
              [] s.colour[y] = "white" ->
                   [s EXCEPT !.colour[y] = "grey",
                             !.stack = Append(kept, [node |-> y, rest |-> succ[y]])]
    BY <1>4, <1>6 DEF SearchStep
  <2>6. s.colour[y] \in {"white", "grey", "black"}
    BY <1>1, <2>1
  <2> HIDE DEF kept
  <2>7. CASE s.colour[y] = "grey"
    <3>1. t = [s EXCEPT !.found = TRUE]
      BY <2>5, <2>7
    <3>2. t.found /\ t \in SearchStates(N) /\ t.stack = s.stack
      BY <1>1, <3>1 DEF SearchStates
    <3>3. y \in Ahead(s, L)
      BY <2>1 DEF Ahead
    <3>4. Closes(s, t, y)
      BY <2>7, <3>2, <3>3 DEF Closes, Height
    <3> QED
      BY <1>2, <2>1, <3>2, <3>4 DEF Height
  <2>8. CASE s.colour[y] = "black"
    <3>1. t = [s EXCEPT !.stack = kept]
      BY <2>5, <2>8
    <3>2. t.stack = kept /\ t.colour = s.colour /\ ~t.found /\ t \in SearchStates(N)
      BY <1>1, <2>4, <3>1 DEF SearchStates
    <3>3. Looks(s, t, y)
      <4>1. t.stack[L] = new
        BY <1>2, <2>4, <3>2
      <4>2. t.stack[L].rest = Tail(top.rest) /\ t.stack[L].node = top.node
        BY <4>1
      <4>3. \A i \in 1..L : i # L => t.stack[i] = s.stack[i]
        BY <2>4, <3>2
      <4>4. \A i \in 1..L : t.stack[i].node = s.stack[i].node
        BY <4>2, <4>3
      <4>5. Ahead(s, L) = Ahead(t, L) \cup {y}
        BY <2>1, <4>2 DEF Ahead
      <4>6. Len(t.stack[L].rest) = Len(top.rest) - 1
        BY <2>1, <4>2
      <4> QED
        BY <4>3, <4>4, <4>5, <4>6 DEF Looks, Height
    <3>4. Passes(s, t, y)
      BY <2>4, <2>8, <3>2, <3>3 DEF Passes, Height
    <3> QED
      BY <1>2, <2>1, <3>2, <3>4 DEF Height
  <2>9. CASE s.colour[y] = "white"
    <3> DEFINE f == [node |-> y, rest |-> succ[y]]
    <3>1. t = [s EXCEPT !.colour[y] = "grey", !.stack = Append(kept, f)]
      BY <2>5, <2>9
    <3>2. f \in SearchFrames(N)
      BY <2>1 DEF SearchFrames
    <3>3. /\ t.stack = Append(kept, f) /\ t.colour = [s.colour EXCEPT ![y] = "grey"] /\ ~t.found
          /\ t = [colour |-> t.colour, stack |-> t.stack, found |-> t.found]
          /\ t.found = s.found
      BY <1>1, <3>1
    <3> HIDE DEF f, new
    <3>4. /\ t.stack \in Seq(SearchFrames(N)) /\ Len(t.stack) = L + 1 /\ t.stack[L + 1] = f
          /\ \A i \in 1..L : t.stack[i] = kept[i]
      BY <2>4, <3>2, <3>3, AppendProperties
    <3>5. t.colour \in [N -> {"white", "grey", "black"}]
      BY <1>1, <3>3
    <3>6. t \in SearchStates(N)
      BY <3>3, <3>4, <3>5 DEF SearchStates
    <3>7. Looks(s, t, y)
      <4>1. t.stack[L] = new
        BY <1>2, <2>4, <3>4
      <4>2. t.stack[L].rest = Tail(top.rest) /\ t.stack[L].node = top.node
        BY <4>1 DEF new
      <4>3. \A i \in 1..L : i # L => t.stack[i] = s.stack[i]
        BY <2>4, <3>4
      <4>4. \A i \in 1..L : t.stack[i].node = s.stack[i].node
        BY <4>2, <4>3
      <4>5. Ahead(s, L) = Ahead(t, L) \cup {y}
        BY <2>1, <4>2 DEF Ahead
      <4>6. Len(t.stack[L].rest) = Len(top.rest) - 1
        BY <2>1, <4>2
      <4> QED
        BY <4>3, <4>4, <4>5, <4>6 DEF Looks, Height
    <3>8. Enters(succ, s, t, y)
      BY <2>9, <3>3, <3>4, <3>7 DEF Enters, Height, f
    <3> QED
      BY <1>2, <2>1, <3>3, <3>6, <3>8 DEF Height
  <2> QED
    BY <2>6, <2>7, <2>8, <2>9
<1> QED
  BY <1>5, <1>6

(* The stack holds the grey nodes, each once; what follows one of them is   *)
(* still ahead, black, or the next on the stack.                            *)
Trailing(N, succ, s) ==
    /\ \A i, j \in 1..Height(s) : s.stack[i].node = s.stack[j].node => i = j
    /\ \A n \in N : s.colour[n] = "grey" <=> \E i \in 1..Height(s) : s.stack[i].node = n
    /\ \A i \in 1..Height(s) : \A y \in N : Follows(succ, s.stack[i].node, y) =>
          y \in Ahead(s, i) \/ s.colour[y] = "black"
          \/ (i < Height(s) /\ y = s.stack[i + 1].node)

(* What follows a black node is black, and the black nodes hold no cycle:   *)
(* each set of them has one that none of the set leads to.                  *)
Closed(N, succ, s) ==
    /\ \A x, y \in N : s.colour[x] = "black" /\ Follows(succ, x, y) => s.colour[y] = "black"
    /\ \A X \in SUBSET {n \in N : s.colour[n] = "black"} :
          X # {} => \E x \in X : \A y \in X : ~Follows(succ, y, x)

(* Leaving a node all of whose successors are black.                        *)
LEMMA LeavingKeeps ==
    ASSUME NEW N, NEW succ, NEW s \in SearchStates(N), NEW t \in SearchStates(N),
           Trailing(N, succ, s), Closed(N, succ, s), Height(s) \in Nat \ {0},
           s.stack[Height(s)] \in SearchFrames(N), Leaves(s, t, s.stack[Height(s)].node)
    PROVE  /\ Trailing(N, succ, t) /\ Closed(N, succ, t)
           /\ \A n \in N : s.colour[n] # "white" => t.colour[n] # "white"
<1> DEFINE x == s.stack[Height(s)].node
<1>0. PICK L : L = Height(s)
  OBVIOUS
<1>1. x \in N
  BY DEF SearchFrames
<1>2. \A n \in N : t.colour[n] = IF n = x THEN "black" ELSE s.colour[n]
  BY <1>1 DEF Leaves, SearchStates
<1>3. /\ L \in Nat \ {0} /\ L \in 1..L /\ Height(t) = L - 1 /\ s.stack[L].node = x
      /\ \A i \in 1..(L - 1) : t.stack[i] = s.stack[i] /\ i \in 1..L /\ i # L
      /\ \A i \in 1..L : i = L \/ i \in 1..(L - 1)
  BY <1>0 DEF Leaves
<1>4. \A i, j \in 1..L : s.stack[i].node = s.stack[j].node => i = j
  BY <1>0 DEF Trailing
<1>5. \A n \in N : s.colour[n] = "grey" <=> \E i \in 1..L : s.stack[i].node = n
  BY <1>0 DEF Trailing
<1>6. s.colour[x] = "grey"
  BY <1>1, <1>3, <1>5
<1>7. \A y \in N : Follows(succ, x, y) => s.colour[y] = "black"
  BY <1>0, <1>3 DEF Trailing, Leaves
<1>8. \A i \in 1..(L - 1) : Ahead(t, i) = Ahead(s, i)
  BY <1>3 DEF Ahead
<1> HIDE DEF x
<1>9. Trailing(N, succ, t)
  <2>1. \A i, j \in 1..(L - 1) : t.stack[i].node = t.stack[j].node => i = j
    BY <1>3, <1>4
  <2>2. ASSUME NEW n \in N
        PROVE  t.colour[n] = "grey" <=> \E i \in 1..(L - 1) : t.stack[i].node = n
    <3>1. CASE n = x
      BY <1>2, <1>3, <1>4, <3>1
    <3>2. CASE n # x
      BY <1>2, <1>3, <1>5, <3>2
    <3> QED
      BY <3>1, <3>2
  <2>3. ASSUME NEW i \in 1..(L - 1), NEW y \in N, Follows(succ, t.stack[i].node, y)
        PROVE  \/ y \in Ahead(t, i) \/ t.colour[y] = "black"
               \/ i < L - 1 /\ y = t.stack[i + 1].node
    <3>1. \/ y \in Ahead(s, i) \/ s.colour[y] = "black"
          \/ i < L /\ y = s.stack[i + 1].node
      BY <1>0, <1>3, <2>3 DEF Trailing
    <3>2. CASE i < L /\ y = s.stack[i + 1].node
      <4>1. CASE i = L - 1
        BY <1>2, <1>3, <3>2, <4>1
      <4>2. CASE i # L - 1
        <5>1. i < L - 1 /\ i + 1 \in 1..(L - 1)
          BY <1>3, <4>2
        <5> QED
          BY <1>3, <3>2, <5>1
      <4> QED
        BY <4>1, <4>2
    <3> QED
      BY <1>2, <1>8, <3>1, <3>2
  <2> QED
    BY <1>3, <2>1, <2>2, <2>3 DEF Trailing
<1>10. Closed(N, succ, t)
  <2>1. ASSUME NEW a \in N, NEW b \in N, t.colour[a] = "black", Follows(succ, a, b)
        PROVE  t.colour[b] = "black"
    <3>1. CASE a = x
      BY <1>2, <1>7, <2>1, <3>1
    <3>2. CASE a # x
      BY <1>2, <2>1, <3>2 DEF Closed
    <3> QED
      BY <3>1, <3>2
  <2>2. ASSUME NEW X \in SUBSET {n \in N : t.colour[n] = "black"}, X # {}
        PROVE  \E a \in X : \A b \in X : ~Follows(succ, b, a)
    <3>1. CASE x \in X
      <4>1. ASSUME NEW b \in X, Follows(succ, b, x) PROVE FALSE
        <5>1. b \in N /\ (b = x \/ s.colour[b] = "black")
          BY <1>2
        <5>2. s.colour[x] = "black"
          <6>1. CASE b = x
            BY <1>1, <1>7, <4>1, <6>1
          <6>2. CASE b # x
            BY <1>1, <4>1, <5>1, <6>2 DEF Closed
          <6> QED
            BY <6>1, <6>2
        <5> QED
          BY <1>6, <5>2
      <4> QED
        BY <3>1, <4>1
    <3>2. CASE x \notin X
      <4>1. X \in SUBSET {n \in N : s.colour[n] = "black"}
        BY <1>2, <3>2
      <4> QED
        BY <2>2, <4>1 DEF Closed
    <3> QED
      BY <3>1, <3>2
  <2> QED
    BY <2>1, <2>2 DEF Closed
<1> QED
  BY <1>2, <1>9, <1>10

(* Passing over a black node.                                               *)
LEMMA PassingKeeps ==
    ASSUME NEW N, NEW succ, NEW s \in SearchStates(N), NEW t \in SearchStates(N),
           Trailing(N, succ, s), Closed(N, succ, s), Height(s) \in Nat \ {0},
           NEW z \in N, Passes(s, t, z)
    PROVE  /\ Trailing(N, succ, t) /\ Closed(N, succ, t)
           /\ \A n \in N : s.colour[n] # "white" => t.colour[n] # "white"
<1>0. PICK L : L = Height(s)
  OBVIOUS
<1>1. /\ L \in Nat \ {0} /\ Height(t) = L /\ t.colour = s.colour /\ s.colour[z] = "black"
      /\ \A i \in 1..L : t.stack[i].node = s.stack[i].node
      /\ \A i \in 1..L : i # L => t.stack[i] = s.stack[i]
      /\ Ahead(s, L) = Ahead(t, L) \cup {z}
  BY <1>0 DEF Passes, Looks
<1>2. ASSUME NEW i \in 1..L, i # L PROVE Ahead(t, i) = Ahead(s, i)
  <2>1. t.stack[i] = s.stack[i]
    BY <1>1, <1>2
  <2> QED
    BY <2>1 DEF Ahead
<1>3. Trailing(N, succ, t)
  <2>1. \A i, j \in 1..L : t.stack[i].node = t.stack[j].node => i = j
    BY <1>0, <1>1 DEF Trailing
  <2>2. \A n \in N : t.colour[n] = "grey" <=> \E i \in 1..L : t.stack[i].node = n
    BY <1>0, <1>1 DEF Trailing
  <2>3. ASSUME NEW i \in 1..L, NEW y \in N, Follows(succ, t.stack[i].node, y)
        PROVE  \/ y \in Ahead(t, i) \/ t.colour[y] = "black"
               \/ i < L /\ y = t.stack[i + 1].node
    <3>1. \/ y \in Ahead(s, i) \/ s.colour[y] = "black"
          \/ i < L /\ y = s.stack[i + 1].node
      BY <1>0, <1>1, <2>3 DEF Trailing
    <3>2. i < L => i + 1 \in 1..L
      BY <1>1
    <3>3. y \in Ahead(s, i) => y \in Ahead(t, i) \/ y = z
      BY <1>1, <1>2
    <3> QED
      BY <1>1, <3>1, <3>2, <3>3
  <2> QED
    BY <1>1, <2>1, <2>2, <2>3 DEF Trailing
<1>4. Closed(N, succ, t)
  BY <1>1 DEF Closed
<1> QED
  BY <1>1, <1>3, <1>4

(* Entering a white node, with all its successors ahead.                    *)
LEMMA EnteringKeeps ==
    ASSUME NEW N, NEW succ, NEW s \in SearchStates(N), NEW t \in SearchStates(N),
           Trailing(N, succ, s), Closed(N, succ, s), Height(s) \in Nat \ {0},
           NEW z \in N, Enters(succ, s, t, z)
    PROVE  /\ Trailing(N, succ, t) /\ Closed(N, succ, t)
           /\ \A n \in N : s.colour[n] # "white" => t.colour[n] # "white"
<1>0. PICK L : L = Height(s)
  OBVIOUS
<1>1. /\ L \in Nat \ {0} /\ Height(t) = L + 1 /\ s.colour[z] = "white"
      /\ \A i \in 1..L : t.stack[i].node = s.stack[i].node
      /\ \A i \in 1..L : i # L => t.stack[i] = s.stack[i]
      /\ Ahead(s, L) = Ahead(t, L) \cup {z}
      /\ t.stack[L + 1] = [node |-> z, rest |-> succ[z]]
  BY <1>0 DEF Enters, Looks
<1>2. ASSUME NEW i \in 1..L, i # L PROVE Ahead(t, i) = Ahead(s, i)
  <2>1. t.stack[i] = s.stack[i]
    BY <1>1, <1>2
  <2> QED
    BY <2>1 DEF Ahead
<1>3. \A n \in N : t.colour[n] = IF n = z THEN "grey" ELSE s.colour[n]
  <2>1. t.colour = [s.colour EXCEPT ![z] = "grey"]
    BY DEF Enters
  <2>2. DOMAIN s.colour = N
    BY DEF SearchStates
  <2> QED
    BY <2>1, <2>2
<1>4. t.stack[L + 1].node = z /\ \A y : Follows(succ, z, y) => y \in Ahead(t, L + 1)
  BY <1>1 DEF Follows, Ahead
<1>5. \A i \in 1..(L + 1) : i = L + 1 \/ i \in 1..L
  BY <1>1
<1>6. L \in 1..(L + 1) /\ L + 1 \in 1..(L + 1) /\ \A i \in 1..L : i \in 1..(L + 1) /\ i # L + 1
  BY <1>1
<1>7. \A i \in 1..L : s.stack[i].node # z
  BY <1>0, <1>1 DEF Trailing
<1>8. Trailing(N, succ, t)
  <2>1. ASSUME NEW i \in 1..(L + 1), NEW j \in 1..(L + 1), t.stack[i].node = t.stack[j].node
        PROVE  i = j
    <3>1. \A a, b \in 1..L : s.stack[a].node = s.stack[b].node => a = b
      BY <1>0 DEF Trailing
    <3> QED
      BY <1>1, <1>4, <1>5, <1>7, <2>1, <3>1
  <2>2. ASSUME NEW n \in N
        PROVE  t.colour[n] = "grey" <=> \E i \in 1..(L + 1) : t.stack[i].node = n
    <3>1. s.colour[n] = "grey" <=> \E i \in 1..L : s.stack[i].node = n
      BY <1>0 DEF Trailing
    <3> QED
      BY <1>1, <1>3, <1>4, <1>5, <1>6, <1>7, <3>1
  <2>3. ASSUME NEW i \in 1..(L + 1), NEW y \in N, Follows(succ, t.stack[i].node, y)
        PROVE  \/ y \in Ahead(t, i) \/ t.colour[y] = "black"
               \/ i < L + 1 /\ y = t.stack[i + 1].node
    <3>1. CASE i = L + 1
      BY <1>4, <2>3, <3>1
    <3>2. CASE i \in 1..L
      <4>1. \/ y \in Ahead(s, i) \/ s.colour[y] = "black"
            \/ i < L /\ y = s.stack[i + 1].node
        BY <1>0, <1>1, <2>3, <3>2 DEF Trailing
      <4>2. s.colour[y] = "black" => t.colour[y] = "black"
        BY <1>1, <1>3
      <4>3. CASE i = L
        <5>1. y \in Ahead(t, L) \/ y = z \/ s.colour[y] = "black"
          BY <1>1, <4>1, <4>3
        <5>2. L < L + 1
          BY <1>1
        <5> QED
          BY <1>4, <4>2, <4>3, <5>1, <5>2
      <4>4. CASE i # L
        <5>1. i < L + 1 /\ (i < L => i + 1 \in 1..L)
          BY <1>1, <3>2
        <5> QED
          BY <1>1, <1>2, <3>2, <4>1, <4>2, <4>4, <5>1
      <4> QED
        BY <4>3, <4>4
    <3> QED
      BY <1>5, <3>1, <3>2
  <2> QED
    BY <1>1, <2>1, <2>2, <2>3 DEF Trailing
<1>9. Closed(N, succ, t)
  <2>1. \A n \in N : t.colour[n] = "black" <=> s.colour[n] = "black"
    BY <1>1, <1>3
  <2>2. {n \in N : t.colour[n] = "black"} = {n \in N : s.colour[n] = "black"}
    BY <2>1
  <2> QED
    BY <2>1, <2>2 DEF Closed
<1> QED
  BY <1>3, <1>8, <1>9

(* A property of the first stage that each stage hands on holds of all.     *)
LEMMA StaysIn ==
    ASSUME NEW f, NEW T, f[0] \in T, \A n \in Nat : f[n] \in T => f[n + 1] \in T
    PROVE  \A n \in Nat : f[n] \in T
<1>1. PICK S : S = {n \in Nat : f[n] \in T}
  OBVIOUS
<1>2. \A n \in Nat : n \in S
  BY <1>1, AllNats
<1> QED
  BY <1>1, <1>2

(* A finite set of numbers has a greatest.                                  *)
LEMMA MaxIsGreatest ==
    ASSUME NEW S \in SUBSET Nat, IsFiniteSet(S), S # {}
    PROVE  Max(S) \in S /\ \A y \in S : y <= Max(S)
<1> DEFINE Over(x) == {y \in S : y > x}
           F == {Over(x) : x \in S}
<1>1. PICK T \in F : \A U \in F : U \subseteq T => U = T
  <2>1. \A x : Over(x) \subseteq S
    OBVIOUS
  <2>2. \A x : IsFiniteSet(Over(x))
    <3> HIDE DEF Over
    <3> QED
      BY <2>1, FS_Subset
  <2>3. F # {} /\ \A U \in F : IsFiniteSet(U)
    <3> HIDE DEF Over
    <3> QED
      BY <2>2
  <2> HIDE DEF F
  <2> QED
    BY <2>3, MinimalSet
<1>2. PICK x \in S : T = Over(x)
  OBVIOUS
<1>3. ASSUME NEW y \in Over(x) PROVE FALSE
  <2>1. y \in S /\ Over(y) \in F
    OBVIOUS
  <2>2. Over(y) \subseteq Over(x) /\ y \notin Over(y)
    <3>1. x \in Nat /\ y \in Nat /\ y > x /\ S \subseteq Nat
      BY <2>1
    <3>2. ~(y > y) /\ \A z \in Nat : z > y => z > x
      BY <3>1
    <3> HIDE <3>1
    <3> QED
      BY <3>2
  <2>3. Over(y) = Over(x)
    <3> HIDE DEF F, Over
    <3> QED
      BY <1>1, <1>2, <2>1, <2>2
  <2> QED
    BY <2>2, <2>3
<1>4. \A y \in S : x >= y
  BY <1>3
<1>5. Max(S) \in S /\ \A y \in S : Max(S) >= y
  BY <1>4 DEF Max
<1> QED
  BY <1>5

(* A step on a search that goes on keeps what it rests on, and no node      *)
(* turns white again.                                                       *)
LEMMA SearchKeeps ==
    ASSUME NEW N, NEW succ \in [N -> Seq(N)], NEW s \in SearchStates(N),
           ~s.found, s.stack # <<>>, Trailing(N, succ, s), Closed(N, succ, s),
           NEW t, t = SearchStep(succ, s), ~t.found
    PROVE  /\ Trailing(N, succ, t) /\ Closed(N, succ, t)
           /\ \A n \in N : s.colour[n] # "white" => t.colour[n] # "white"
<1>1. /\ t \in SearchStates(N)
      /\ Height(s) \in Nat \ {0} /\ s.stack[Height(s)] \in SearchFrames(N)
      /\ \/ Leaves(s, t, s.stack[Height(s)].node)
         \/ \E y \in N : Passes(s, t, y) \/ Enters(succ, s, t, y)
  BY SearchOutcomes
<1> QED
  BY <1>1, LeavingKeeps, PassingKeeps, EnteringKeeps

-----------------------------------------------------------------------------
(* The steps SearchFrom allows are enough.                                  *)

White(N, s) == {n \in N : s.colour[n] = "white"}

(* Every frame has fewer than B successors left to look at.                 *)
Short(s, B) == \A i \in 1..Height(s) : Len(s.stack[i].rest) < B

Owed(s) == IF s.stack = <<>> THEN 0 ELSE Len(s.stack[Height(s)].rest)

Cost(N, s, B) == Cardinality(White(N, s)) * (2 * B) + Height(s) * B + Owed(s)

LEMMA OwedIsNatural ==
    ASSUME NEW N, NEW s \in SearchStates(N), NEW B \in Nat, Short(s, B)
    PROVE  /\ Height(s) \in Nat /\ Owed(s) \in Nat /\ Owed(s) <= B
           /\ s.stack # <<>> => Height(s) > 0 /\ Owed(s) < B
           /\ \A i \in 1..Height(s) : s.stack[i].node \in N /\ Len(s.stack[i].rest) \in Nat
<1>1. s.stack \in Seq(SearchFrames(N))
  BY DEF SearchStates
<1>2. Height(s) \in Nat /\ \A i \in 1..Height(s) : s.stack[i] \in SearchFrames(N)
  BY <1>1, LenProperties DEF Height
<1>3. \A i \in 1..Height(s) : s.stack[i].node \in N /\ Len(s.stack[i].rest) \in Nat
  <2> TAKE i \in 1..Height(s)
  <2>1. s.stack[i].node \in N /\ s.stack[i].rest \in Seq(N)
    BY <1>2 DEF SearchFrames
  <2> QED
    BY <2>1, LenProperties
<1>4. CASE s.stack = <<>>
  BY <1>2, <1>3, <1>4 DEF Owed
<1>5. CASE s.stack # <<>>
  <2>1. Height(s) # 0
    BY <1>1, <1>5, EmptySeq, LenProperties DEF Height
  <2>2. Height(s) \in 1..Height(s)
    BY <1>2, <2>1
  <2>3. Owed(s) = Len(s.stack[Height(s)].rest)
    BY <1>5 DEF Owed
  <2> QED
    BY <1>2, <1>3, <2>1, <2>2, <2>3 DEF Short
<1> QED
  BY <1>4, <1>5

LEMMA Distributes ==
    \A w, b \in Int : (w - 1) * b = w * b - b /\ (w + 1) * b = w * b + b
OBVIOUS

(* Each step costs something.                                               *)
LEMMA StepsCost ==
    ASSUME NEW N, IsFiniteSet(N), NEW succ \in [N -> Seq(N)], NEW B \in Nat,
           \A x \in N : Len(succ[x]) < B,
           NEW s \in SearchStates(N), ~s.found, s.stack # <<>>,
           Trailing(N, succ, s), Short(s, B),
           NEW t, t = SearchStep(succ, s), ~t.found
    PROVE  Short(t, B) /\ Cost(N, t, B) < Cost(N, s, B)
<1> DEFINE L == Height(s)
           x == s.stack[L].node
<1>1. /\ t \in SearchStates(N)
      /\ L \in Nat \ {0} /\ s.stack[L] \in SearchFrames(N)
      /\ \/ Leaves(s, t, x)
         \/ \E y \in N : Passes(s, t, y) \/ Enters(succ, s, t, y)
  BY SearchOutcomes
<1>2. /\ Owed(s) \in Nat /\ Owed(s) = Len(s.stack[L].rest)
      /\ \A i \in 1..L : Len(s.stack[i].rest) \in Nat
  BY OwedIsNatural DEF Owed
<1>3. L \in 1..L /\ x \in N /\ s.colour[x] = "grey"
  <2>1. L \in 1..L
    BY <1>1
  <2>2. x \in N
    BY <1>1 DEF SearchFrames
  <2> QED
    BY <2>1, <2>2 DEF Trailing
<1>4. /\ IsFiniteSet(White(N, s)) /\ Cardinality(White(N, s)) \in Nat
      /\ IsFiniteSet(White(N, t)) /\ Cardinality(White(N, t)) \in Nat
  <2>1. White(N, s) \subseteq N /\ White(N, t) \subseteq N
    BY DEF White
  <2> QED
    BY <2>1, FS_Subset, FS_CardinalityType
<1>5. s.colour \in [N -> {"white", "grey", "black"}]
  BY DEF SearchStates
<1>6. PICK w \in Int : w = Cardinality(White(N, s)) * (2 * B)
  BY <1>4
<1>7. PICK h \in Int : h = L * B
  BY <1>1
<1>8. PICK d \in Nat : d = Owed(s)
  BY <1>2
<1>9. Cost(N, s, B) = w + h + d
  BY <1>6, <1>7, <1>8 DEF Cost
<1>10. CASE Leaves(s, t, x)
  <2>1. White(N, t) = White(N, s)
    <3>1. \A n \in N : t.colour[n] = "white" <=> s.colour[n] = "white"
      BY <1>3, <1>5, <1>10 DEF Leaves
    <3> QED
      BY <3>1 DEF White
  <2>2. Height(t) = L - 1 /\ \A i \in 1..Height(t) : t.stack[i] = s.stack[i] /\ i \in 1..L
    BY <1>1, <1>10 DEF Leaves
  <2>3. Short(t, B)
    BY <2>2 DEF Short
  <2>4. Height(t) * B = h - B
    BY <1>1, <1>7, <2>2, Distributes
  <2>5. Owed(t) \in Nat /\ Owed(t) <= B /\ (t.stack # <<>> => Owed(t) < B)
    BY <1>1, <2>3, OwedIsNatural
  <2>6. Owed(t) < B
    <3>1. CASE t.stack = <<>>
      <4>1. Len(s.stack[L].rest) < B
        BY <1>3 DEF Short
      <4> QED
        BY <1>2, <3>1, <4>1 DEF Owed
    <3> QED
      BY <2>5, <3>1
  <2>7. Cost(N, t, B) = w + (h - B) + Owed(t)
    BY <1>6, <2>1, <2>4 DEF Cost
  <2> QED
    <3>1. PICK e \in Nat : e = Owed(t)
      BY <2>5
    <3>2. w + (h - B) + e < w + h + d
      BY <2>6, <3>1
    <3> QED
      BY <1>9, <2>3, <2>7, <3>1, <3>2
<1>11. ASSUME NEW y \in N, Looks(s, t, y)
       PROVE  \A i \in 1..L : Len(t.stack[i].rest) < B
  <2>1. /\ \A i \in 1..L : i # L => t.stack[i] = s.stack[i]
        /\ Len(t.stack[L].rest) = Len(s.stack[L].rest) - 1
    BY <1>11 DEF Looks
  <2>2. \A i \in 1..L : Len(s.stack[i].rest) < B
    BY DEF Short
  <2>3. Len(t.stack[L].rest) < B
    BY <1>2, <1>3, <2>1, <2>2
  <2> QED
    BY <2>1, <2>2, <2>3
<1>12. ASSUME NEW y \in N, Passes(s, t, y) PROVE Short(t, B) /\ Cost(N, t, B) < Cost(N, s, B)
  <2>1. /\ t.colour = s.colour /\ Height(t) = L /\ Looks(s, t, y)
        /\ Len(t.stack[L].rest) = Owed(s) - 1
    BY <1>2, <1>12 DEF Passes, Looks
  <2>2. White(N, t) = White(N, s)
    BY <2>1 DEF White
  <2>3. Short(t, B)
    BY <1>11, <2>1 DEF Short
  <2>4. Owed(t) = Owed(s) - 1
    <3>1. t.stack # <<>>
      BY <1>1, <2>1, EmptySeq DEF Height
    <3> QED
      BY <2>1, <3>1 DEF Owed
  <2>5. Cost(N, t, B) = w + h + Owed(t)
    BY <1>6, <1>7, <2>1, <2>2 DEF Cost
  <2> QED
    <3>1. w + h + (d - 1) < w + h + d
      OBVIOUS
    <3> QED
      BY <1>8, <1>9, <2>3, <2>4, <2>5, <3>1
<1>13. ASSUME NEW y \in N, Enters(succ, s, t, y) PROVE Short(t, B) /\ Cost(N, t, B) < Cost(N, s, B)
  <2>1. /\ s.colour[y] = "white" /\ t.colour = [s.colour EXCEPT ![y] = "grey"]
        /\ Height(t) = L + 1 /\ t.stack[L + 1] = [node |-> y, rest |-> succ[y]]
        /\ Looks(s, t, y) /\ Len(t.stack[L].rest) = Owed(s) - 1
    BY <1>2, <1>13 DEF Enters, Looks
  <2>2. White(N, t) = White(N, s) \ {y} /\ y \in White(N, s)
    BY <1>5, <2>1 DEF White
  <2>3. Cardinality(White(N, t)) = Cardinality(White(N, s)) - 1
    BY <1>4, <2>2, FS_RemoveElement
  <2>4. Short(t, B)
    <3>1. \A i \in 1..(L + 1) : i \in 1..L \/ i = L + 1
      BY <1>1
    <3> QED
      BY <1>11, <2>1, <3>1 DEF Short
  <2>5. t.stack # <<>> /\ Owed(t) < B /\ Owed(t) \in Nat
    <3>1. t.stack # <<>>
      BY <1>1, <2>1, EmptySeq DEF Height
    <3> QED
      BY <1>1, <2>4, <3>1, OwedIsNatural
  <2>6. PICK b \in Int : b = 2 * B
    OBVIOUS
  <2>7. Cardinality(White(N, t)) * (2 * B) = w - 2 * B
    <3>1. PICK c \in Int : c = Cardinality(White(N, s))
      BY <1>4
    <3>2. (c - 1) * b = c * b - b
      BY Distributes
    <3> QED
      BY <1>6, <2>3, <2>6, <3>1, <3>2
  <2>8. Height(t) * B = h + B
    BY <1>1, <1>7, <2>1, Distributes
  <2>9. Cost(N, t, B) = (w - 2 * B) + (h + B) + Owed(t)
    BY <2>7, <2>8 DEF Cost
  <2> QED
    <3>1. PICK e \in Nat : e = Owed(t)
      BY <2>5
    <3>2. (w - 2 * B) + (h + B) + e < w + h + d
      BY <2>5, <3>1
    <3> QED
      BY <1>9, <2>4, <2>9, <3>1, <3>2
<1> QED
  BY <1>1, <1>10, <1>12, <1>13

-----------------------------------------------------------------------------
(* The search from one start.                                               *)

(* Between two starts the stack is empty and no node is grey.               *)
Idle(N, succ, s) ==
    /\ s.stack = <<>> /\ \A n \in N : s.colour[n] # "grey"
    /\ Closed(N, succ, s)

(* The states the search from start goes through.                           *)
Begun(s, succ, start) ==
    [s EXCEPT !.colour[start] = "grey",
              !.stack = <<[node |-> start, rest |-> succ[start]]>>]

(* No node has so many successors.                                          *)
Width(N, succ) == 1 + Max({Len(succ[x]) : x \in N})

(* So many steps empty the stack.                                           *)
Enough(N, B) == 2 * Cardinality(N) * B

AreSearchSteps(succ, d, f) ==
    f[0] = d /\ \A n \in Nat : f[n + 1] = SearchStep(succ, f[n])

LEMMA StepIsState ==
    ASSUME NEW N, NEW succ \in [N -> Seq(N)], NEW s \in SearchStates(N)
    PROVE  SearchStep(succ, s) \in SearchStates(N)
<1>1. CASE s.found \/ s.stack = <<>>
  BY <1>1 DEF SearchStep
<1>2. CASE ~s.found /\ s.stack # <<>>
  BY <1>2, SearchOutcomes
<1> QED
  BY <1>1, <1>2

LEMMA BegunIsState ==
    ASSUME NEW N, NEW succ \in [N -> Seq(N)], NEW s \in SearchStates(N), NEW start \in N,
           NEW t, t = Begun(s, succ, start)
    PROVE  /\ t \in SearchStates(N) /\ t.found = s.found
           /\ \A n \in N : t.colour[n] = IF n = start THEN "grey" ELSE s.colour[n]
           /\ t.stack = <<[node |-> start, rest |-> succ[start]]>>
<1> DEFINE fr == [node |-> start, rest |-> succ[start]]
<1>1. /\ s.colour \in [N -> {"white", "grey", "black"}] /\ s.found \in BOOLEAN
      /\ s = [colour |-> s.colour, stack |-> s.stack, found |-> s.found]
  BY DEF SearchStates
<1>2. fr \in SearchFrames(N)
  BY DEF SearchFrames
<1>3. /\ t.colour = [s.colour EXCEPT ![start] = "grey"] /\ t.stack = <<fr>> /\ t.found = s.found
      /\ t = [colour |-> t.colour, stack |-> t.stack, found |-> t.found]
  <2>1. t = [s EXCEPT !.colour[start] = "grey", !.stack = <<fr>>]
    BY DEF Begun
  <2> HIDE DEF fr
  <2> QED
    BY <1>1, <2>1
<1>4. t.colour \in [N -> {"white", "grey", "black"}]
  BY <1>1, <1>3
<1>5. <<fr>> \in Seq(SearchFrames(N))
  <2> HIDE DEF fr
  <2> QED
    BY <1>2
<1>6. t \in SearchStates(N)
  <2> HIDE DEF fr
  <2> QED
    BY <1>1, <1>3, <1>4, <1>5 DEF SearchStates
<1>7. \A n \in N : t.colour[n] = IF n = start THEN "grey" ELSE s.colour[n]
  BY <1>1, <1>3
<1> QED
  BY <1>3, <1>6, <1>7

Iterates(D, d, G, f) == f \in [Nat -> D] /\ f[0] = d /\ \A n \in Nat : f[n + 1] = G[f[n]]

LEMMA IteratesExists ==
    ASSUME NEW D, NEW d \in D, NEW G \in [D -> D]
    PROVE  \E f : Iterates(D, d, G, f)
BY IterationExists DEF Iterates

LEMMA SearchStepsExist ==
    ASSUME NEW N, NEW succ \in [N -> Seq(N)], NEW t \in SearchStates(N)
    PROVE  \E f \in [Nat -> SearchStates(N)] : AreSearchSteps(succ, t, f)
<1>1. PICK D, G : D = SearchStates(N) /\ G = [b \in D |-> SearchStep(succ, b)]
  OBVIOUS
<1>2. t \in D /\ G \in [D -> D]
  BY <1>1, StepIsState
<1>3. PICK f : Iterates(D, t, G, f)
  BY <1>2, IteratesExists
<1>4. \A n \in Nat : f[n + 1] = SearchStep(succ, f[n])
  BY <1>1, <1>3 DEF Iterates
<1> QED
  BY <1>1, <1>3, <1>4 DEF AreSearchSteps, Iterates

(* The recursive function inside SearchFrom is defined by its equation.     *)
ReachedIn(succ, s, start, K) ==
    \E f : /\ AreSearchSteps(succ, Begun(s, succ, start), f)
          /\ SearchFrom(succ, s, start) = f[K]

LEMMA SearchRuns ==
    ASSUME NEW N, NEW succ \in [N -> Seq(N)], NEW s \in SearchStates(N), NEW start \in N,
           ~s.found, s.colour[start] = "white",
           NEW K, K = Enough(N, Width(N, succ))
    PROVE  ReachedIn(succ, s, start, K)
<1> DEFINE step[n \in Nat] ==
            IF n = 0
            THEN [s EXCEPT !.colour[start] = "grey",
                           !.stack = <<[node |-> start, rest |-> succ[start]]>>]
            ELSE SearchStep(succ, step[n - 1])
<1>1. SearchFrom(succ, s, start) = step[K]
  <2>1. DOMAIN succ = N
    OBVIOUS
  <2> QED
    BY <2>1 DEF SearchFrom, Width, Enough
<1>2. \E g : g = [n \in Nat |-> IF n = 0
                  THEN [s EXCEPT !.colour[start] = "grey",
                                 !.stack = <<[node |-> start, rest |-> succ[start]]>>]
                  ELSE SearchStep(succ, g[n - 1])]
  <2> HIDE DEF step
  <2> DEFINE t == Begun(s, succ, start)
  <2>1. PICK f : AreSearchSteps(succ, t, f) /\ f \in [Nat -> SearchStates(N)]
    <3>1. t \in SearchStates(N)
      BY BegunIsState
    <3> HIDE DEF t
    <3> QED
      BY <3>1, SearchStepsExist
  <2>2. \A n \in Nat : n # 0 => f[n] = SearchStep(succ, f[n - 1])
    <3> TAKE n \in Nat
    <3> HAVE n # 0
    <3>1. n - 1 \in Nat /\ (n - 1) + 1 = n
      OBVIOUS
    <3> HIDE DEF t
    <3> QED
      BY <2>1, <3>1 DEF AreSearchSteps
  <2>3. f = [n \in Nat |-> IF n = 0 THEN t ELSE SearchStep(succ, f[n - 1])]
    <3> HIDE DEF t
    <3> QED
      BY <2>1, <2>2 DEF AreSearchSteps
  <2> QED
    BY <2>3 DEF Begun
<1>3. step = [n \in Nat |-> IF n = 0
                  THEN [s EXCEPT !.colour[start] = "grey",
                                 !.stack = <<[node |-> start, rest |-> succ[start]]>>]
                  ELSE SearchStep(succ, step[n - 1])]
  BY <1>2
<1> HIDE DEF step
<1>4. step[0] = Begun(s, succ, start)
  BY <1>3 DEF Begun
<1>5. ASSUME NEW n \in Nat PROVE step[n + 1] = SearchStep(succ, step[n])
  <2>1. n + 1 \in Nat /\ n + 1 # 0 /\ (n + 1) - 1 = n
    OBVIOUS
  <2> QED
    BY <1>3, <2>1
<1>6. AreSearchSteps(succ, Begun(s, succ, start), step)
  BY <1>4, <1>5 DEF AreSearchSteps
<1> QED
  BY <1>1, <1>6 DEF ReachedIn

(* What the search rests on when it begins.                                 *)
LEMMA BegunHolds ==
    ASSUME NEW N, IsFiniteSet(N), NEW succ \in [N -> Seq(N)], NEW B \in Nat,
           \A x \in N : Len(succ[x]) < B,
           NEW s \in SearchStates(N), Idle(N, succ, s), NEW start \in N,
           s.colour[start] = "white",
           NEW t, t = Begun(s, succ, start), NEW K, K = Enough(N, B)
    PROVE  /\ Trailing(N, succ, t) /\ Closed(N, succ, t) /\ Short(t, B)
           /\ \A n \in N : s.colour[n] # "white" => t.colour[n] # "white"
           /\ t.colour[start] # "white"
           /\ Cost(N, t, B) < K
<1>1. /\ t \in SearchStates(N) /\ t.stack = <<[node |-> start, rest |-> succ[start]]>>
      /\ \A n \in N : t.colour[n] = IF n = start THEN "grey" ELSE s.colour[n]
  BY BegunIsState
<1>2. \A n \in N : t.colour[n] = IF n = start THEN "grey" ELSE s.colour[n]
  BY <1>1
<1>3. /\ Height(t) = 1 /\ t.stack[1] = [node |-> start, rest |-> succ[start]]
  BY <1>1 DEF Height
<1>4. t.stack[1].node = start /\ t.stack[1].rest = succ[start]
  BY <1>3
<1>5. \A i \in 1..Height(t) : i = 1
  BY <1>3
<1>6. 1 \in 1..Height(t)
  BY <1>3
<1>7. Trailing(N, succ, t)
  <2>1. \A n \in N : t.colour[n] = "grey" <=> \E i \in 1..Height(t) : t.stack[i].node = n
    BY <1>2, <1>4, <1>5, <1>6 DEF Idle
  <2>2. \A y \in N : Follows(succ, start, y) => y \in Ahead(t, 1)
    BY <1>4 DEF Follows, Ahead
  <2>3. ASSUME NEW i \in 1..Height(t), NEW y \in N, Follows(succ, t.stack[i].node, y)
        PROVE  y \in Ahead(t, i)
    <3>1. i = 1
      BY <1>5
    <3> QED
      BY <1>4, <2>2, <2>3, <3>1
  <2>4. \A i, j \in 1..Height(t) : i = j
    BY <1>5
  <2> QED
    BY <2>1, <2>3, <2>4 DEF Trailing
<1>8. Closed(N, succ, t)
  <2>1. \A n \in N : t.colour[n] = "black" <=> s.colour[n] = "black"
    BY <1>2
  <2>2. {n \in N : t.colour[n] = "black"} = {n \in N : s.colour[n] = "black"}
    BY <2>1
  <2> QED
    BY <2>1, <2>2 DEF Closed, Idle
<1>9. Short(t, B)
  BY <1>4, <1>5 DEF Short
<1>10. Cost(N, t, B) < K
  <2>1. White(N, t) \subseteq N \ {start}
    BY <1>2 DEF White
  <2>2. PICK c \in Nat : c = Cardinality(N)
    BY FS_CardinalityType
  <2>3. IsFiniteSet(N \ {start}) /\ Cardinality(N \ {start}) = c - 1
    BY <2>2, FS_RemoveElement
  <2>4. PICK w \in Nat : w = Cardinality(White(N, t))
    BY <2>1, <2>3, FS_Subset, FS_CardinalityType
  <2>5. w <= c - 1
    BY <2>1, <2>3, <2>4, FS_Subset
  <2>6. PICK e \in Nat : e = Owed(t)
    BY <1>1, <1>9, OwedIsNatural
  <2>7. e < B
    <3>1. t.stack # <<>>
      BY <1>1
    <3> QED
      BY <1>1, <1>9, <2>6, <3>1, OwedIsNatural
  <2>8. Cost(N, t, B) = w * (2 * B) + B + e
    BY <1>3, <2>4, <2>6 DEF Cost
  <2>9. PICK b \in Nat : b = 2 * B
    OBVIOUS
  <2>10. w * b <= (c - 1) * b
    <3>1. PICK k \in Nat : c - 1 = w + k
      <4>1. (c - 1) - w \in Nat /\ c - 1 = w + ((c - 1) - w)
        BY <2>5
      <4> QED
        BY <4>1
    <3>2. (w + k) * b = w * b + k * b
      OBVIOUS
    <3>3. k * b \in Nat /\ w * b \in Nat
      OBVIOUS
    <3> QED
      BY <3>1, <3>2, <3>3
  <2>11. (c - 1) * b = c * b - b
    BY Distributes
  <2>12. PICK m \in Int : m = c * b
    OBVIOUS
  <2>13. PICK v \in Int : v = w * b
    OBVIOUS
  <2>14. v <= m - b
    BY <2>10, <2>11, <2>12, <2>13
  <2>15. v + B + e < m
    BY <2>7, <2>9, <2>14
  <2>16. 2 * c * B = c * (2 * B)
    OBVIOUS
  <2> QED
    BY <2>2, <2>8, <2>9, <2>12, <2>13, <2>15, <2>16 DEF Enough
<1> QED
  BY <1>2, <1>7, <1>8, <1>9, <1>10

LEMMA CostIsNatural ==
    ASSUME NEW N, IsFiniteSet(N), NEW s \in SearchStates(N), NEW B \in Nat, Short(s, B)
    PROVE  Cost(N, s, B) \in Nat
<1>1. PICK w \in Nat : w = Cardinality(White(N, s))
  <2>1. White(N, s) \subseteq N
    BY DEF White
  <2> QED
    BY <2>1, FS_Subset, FS_CardinalityType
<1>2. PICK h, e \in Nat : h = Height(s) /\ e = Owed(s)
  BY OwedIsNatural
<1>3. w * (2 * B) \in Nat /\ h * B \in Nat
  OBVIOUS
<1> QED
  BY <1>1, <1>2, <1>3 DEF Cost

(* The bound on what is left to look at.                                    *)
LEMMA SuccessorsBounded ==
    ASSUME NEW N, IsFiniteSet(N), N # {}, NEW succ \in [N -> Seq(N)],
           NEW B, B = Width(N, succ)
    PROVE  B \in Nat /\ \A x \in N : Len(succ[x]) < B
<1> DEFINE S == {Len(succ[x]) : x \in N}
<1>1. \A x \in N : Len(succ[x]) \in Nat
  BY LenProperties
<1>2. S \in SUBSET Nat /\ S # {}
  BY <1>1
<1>3. IsFiniteSet(S)
  <2> DEFINE g == [x \in N |-> Len(succ[x])]
  <2>1. g \in Surjection(N, S)
    BY DEF Surjection
  <2> HIDE DEF g, S
  <2> QED
    BY <2>1, FS_Surjection
<1>4. Max(S) \in S /\ \A y \in S : y <= Max(S)
  <2> HIDE DEF S
  <2> QED
    BY <1>2, <1>3, MaxIsGreatest
<1>5. \A x \in N : Len(succ[x]) \in S
  OBVIOUS
<1>6. B = 1 + Max(S)
  BY DEF Width
<1> HIDE DEF S
<1>7. PICK m \in Nat : m = Max(S)
  BY <1>2, <1>4
<1>8. \A l \in Nat : l <= m => l < 1 + m
  OBVIOUS
<1> QED
  BY <1>1, <1>4, <1>5, <1>6, <1>7, <1>8

(* What every state of the search from start rests on, s being the state    *)
(* it began in.                                                             *)
SoundSearch(N, succ, B, s, start, u) ==
    /\ u \in SearchStates(N)
    /\ \/ u.found
       \/ /\ Trailing(N, succ, u) /\ Closed(N, succ, u) /\ Short(u, B)
          /\ \A n \in N : s.colour[n] # "white" \/ n = start => u.colour[n] # "white"

AllSound(N, succ, B, s, start, f) == \A n \in Nat : SoundSearch(N, succ, B, s, start, f[n])

LEMMA SoundSteps ==
    ASSUME NEW N, IsFiniteSet(N), NEW succ \in [N -> Seq(N)], NEW B \in Nat,
           \A x \in N : Len(succ[x]) < B,
           NEW s, NEW start, NEW u, SoundSearch(N, succ, B, s, start, u),
           NEW t, t = SearchStep(succ, u)
    PROVE  SoundSearch(N, succ, B, s, start, t)
<1>1. u \in SearchStates(N) /\ t \in SearchStates(N)
  BY StepIsState DEF SoundSearch
<1>2. CASE u.found \/ u.stack = <<>>
  BY <1>2 DEF SearchStep
<1>3. CASE ~u.found /\ u.stack # <<>> /\ t.found
  BY <1>1, <1>3 DEF SoundSearch
<1>4. CASE ~u.found /\ u.stack # <<>> /\ ~t.found
  <2>1. /\ Trailing(N, succ, u) /\ Closed(N, succ, u) /\ Short(u, B)
        /\ \A n \in N : s.colour[n] # "white" \/ n = start => u.colour[n] # "white"
    BY <1>4 DEF SoundSearch
  <2>2. /\ Trailing(N, succ, t) /\ Closed(N, succ, t)
        /\ \A n \in N : u.colour[n] # "white" => t.colour[n] # "white"
    BY <1>1, <1>4, <2>1, SearchKeeps
  <2>3. Short(t, B)
    BY <1>1, <1>4, <2>1, StepsCost
  <2>4. \A n \in N : s.colour[n] # "white" \/ n = start => t.colour[n] # "white"
    BY <2>1, <2>2
  <2> QED
    BY <1>1, <2>2, <2>3, <2>4 DEF SoundSearch
<1> QED
  BY <1>2, <1>3, <1>4

(* After so many steps the search has found a cycle or emptied its stack.   *)
Ended(u) == u.found \/ u.stack = <<>>

Affords(N, B, d, K) == ~d.found => Cost(N, d, B) < K

LEMMA SearchEnds ==
    ASSUME NEW N, IsFiniteSet(N), NEW succ \in [N -> Seq(N)], NEW B \in Nat,
           \A x \in N : Len(succ[x]) < B,
           NEW s, NEW start, NEW f, AllSound(N, succ, B, s, start, f),
           NEW d, AreSearchSteps(succ, d, f), NEW K \in Nat, Affords(N, B, d, K)
    PROVE  Ended(f[K])
<1> DEFINE Final(n) == f[n].found \/ f[n].stack = <<>>
           C(n) == Cost(N, f[n], B)
           Bad == {n \in Nat : ~(Final(n) \/ (C(n) + n <= C(0) /\ ~d.found))}
<1>0. \A n \in Nat : SoundSearch(N, succ, B, s, start, f[n])
  BY DEF AllSound
<1>1. \A n \in Nat : ~f[n].found => C(n) \in Nat
  BY <1>0, CostIsNatural DEF SoundSearch
<1>2. f[0] = d /\ \A n \in Nat : f[n + 1] = SearchStep(succ, f[n])
  BY DEF AreSearchSteps
<1>3. Bad = {}
  <2> SUFFICES ASSUME Bad # {} PROVE FALSE
    OBVIOUS
  <2>1. PICK n \in Bad : \A m \in Bad : n <= m
    <3>1. Bad \in SUBSET Nat
      OBVIOUS
    <3> HIDE DEF Bad
    <3> QED
      BY <3>1, SmallestNat
  <2>2. n # 0
    <3>1. ~d.found => C(0) \in Nat
      BY <1>1, <1>2
    <3>2. ~d.found => C(0) + 0 <= C(0)
      <4> HIDE DEF C
      <4> QED
        BY <3>1
    <3> QED
      BY <1>2, <2>1, <3>2
  <2>3. n \in Nat /\ n - 1 \in Nat /\ n - 1 \notin Bad /\ (n - 1) + 1 = n
    BY <2>1, <2>2
  <2>4. f[n] = SearchStep(succ, f[n - 1])
    BY <1>2, <2>3
  <2>5. ~Final(n)
    BY <2>1
  <2>6. ~Final(n - 1)
    BY <2>4, <2>5 DEF SearchStep
  <2>7. C(n - 1) + (n - 1) <= C(0) /\ ~d.found
    BY <2>3, <2>6
  <2>8. C(n) < C(n - 1)
    BY <1>0, <2>3, <2>4, <2>5, <2>6, StepsCost DEF SoundSearch
  <2>9. C(n) \in Nat /\ C(n - 1) \in Nat /\ C(0) \in Nat
    BY <1>1, <1>2, <2>3, <2>5, <2>6, <2>7
  <2>10. C(n) + n <= C(0)
    <3> HIDE DEF C
    <3> QED
      BY <2>3, <2>7, <2>8, <2>9
  <2> QED
    BY <2>1, <2>7, <2>10
<1>4. ASSUME ~Final(K) PROVE FALSE
  <2>1. C(K) + K <= C(0) /\ ~d.found
    BY <1>3, <1>4
  <2>2. C(K) \in Nat /\ C(0) \in Nat /\ C(0) < K
    BY <1>1, <1>2, <1>4, <2>1 DEF Affords
  <2> HIDE DEF C
  <2> QED
    BY <2>1, <2>2
<1> QED
  BY <1>4 DEF Ended

(* Between two searches either a cycle was found or the stack is empty and  *)
(* nothing is grey.                                                         *)
Settled(N, succ) == {s \in SearchStates(N) : s.found \/ Idle(N, succ, s)}

(* A search from one start that finds no cycle makes it black, and leaves   *)
(* everything settled for the next.                                         *)
Keeps(N, succ, s, start, t) ==
    /\ t \in SearchStates(N) /\ (s.found => t.found)
    /\ ~t.found => /\ Idle(N, succ, t) /\ t.colour[start] = "black"
                   /\ \A n \in N : s.colour[n] = "black" => t.colour[n] = "black"

LEMMA SearchFromKeeps ==
    ASSUME NEW N, IsFiniteSet(N), NEW succ \in [N -> Seq(N)],
           NEW s \in SearchStates(N), s.found \/ Idle(N, succ, s), NEW start \in N
    PROVE  Keeps(N, succ, s, start, SearchFrom(succ, s, start))
<1>1. s \in SearchStates(N) /\ (s.found \/ Idle(N, succ, s))
  OBVIOUS
<1>2. PICK t : t = SearchFrom(succ, s, start)
  OBVIOUS
<1>3. s.colour \in [N -> {"white", "grey", "black"}]
  BY <1>1 DEF SearchStates
<1>4. CASE s.found \/ s.colour[start] # "white"
  <2>1. t = s
    BY <1>2, <1>4 DEF SearchFrom
  <2>2. ~s.found => s.colour[start] = "black"
    BY <1>1, <1>3, <1>4 DEF Idle
  <2> QED
    BY <1>1, <1>2, <2>1, <2>2 DEF Keeps
<1>5. CASE ~s.found /\ s.colour[start] = "white"
  <2>1. PICK B : B = Width(N, succ)
    OBVIOUS
  <2>2. B \in Nat /\ \A x \in N : Len(succ[x]) < B
    BY <2>1, SuccessorsBounded
  <2>3. PICK K \in Nat : K = Enough(N, B)
    <3>1. PICK c \in Nat : c = Cardinality(N)
      BY FS_CardinalityType
    <3>2. 2 * c * B \in Nat
      BY <2>2
    <3> QED
      BY <3>1, <3>2 DEF Enough
  <2>4. PICK f : AreSearchSteps(succ, Begun(s, succ, start), f) /\ t = f[K]
    <3>1. ~s.found /\ s.colour[start] = "white"
      BY <1>5
    <3>2. ReachedIn(succ, s, start, K)
      <4>1. K = Enough(N, Width(N, succ))
        BY <2>1, <2>3
      <4> QED
        BY <3>1, <4>1, SearchRuns
    <3> QED
      BY <1>2, <3>2 DEF ReachedIn
  <2>5. PICK d : d = Begun(s, succ, start)
    OBVIOUS
  <2>6. d \in SearchStates(N)
    BY <1>1, <2>5, BegunIsState
  <2>7. /\ Trailing(N, succ, d) /\ Closed(N, succ, d) /\ Short(d, B)
        /\ \A n \in N : s.colour[n] # "white" => d.colour[n] # "white"
        /\ d.colour[start] # "white"
        /\ Cost(N, d, B) < K
    <3>1. Idle(N, succ, s) /\ s.colour[start] = "white"
      BY <1>1, <1>5
    <3> QED
      BY <2>2, <2>3, <2>5, <3>1, BegunHolds
  <2>8. SoundSearch(N, succ, B, s, start, d)
    BY <2>6, <2>7 DEF SoundSearch
  <2>9. \A n \in Nat : SoundSearch(N, succ, B, s, start, f[n])
    <3> DEFINE T == {u \in SearchStates(N) : SoundSearch(N, succ, B, s, start, u)}
    <3>1. f[0] \in T
      BY <2>4, <2>5, <2>6, <2>8 DEF AreSearchSteps
    <3>2. \A n \in Nat : f[n] \in T => f[n + 1] \in T
      <4>1. ASSUME NEW u \in T PROVE SearchStep(succ, u) \in T
        <5>1. SoundSearch(N, succ, B, s, start, SearchStep(succ, u))
          BY <2>2, SoundSteps
        <5>2. SearchStep(succ, u) \in SearchStates(N)
          BY <5>1 DEF SoundSearch
        <5> QED
          BY <5>1, <5>2
      <4> QED
        BY <2>4, <4>1 DEF AreSearchSteps
    <3>3. \A n \in Nat : f[n] \in T
      <4> HIDE DEF T
      <4> QED
        BY <3>1, <3>2, StaysIn
    <3> QED
      BY <3>3
  <2>10. t.found \/ t.stack = <<>>
    <3>1. AreSearchSteps(succ, d, f) /\ Affords(N, B, d, K)
      BY <2>4, <2>5, <2>7 DEF Affords
    <3>2. AllSound(N, succ, B, s, start, f)
      BY <2>9 DEF AllSound
    <3>3. Ended(f[K])
      BY <2>2, <3>1, <3>2, SearchEnds
    <3> QED
      BY <2>4, <3>3 DEF Ended
  <2>11. SoundSearch(N, succ, B, s, start, t)
    BY <2>4, <2>9, <2>3
  <2>12. t \in SearchStates(N) /\ t.colour \in [N -> {"white", "grey", "black"}]
    BY <2>11 DEF SoundSearch, SearchStates
  <2>13. ASSUME ~t.found
         PROVE  /\ Idle(N, succ, t) /\ t.colour[start] = "black"
                /\ \A n \in N : s.colour[n] = "black" => t.colour[n] = "black"
    <3>1. t.stack = <<>> /\ Trailing(N, succ, t) /\ Closed(N, succ, t)
      BY <2>10, <2>11, <2>13 DEF SoundSearch
    <3>2. \A n \in N : s.colour[n] # "white" \/ n = start => t.colour[n] # "white"
      BY <2>11, <2>13 DEF SoundSearch
    <3>3. Height(t) = 0
      BY <3>1 DEF Height
    <3>4. \A n \in N : t.colour[n] # "grey"
      BY <3>1, <3>3 DEF Trailing
    <3> QED
      BY <2>12, <3>1, <3>2, <3>4 DEF Idle
  <2> QED
    BY <1>5, <1>2, <2>12, <2>13 DEF Keeps
<1> QED
  BY <1>4, <1>5

-----------------------------------------------------------------------------
(* The search from every start.                                             *)

AreSearches(succ, starts, f) ==
    /\ f[0] = NothingSearched(succ)
    /\ \A k \in 1..Len(starts) : f[k] = SearchFrom(succ, f[k - 1], starts[k])

LEMMA NothingIsSettled ==
    ASSUME NEW N, NEW succ \in [N -> Seq(N)]
    PROVE  NothingSearched(succ) \in Settled(N, succ)
<1> DEFINE s == NothingSearched(succ)
<1>1. /\ s.colour = [x \in N |-> "white"] /\ s.stack = <<>> /\ s.found = FALSE
      /\ s = [colour |-> s.colour, stack |-> s.stack, found |-> s.found]
  BY DEF NothingSearched
<1> HIDE DEF s
<1>2. <<>> \in Seq(SearchFrames(N)) /\ [x \in N |-> "white"] \in [N -> {"white", "grey", "black"}]
  OBVIOUS
<1>3. s \in SearchStates(N)
  BY <1>1, <1>2 DEF SearchStates
<1>4. \A n \in N : s.colour[n] = "white"
  BY <1>1
<1>5. {n \in N : s.colour[n] = "black"} = {}
  BY <1>4
<1>6. Closed(N, succ, s)
  BY <1>4, <1>5 DEF Closed
<1> QED
  BY <1>1, <1>3, <1>4, <1>6 DEF Settled, Idle, s

LEMMA SearchSettles ==
    ASSUME NEW N, IsFiniteSet(N), NEW succ \in [N -> Seq(N)],
           NEW s \in Settled(N, succ), NEW start \in N
    PROVE  SearchFrom(succ, s, start) \in Settled(N, succ)
<1>1. PICK t : t = SearchFrom(succ, s, start)
  OBVIOUS
<1>2. Keeps(N, succ, s, start, t)
  <2>1. s \in SearchStates(N) /\ (s.found \/ Idle(N, succ, s))
    BY DEF Settled
  <2> QED
    BY <1>1, <2>1, SearchFromKeeps
<1> QED
  BY <1>1, <1>2 DEF Keeps, Settled

LEMMA SearchesExist ==
    ASSUME NEW N, IsFiniteSet(N), NEW succ \in [N -> Seq(N)], NEW starts \in Seq(N)
    PROVE  \E f : AreSearches(succ, starts, f)
<1>1. Len(starts) \in Nat /\ \A k \in 1..Len(starts) : starts[k] \in N
  BY LenProperties
<1> DEFINE Next1(k, s) == IF k + 1 \in 1..Len(starts) THEN SearchFrom(succ, s, starts[k + 1]) ELSE s
<1>2. PICK D, G : /\ D = Nat \X Settled(N, succ)
                  /\ G = [p \in D |-> <<p[1] + 1, Next1(p[1], p[2])>>]
  OBVIOUS
<1>3. PICK d : d = <<0, NothingSearched(succ)>>
  OBVIOUS
<1>4. d \in D /\ G \in [D -> D]
  <2>1. \A k \in Nat, s \in Settled(N, succ) : Next1(k, s) \in Settled(N, succ)
    BY <1>1, SearchSettles
  <2>2. \A k \in Nat : k + 1 \in Nat
    OBVIOUS
  <2> HIDE DEF Next1
  <2> QED
    BY <1>2, <1>3, <2>1, <2>2, NothingIsSettled
<1>5. PICK g : Iterates(D, d, G, g)
  BY <1>4, IteratesExists
<1>6. g[0] = d /\ \A n \in Nat : g[n] \in D /\ g[n + 1] = <<g[n][1] + 1, Next1(g[n][1], g[n][2])>>
  <2> HIDE DEF Next1
  <2> QED
    BY <1>2, <1>5 DEF Iterates
<1>7. \A n \in Nat : g[n][1] = n
  <2> DEFINE Bad == {n \in Nat : g[n][1] # n}
  <2> HIDE DEF Next1
  <2> SUFFICES ASSUME Bad # {} PROVE FALSE
    OBVIOUS
  <2>1. PICK n \in Bad : \A m \in Bad : n <= m
    <3>1. Bad \in SUBSET Nat
      OBVIOUS
    <3> HIDE DEF Bad
    <3> QED
      BY <3>1, SmallestNat
  <2>2. n # 0
    <3>1. g[0][1] = 0
      BY <1>3, <1>6
    <3> QED
      BY <2>1, <3>1
  <2>3. n - 1 \in Nat /\ n - 1 \notin Bad /\ (n - 1) + 1 = n
    BY <2>1, <2>2
  <2>4. g[n - 1][1] = n - 1
    BY <2>3
  <2>5. g[n] = <<g[n - 1][1] + 1, Next1(g[n - 1][1], g[n - 1][2])>>
    BY <1>6, <2>3
  <2> QED
    BY <2>1, <2>3, <2>4, <2>5
<1>8. PICK f : f = [n \in Nat |-> g[n][2]]
  OBVIOUS
<1>9. f[0] = NothingSearched(succ)
  BY <1>3, <1>6, <1>8
<1>10. ASSUME NEW k \in 1..Len(starts) PROVE f[k] = SearchFrom(succ, f[k - 1], starts[k])
  <2>1. k - 1 \in Nat /\ (k - 1) + 1 = k /\ k \in Nat
    BY <1>1
  <2>2. g[k] = <<g[k - 1][1] + 1, Next1(g[k - 1][1], g[k - 1][2])>> /\ g[k - 1][1] = k - 1
    <3> HIDE DEF Next1
    <3> QED
      BY <1>6, <1>7, <2>1
  <2>3. f[k] = Next1(k - 1, f[k - 1])
    <3> HIDE DEF Next1
    <3> QED
      BY <1>8, <2>1, <2>2
  <2> QED
    BY <2>1, <2>3
<1> QED
  BY <1>9, <1>10 DEF AreSearches

(* The recursive function inside HasCycle is defined by its equation.       *)
LEMMA HasCycleSearches ==
    ASSUME NEW N, IsFiniteSet(N), NEW succ \in [N -> Seq(N)], NEW starts \in Seq(N)
    PROVE  \E f : AreSearches(succ, starts, f) /\ HasCycle(succ, starts) = f[Len(starts)].found
<1> DEFINE I == 0..Len(starts)
           after[k \in I] == IF k = 0 THEN NothingSearched(succ)
                             ELSE SearchFrom(succ, after[k - 1], starts[k])
<1>0. Len(starts) \in Nat
  BY LenProperties
<1>1. HasCycle(succ, starts) = after[Len(starts)].found
  BY DEF HasCycle
<1>2. \E g : g = [k \in I |-> IF k = 0 THEN NothingSearched(succ)
                              ELSE SearchFrom(succ, g[k - 1], starts[k])]
  <2> HIDE DEF after
  <2>1. PICK f : AreSearches(succ, starts, f)
    BY SearchesExist
  <2>2. PICK g : g = [k \in I |-> f[k]]
    OBVIOUS
  <2>3. g[0] = NothingSearched(succ) /\ 0 \in I
    BY <1>0, <2>1, <2>2 DEF AreSearches
  <2>4. ASSUME NEW k \in I, k # 0 PROVE g[k] = SearchFrom(succ, g[k - 1], starts[k])
    <3>1. k \in 1..Len(starts) /\ k - 1 \in I
      BY <1>0, <2>4
    <3>2. g[k] = f[k] /\ g[k - 1] = f[k - 1]
      BY <2>2, <3>1
    <3> QED
      BY <2>1, <3>1, <3>2 DEF AreSearches
  <2>5. g = [k \in I |-> IF k = 0 THEN NothingSearched(succ)
                         ELSE SearchFrom(succ, g[k - 1], starts[k])]
    <3> HIDE DEF I
    <3> QED
      BY <2>2, <2>3, <2>4
  <2> QED
    BY <2>5
<1>3. after = [k \in I |-> IF k = 0 THEN NothingSearched(succ)
                           ELSE SearchFrom(succ, after[k - 1], starts[k])]
  BY <1>2
<1> HIDE DEF after
<1>4. AreSearches(succ, starts, after)
  <2>1. 0 \in I /\ \A k \in 1..Len(starts) : k \in I /\ k # 0
    BY <1>0
  <2> QED
    BY <1>3, <2>1 DEF AreSearches
<1> QED
  BY <1>1, <1>4

(* After the k-th start, what was searched is black.                        *)
Searched(N, succ, starts, k, s) ==
    /\ s \in Settled(N, succ)
    /\ ~s.found => \A j \in 1..k : s.colour[starts[j]] = "black"

LEMMA SearchedNext ==
    ASSUME NEW N, IsFiniteSet(N), NEW succ \in [N -> Seq(N)], NEW starts \in Seq(N),
           NEW k \in 1..Len(starts), NEW s, Searched(N, succ, starts, k - 1, s)
    PROVE  Searched(N, succ, starts, k, SearchFrom(succ, s, starts[k]))
<1>1. Len(starts) \in Nat /\ \A j \in 1..Len(starts) : starts[j] \in N
  BY LenProperties
<1>2. s \in SearchStates(N) /\ (s.found \/ Idle(N, succ, s))
  BY DEF Searched, Settled
<1>3. PICK start \in N : start = starts[k]
  BY <1>1
<1>4. PICK t : t = SearchFrom(succ, s, start)
  OBVIOUS
<1>5. Keeps(N, succ, s, start, t)
  BY <1>2, <1>4, SearchFromKeeps
<1>6. t \in Settled(N, succ)
  BY <1>5 DEF Keeps, Settled
<1>7. ASSUME ~t.found, NEW j \in 1..k PROVE t.colour[starts[j]] = "black"
  <2>1. ~s.found /\ t.colour[start] = "black"
    BY <1>5, <1>7 DEF Keeps
  <2>2. CASE j = k
    BY <1>3, <2>1, <2>2
  <2>3. CASE j # k
    <3>1. j \in 1..(k - 1) /\ starts[j] \in N
      BY <1>1, <2>3
    <3>2. s.colour[starts[j]] = "black"
      BY <2>1, <3>1 DEF Searched
    <3> QED
      BY <1>5, <1>7, <3>1, <3>2 DEF Keeps
  <2> QED
    BY <2>2, <2>3
<1> QED
  BY <1>3, <1>4, <1>6, <1>7 DEF Searched

(* When no cycle is found, every set of starts has one that nothing in the  *)
(* set leads to.                                                            *)
AllStarts(X, starts) == \A x \in X : \E k \in 1..Len(starts) : x = starts[k]

HasSource(succ, X) == \E x \in X : \A y \in X : ~Follows(succ, y, x)

LEMMA NoCycleFound ==
    ASSUME NEW N, IsFiniteSet(N), NEW succ \in [N -> Seq(N)], NEW starts \in Seq(N),
           ~HasCycle(succ, starts), NEW X, X # {}, AllStarts(X, starts)
    PROVE  HasSource(succ, X)
<1>1. PICK f : AreSearches(succ, starts, f) /\ ~f[Len(starts)].found
  BY HasCycleSearches
<1>2. PICK l \in Nat : l = Len(starts)
  BY LenProperties
<1> DEFINE Bad == {k \in 0..l : ~Searched(N, succ, starts, k, f[k])}
<1>3. Bad = {}
  <2> SUFFICES ASSUME Bad # {} PROVE FALSE
    OBVIOUS
  <2>1. PICK k \in Bad : \A m \in Bad : k <= m
    <3>1. Bad \in SUBSET Nat
      OBVIOUS
    <3> HIDE DEF Bad
    <3> QED
      BY <3>1, SmallestNat
  <2>2. k # 0
    <3>1. PICK s : s = NothingSearched(succ)
      OBVIOUS
    <3>2. s \in Settled(N, succ)
      BY <3>1, NothingIsSettled
    <3>3. Searched(N, succ, starts, 0, s)
      BY <3>2 DEF Searched
    <3>4. f[0] = s
      BY <1>1, <3>1 DEF AreSearches
    <3> QED
      BY <2>1, <3>3, <3>4
  <2>3. k \in 1..l /\ k - 1 \in 0..l /\ ~(k <= k - 1)
    BY <2>1, <2>2
  <2>4. Searched(N, succ, starts, k - 1, f[k - 1])
    BY <2>1, <2>3
  <2>5. f[k] = SearchFrom(succ, f[k - 1], starts[k])
    BY <1>1, <1>2, <2>3 DEF AreSearches
  <2>6. Searched(N, succ, starts, k, f[k])
    BY <1>2, <2>3, <2>4, <2>5, SearchedNext
  <2> QED
    BY <2>1, <2>6
<1>4. PICK t : t = f[l]
  OBVIOUS
<1>5. l \in 0..l
  BY <1>2
<1>6. Searched(N, succ, starts, l, t)
  BY <1>3, <1>4, <1>5
<1>7. Closed(N, succ, t) /\ \A j \in 1..l : t.colour[starts[j]] = "black"
  BY <1>1, <1>2, <1>4, <1>6 DEF Searched, Settled, Idle
<1>8. X \in SUBSET {n \in N : t.colour[n] = "black"}
  <2>1. \A k \in 1..l : starts[k] \in N
    BY <1>2, LenProperties
  <2> QED
    BY <1>2, <1>7, <2>1 DEF AllStarts
<1> QED
  BY <1>7, <1>8 DEF Closed, HasSource

-----------------------------------------------------------------------------
(* What the search means for the edges a harness reads.                     *)

LEMMA NthUnique ==
    ASSUME NEW n \in Nat, NEW S \in SUBSET (1..n), NEW i \in S, NEW j \in S,
           Rank(S, i) = Rank(S, j)
    PROVE  i = j
<1> DEFINE U(k) == {m \in S : m <= k}
<1>1. IsFiniteSet(S)
  <2>1. IsFiniteSet(1..n)
    BY FS_Interval
  <2> QED
    BY <2>1, FS_Subset
<1>2. \A k : IsFiniteSet(U(k))
  <2>1. \A k : U(k) \subseteq S
    OBVIOUS
  <2> HIDE DEF U
  <2> QED
    BY <1>1, <2>1, FS_Subset
<1>3. ASSUME NEW a \in S, NEW b \in S, a < b, Cardinality(U(a)) = Cardinality(U(b)) PROVE FALSE
  <2>1. a \in Nat /\ b \in Nat /\ \A m \in S : m \in Nat
    OBVIOUS
  <2>2. U(a) \subseteq U(b) /\ b \in U(b) /\ b \notin U(a)
    <3>1. b <= b /\ ~(b <= a) /\ \A m \in Nat : m <= a => m <= b
      BY <1>3, <2>1
    <3> QED
      BY <2>1, <3>1
  <2> HIDE DEF U
  <2>3. U(a) = U(b)
    BY <1>2, <1>3, <2>2, FS_Subset
  <2> QED
    BY <2>2, <2>3
<1>4. i \in Nat /\ j \in Nat /\ Cardinality(U(i)) = Cardinality(U(j))
  BY DEF Rank
<1>5. i = j \/ i < j \/ j < i
  BY <1>4
<1> HIDE DEF U
<1> QED
  BY <1>3, <1>4, <1>5

(* The adjacency lists hold what the edges lead to.                         *)
LEMMA SuccessorsAre ==
    ASSUME NEW N, NEW pairs, Len(pairs) \in Nat, \A i \in 1..Len(pairs) : pairs[i][2] \in N
    PROVE  /\ Successors(N, pairs) \in [N -> Seq(N)]
           /\ \A i \in 1..Len(pairs) : pairs[i][1] \in N =>
                 Follows(Successors(N, pairs), pairs[i][1], pairs[i][2])
           /\ \A x \in N : \A y : Follows(Successors(N, pairs), x, y) =>
                 \E i \in 1..Len(pairs) : pairs[i][1] = x /\ pairs[i][2] = y
<1> DEFINE n == Len(pairs)
           From(x) == {i \in 1..n : pairs[i][1] = x}
           F == [x \in N |-> [k \in 1..Cardinality(From(x)) |-> pairs[Nth(From(x), k)][2]]]
<1>1. Successors(N, pairs) = F
  BY DEF Successors
<1>2. ASSUME NEW x
      PROVE  /\ From(x) \in SUBSET (1..n) /\ IsFiniteSet(From(x))
             /\ Cardinality(From(x)) \in Nat
  <2>1. IsFiniteSet(1..n) /\ From(x) \subseteq 1..n
    BY FS_Interval
  <2> HIDE DEF From
  <2> QED
    BY <2>1, FS_Subset, FS_CardinalityType
<1>3. ASSUME NEW x \in N
      PROVE  /\ F[x] \in Seq(N) /\ Len(F[x]) = Cardinality(From(x))
             /\ \A k \in 1..Cardinality(From(x)) : F[x][k] = pairs[Nth(From(x), k)][2]
  <2>1. PICK c \in Nat : c = Cardinality(From(x))
    BY <1>2
  <2>2. ASSUME NEW k \in 1..c PROVE Nth(From(x), k) \in 1..n
    <3>1. From(x) \in SUBSET (1..n)
      OBVIOUS
    <3> HIDE DEF From
    <3>2. Nth(From(x), k) \in From(x)
      BY <2>1, <3>1, NthExists
    <3> QED
      BY <3>1, <3>2
  <2> HIDE DEF From
  <2>3. F[x] = [k \in 1..c |-> pairs[Nth(From(x), k)][2]]
    BY <2>1
  <2>4. F[x] \in [1..c -> N]
    BY <2>2, <2>3
  <2>5. F[x] \in Seq(N) /\ Len(F[x]) = c
    <3> HIDE DEF F
    <3> QED
      BY <2>4, IsSequence
  <2> QED
    BY <2>1, <2>3, <2>5
<1>4. F \in [N -> Seq(N)]
  BY <1>3
<1>5. ASSUME NEW i \in 1..n, pairs[i][1] \in N PROVE Follows(F, pairs[i][1], pairs[i][2])
  <2>1. PICK x \in N : x = pairs[i][1]
    BY <1>5
  <2>2. PICK S : S = From(x)
    OBVIOUS
  <2>3. S \in SUBSET (1..n) /\ IsFiniteSet(S) /\ Cardinality(S) \in Nat /\ i \in S
    BY <1>2, <2>1, <2>2
  <2>4. PICK k : k = Rank(S, i)
    OBVIOUS
  <2>5. k \in 1..Cardinality(S)
    <3>1. {j \in S : j <= i} \subseteq S /\ i \in {j \in S : j <= i}
      BY <2>3
    <3>2. IsFiniteSet({j \in S : j <= i}) /\ k \in Nat /\ k <= Cardinality(S)
      BY <2>3, <2>4, <3>1, FS_Subset, FS_CardinalityType DEF Rank
    <3>3. k # 0
      BY <2>4, <3>1, <3>2, FS_EmptySet DEF Rank
    <3> QED
      BY <2>3, <3>2, <3>3
  <2>6. Nth(S, k) \in S /\ Rank(S, Nth(S, k)) = k
    BY <2>3, <2>5, NthExists
  <2>7. Nth(S, k) = i
    <3>1. PICK j : j = Nth(S, k)
      OBVIOUS
    <3>2. n \in Nat /\ j \in S /\ Rank(S, j) = Rank(S, i)
      BY <2>4, <2>6, <3>1
    <3>3. j = i
      BY <2>3, <3>2, NthUnique
    <3> QED
      BY <3>1, <3>3
  <2>8. F[x][k] = pairs[i][2] /\ k \in 1..Len(F[x])
    <3> HIDE DEF F, From
    <3> QED
      BY <1>3, <2>2, <2>5, <2>7
  <2> HIDE DEF F
  <2> QED
    BY <2>1, <2>8 DEF Follows
<1>6. ASSUME NEW x \in N, NEW y, Follows(F, x, y)
      PROVE  \E i \in 1..n : pairs[i][1] = x /\ pairs[i][2] = y
  <2>1. PICK S : S = From(x)
    OBVIOUS
  <2>2. S \in SUBSET (1..n) /\ IsFiniteSet(S) /\ Cardinality(S) \in Nat
    BY <1>2, <2>1
  <2>3. PICK k \in 1..Cardinality(S) : y = pairs[Nth(S, k)][2]
    <3> HIDE DEF F, From
    <3> QED
      BY <1>3, <1>6, <2>1 DEF Follows
  <2>4. Nth(S, k) \in S
    BY <2>2, <2>3, NthExists
  <2> QED
    BY <2>1, <2>3, <2>4
<1> HIDE DEF F
<1> QED
  BY <1>1, <1>4, <1>5, <1>6

(* An edge that closes a cycle lies in a set of nodes each of which has an  *)
(* edge from and an edge into the set.                                      *)
LEMMA CycleHasNoSource ==
    ASSUME NEW S, IsFiniteSet(S), NEW R, \A x, y : <<x, y>> \in R => y \in S,
           NEW a, NEW b, <<a, b>> \in R, a \in Closure(S, R, b)
    PROVE  \E X : /\ X # {} /\ \A x \in X : \E y \in X : <<y, x>> \in R
                  /\ \A x \in X : \E y : <<x, y>> \in R
                  /\ X \subseteq Closure(S, R, b)
<1>1. PICK X : X = {z \in Closure(S, R, b) : a \in Closure(S, R, z)}
  OBVIOUS
<1>2. \A z : z \in Closure(S, R, z)
  BY ClosureProperties
<1>3. a \in X
  BY <1>1, <1>2
<1>4. ASSUME NEW z \in X PROVE \E y : <<z, y>> \in R
  <2>1. CASE z = a
    BY <2>1
  <2>2. CASE z # a
    <3> SUFFICES ASSUME \A y : <<z, y>> \notin R PROVE FALSE
      OBVIOUS
    <3>1. PICK T : T = {z}
      OBVIOUS
    <3>2. z \in T /\ \A y \in T, w \in S : <<y, w>> \in R => w \in T
      BY <3>1
    <3>3. \A U : z \in U /\ (\A y \in U, w \in S : <<y, w>> \in R => w \in U)
                    => Closure(S, R, z) \subseteq U
      BY ClosureProperties
    <3>4. Closure(S, R, z) \subseteq T
      BY <3>2, <3>3
    <3> QED
      BY <1>1, <2>2, <3>1, <3>4
  <2> QED
    BY <2>1, <2>2
<1>5. ASSUME NEW x \in X PROVE \E y \in X : <<y, x>> \in R
  <2>1. CASE x = b
    BY <1>3, <2>1
  <2>2. CASE x # b
    <3>1. x \in Closure(S, R, b)
      BY <1>1
    <3>2. PICK y \in Closure(S, R, b) : <<y, x>> \in R
      BY <2>2, <3>1, ClosureLastEdge
    <3>3. x \in Closure(S, R, y)
      BY <1>2, <3>2, ClosureProperties
    <3>4. Closure(S, R, x) \subseteq Closure(S, R, y)
      BY <3>3, ClosureTransitive
    <3> QED
      BY <1>1, <3>2, <3>4
  <2> QED
    BY <2>1, <2>2
<1>6. X \subseteq Closure(S, R, b)
  BY <1>1
<1> QED
  BY <1>3, <1>4, <1>5, <1>6

Along(succ, R) == \A x, y : <<x, y>> \in R => Follows(succ, x, y)

FromStarts(starts, R) == \A x, y : <<x, y>> \in R => \E k \in 1..Len(starts) : x = starts[k]

IntoThese(S, R) == \A x, y : <<x, y>> \in R => y \in S

(* Edges that the search follows, and starts from, close no cycle when it   *)
(* finds none.                                                              *)
LEMMA NoEdgeCloses ==
    ASSUME NEW N, IsFiniteSet(N), NEW succ \in [N -> Seq(N)], NEW starts \in Seq(N),
           ~HasCycle(succ, starts),
           NEW S, IsFiniteSet(S), NEW R, IntoThese(S, R), Along(succ, R), FromStarts(starts, R),
           NEW a, NEW b, <<a, b>> \in R
    PROVE  a \notin Closure(S, R, b)
<1> SUFFICES ASSUME a \in Closure(S, R, b) PROVE FALSE
  OBVIOUS
<1>1. PICK X : /\ X # {} /\ \A x \in X : \E y \in X : <<y, x>> \in R
               /\ \A x \in X : \E y : <<x, y>> \in R
  <2>1. \A x, y : <<x, y>> \in R => y \in S
    BY DEF IntoThese
  <2>2. \E X : /\ X # {} /\ \A x \in X : \E y \in X : <<y, x>> \in R
               /\ \A x \in X : \E y : <<x, y>> \in R
               /\ X \subseteq Closure(S, R, b)
    BY <2>1, CycleHasNoSource
  <2> QED
    BY <2>2
<1>2. AllStarts(X, starts)
  BY <1>1 DEF AllStarts, FromStarts
<1>3. HasSource(succ, X)
  BY <1>1, <1>2, NoCycleFound
<1>4. PICK x \in X : \A y \in X : ~Follows(succ, y, x)
  BY <1>3 DEF HasSource
<1> QED
  BY <1>1, <1>4 DEF Along

(* Claims among which no cycle is found lead from nowhere back to itself.   *)
LEMMA PassedIsAcyclic ==
    ASSUME NEW claims, IsSeq(claims), ~CyclicHierarchy(EdgeNodes(claims), claims),
           NEW R, R = {<<claims[i].from, claims[i].to>> : i \in 1..Len(claims)},
           NEW a, NEW b, <<a, b>> \in R
    PROVE  a \notin LeadsTo(R, b)
<1>1. PICK n \in Nat : n = Len(claims) /\ DOMAIN claims = 1..n
  BY DEF IsSeq
<1>2. PICK S : S = {r[2] : r \in R}
  OBVIOUS
<1>3. PICK N : N = EdgeNodes(claims)
  OBVIOUS
<1>4. \A i \in 1..n : claims[i].from \in N /\ claims[i].to \in N
  BY <1>1, <1>3 DEF EdgeNodes, Range
<1>5. IsFiniteSet(N) /\ IsFiniteSet(S)
  <2>1. PICK A, B : A = {claims[i].from : i \in 1..n} /\ B = {claims[i].to : i \in 1..n}
    OBVIOUS
  <2>2. N = A \cup B
    BY <1>1, <1>3, <2>1 DEF EdgeNodes, Range
  <2>3. [i \in 1..n |-> claims[i].from] \in Surjection(1..n, A)
    BY <2>1 DEF Surjection
  <2>4. [i \in 1..n |-> claims[i].to] \in Surjection(1..n, B)
    BY <2>1 DEF Surjection
  <2>5. IsFiniteSet(1..n)
    BY FS_Interval
  <2>6. IsFiniteSet(A) /\ IsFiniteSet(B)
    BY <2>3, <2>4, <2>5, FS_Surjection
  <2>7. S \subseteq B
    BY <1>1, <1>2, <2>1
  <2>8. IsFiniteSet(S)
    BY <2>6, <2>7, FS_Subset
  <2> QED
    BY <2>2, <2>6, <2>8, FS_Union
<1>6. PICK pairs : /\ pairs = Pairs(claims) /\ Len(pairs) = n
                   /\ \A i \in 1..n : pairs[i] = <<claims[i].from, claims[i].to>>
  <2>1. PICK p, T : /\ p = [i \in 1..n |-> <<claims[i].from, claims[i].to>>]
                    /\ T = {<<claims[i].from, claims[i].to>> : i \in 1..n}
    OBVIOUS
  <2>2. p \in [1..n -> T]
    BY <2>1
  <2>3. Len(p) = n
    BY <2>2, IsSequence
  <2>4. Pairs(claims) = p
    BY <1>1, <2>1 DEF Pairs
  <2> QED
    BY <2>1, <2>3, <2>4
<1>7. PICK starts : /\ starts = [i \in 1..n |-> claims[i].from]
                    /\ starts \in Seq(N) /\ Len(starts) = n
  <2>1. PICK st : st = [i \in 1..n |-> claims[i].from]
    OBVIOUS
  <2>2. st \in [1..n -> N]
    BY <1>4, <2>1
  <2>3. st \in Seq(N) /\ Len(st) = n
    BY <2>2, IsSequence
  <2> QED
    BY <2>1, <2>3
<1>8. PICK succ : succ = Successors(N, pairs)
  OBVIOUS
<1>9. /\ succ \in [N -> Seq(N)]
      /\ \A i \in 1..n : Follows(succ, claims[i].from, claims[i].to)
  <2>1. \A i \in 1..n : pairs[i][1] = claims[i].from /\ pairs[i][2] = claims[i].to
    BY <1>6
  <2>2. Len(pairs) \in Nat /\ \A i \in 1..Len(pairs) : pairs[i][2] \in N
    BY <1>4, <1>6, <2>1
  <2>3. /\ succ \in [N -> Seq(N)]
        /\ \A i \in 1..Len(pairs) : pairs[i][1] \in N => Follows(succ, pairs[i][1], pairs[i][2])
    BY <1>8, <2>2, SuccessorsAre
  <2> QED
    BY <1>4, <1>6, <2>1, <2>3
<1>10. ~HasCycle(succ, starts)
  BY <1>1, <1>3, <1>6, <1>7, <1>8 DEF CyclicHierarchy
<1>11. IntoThese(S, R)
  <2>1. \A x, y : <<x, y>>[2] = y
    OBVIOUS
  <2> QED
    BY <1>2, <2>1 DEF IntoThese
<1>12. LeadsTo(R, b) = Closure(S, R, b)
  <2>1. {r[2] : r \in R} = S
    BY <1>2
  <2> QED
    BY <2>1 DEF LeadsTo
<1>13. Along(succ, R)
  <2>1. ASSUME NEW x, NEW y, <<x, y>> \in R PROVE Follows(succ, x, y)
    <3>1. PICK i \in 1..n : <<x, y>> = <<claims[i].from, claims[i].to>>
      BY <1>1, <2>1
    <3>2. Follows(succ, claims[i].from, claims[i].to)
      BY <1>9
    <3> QED
      BY <3>1, <3>2
  <2> QED
    BY <2>1 DEF Along
<1>14. FromStarts(starts, R)
  <2>1. ASSUME NEW x, NEW y, <<x, y>> \in R PROVE \E k \in 1..Len(starts) : x = starts[k]
    <3>1. PICK i \in 1..n : <<x, y>> = <<claims[i].from, claims[i].to>>
      BY <1>1, <2>1
    <3>2. starts[i] = claims[i].from /\ i \in 1..Len(starts)
      BY <1>7
    <3> QED
      BY <3>1, <3>2
  <2> QED
    BY <2>1 DEF FromStarts
<1>15. a \notin Closure(S, R, b)
  BY <1>5, <1>7, <1>9, <1>10, <1>11, <1>13, <1>14, NoEdgeCloses
<1> QED
  BY <1>12, <1>15

(* The edges that claims become link what the claims link.                  *)
LEMMA LinksOfClaims ==
    ASSUME NEW claims, IsSeq(claims), NEW dimension
    PROVE  Links(ClaimEdges(claims, dimension))
               = {<<claims[i].from, claims[i].to>> : i \in 1..Len(claims)}
<1>1. PICK n \in Nat : n = Len(claims)
  BY DEF IsSeq
<1>2. PICK edges : edges = [i \in 1..n |-> Edge(claims[i].from, "claim", claims[i].to, dimension,
                                                100 - claims[i].confidence)]
  OBVIOUS
<1>3. ClaimEdges(claims, dimension) = edges
  BY <1>1, <1>2 DEF ClaimEdges
<1>4. Len(edges) = n
  <2>1. PICK T : T = {edges[i] : i \in 1..n}
    OBVIOUS
  <2>2. edges \in [1..n -> T]
    BY <1>2, <2>1
  <2> QED
    BY <2>2, IsSequence
<1>5. \A i \in 1..n : edges[i].subject = claims[i].from /\ edges[i].object = claims[i].to
  BY <1>2 DEF Edge
<1>6. {<<edges[i].subject, edges[i].object>> : i \in 1..n}
          = {<<claims[i].from, claims[i].to>> : i \in 1..n}
  BY <1>5
<1> QED
  BY <1>1, <1>3, <1>4, <1>6 DEF Links

(* A graph lets claims through as links without a cycle, or no link.        *)
NoLinkCloses(R) == \A e \in R : e[1] \notin LeadsTo(R, e[2])

LEMMA ClaimsCloseNothing ==
    ASSUME NEW claims, IsSeq(claims), ~CyclicHierarchy(EdgeNodes(claims), claims), NEW dimension
    PROVE  NoLinkCloses(Links(ClaimEdges(claims, dimension)))
<1>1. PICK R : R = {<<claims[i].from, claims[i].to>> : i \in 1..Len(claims)}
  OBVIOUS
<1>2. Links(ClaimEdges(claims, dimension)) = R
  BY <1>1, LinksOfClaims
<1>3. ASSUME NEW e \in R PROVE e[1] \notin LeadsTo(R, e[2])
  <2>1. PICK a, b : e = <<a, b>>
    BY <1>1
  <2>2. a \notin LeadsTo(R, b)
    BY <1>1, <1>3, <2>1, PassedIsAcyclic
  <2> QED
    BY <2>1, <2>2
<1> QED
  BY <1>2, <1>3 DEF NoLinkCloses

LEMMA NoneCloseNothing == NoLinkCloses(Links(<<>>)) /\ IsSeq(<<>>)
<1>1. Len(<<>>) = 0 /\ 1..0 = {} /\ DOMAIN <<>> = 1..0
  OBVIOUS
<1>2. Links(<<>>) = {}
  BY <1>1 DEF Links
<1> QED
  BY <1>1, <1>2 DEF NoLinkCloses, IsSeq

LEMMA StructureIsAcyclic ==
    ASSUME NEW p, IsSeq(p.edges)
    PROVE  NoLinkCloses(Links(ConstructStructure(p).edges))
<1> DEFINE ok == [g \in Range(StructuralGates) |-> StructuralOk(p, g)]
           rejecting == {"decode", "grounding", "wellformed"}
           outcome == Outcome(StructuralGates, rejecting, ok)
<1>1. ConstructStructure(p).edges
          = IF outcome = "accepted" THEN ClaimEdges(p.edges, "structural") ELSE <<>>
  BY DEF ConstructStructure
<1>2. CASE outcome = "accepted"
  <2>1. Len(StructuralGates) = 7 /\ Len(StructuralGates) \in Nat
        /\ DOMAIN StructuralGates = 1..7 /\ StructuralGates[4] = "acyclicity"
    BY DEF StructuralGates
  <2>2. \A k \in 1..Len(StructuralGates) : ok[StructuralGates[k]]
    <3> HIDE DEF ok, rejecting
    <3> QED
      BY <1>2, <2>1, AcceptedPasses
  <2>3. "acyclicity" \in Range(StructuralGates)
    BY <2>1 DEF Range
  <2>4. StructuralOk(p, "acyclicity")
    BY <2>1, <2>2, <2>3
  <2>5. ~CyclicHierarchy(EdgeNodes(p.edges), p.edges)
    BY <2>4 DEF StructuralOk
  <2>6. NoLinkCloses(Links(ClaimEdges(p.edges, "structural")))
    BY <2>5, ClaimsCloseNothing
  <2> QED
    BY <1>1, <1>2, <2>6
<1> HIDE DEF outcome
<1>3. CASE outcome # "accepted"
  BY <1>1, <1>3, NoneCloseNothing
<1> QED
  BY <1>2, <1>3

LEMMA TemporalIsAcyclic ==
    ASSUME NEW p, IsSeq(p.orderings)
    PROVE  NoLinkCloses(Links(ConstructTemporal(p).edges))
<1> DEFINE ok == [g \in Range(TemporalGates) |-> TemporalOk(p, g)]
           rejecting == {"decode", "wellformed", "grounding"}
           outcome == Outcome(TemporalGates, rejecting, ok)
<1>1. ConstructTemporal(p).edges
          = ClaimEdges(IF outcome = "accepted" THEN p.orderings ELSE <<>>, "temporal")
  BY DEF ConstructTemporal
<1>2. CASE outcome = "accepted"
  <2>1. Len(TemporalGates) = 7 /\ Len(TemporalGates) \in Nat
        /\ DOMAIN TemporalGates = 1..7 /\ TemporalGates[4] = "acyclicity"
    BY DEF TemporalGates
  <2>2. \A k \in 1..Len(TemporalGates) : ok[TemporalGates[k]]
    <3> HIDE DEF ok, rejecting
    <3> QED
      BY <1>2, <2>1, AcceptedPasses
  <2>3. "acyclicity" \in Range(TemporalGates)
    BY <2>1 DEF Range
  <2>4. TemporalOk(p, "acyclicity")
    BY <2>1, <2>2, <2>3
  <2>5. ~CyclicHierarchy(EdgeNodes(p.orderings), p.orderings)
    BY <2>4 DEF TemporalOk
  <2>6. NoLinkCloses(Links(ClaimEdges(p.orderings, "temporal")))
    BY <2>5, ClaimsCloseNothing
  <2> QED
    BY <1>1, <1>2, <2>6
<1> HIDE DEF outcome
<1>3. CASE outcome # "accepted"
  <2>1. Links(ClaimEdges(<<>>, "temporal")) = {}
    <3>1. IsSeq(<<>>) /\ Len(<<>>) = 0 /\ 1..0 = {}
      BY NoneCloseNothing
    <3>2. Links(ClaimEdges(<<>>, "temporal"))
              = {<<(<<>>)[i].from, (<<>>)[i].to>> : i \in 1..Len(<<>>)}
      BY <3>1, LinksOfClaims
    <3> QED
      BY <3>1, <3>2
  <2>2. ConstructTemporal(p).edges = ClaimEdges(<<>>, "temporal")
    BY <1>1, <1>3
  <2> QED
    BY <2>1, <2>2 DEF NoLinkCloses
<1> QED
  BY <1>2, <1>3

(* A taxonomy or an ordering that is extracted has no cycle, wherever the   *)
(* search for one starts: _find_cycle in structural_construction.py and in  *)
(* temporal_construction.py, for every proposal and every graph.            *)
THEOREM AlwaysOrderedIsAcyclic == Spec => []OrderedIsAcyclic
<1>1. IInv => OrderedIsAcyclic
  <2> SUFFICES ASSUME Origin, built # NoResult, proposal.harness \in {"structural", "temporal"}
               PROVE  NoLinkCloses(Links(built.edges))
    BY DEF OrderedIsAcyclic, NoLinkCloses, IInv
  <2>1. PICK harness \in DOMAIN Proposals : proposal \in Proposals[harness]
    BY DEF Origin
  <2>2. built = Result(proposal)
    BY DEF Origin
  <2>3. /\ proposal.harness = "structural" => IsSeq(proposal.content.edges)
        /\ proposal.harness = "temporal" => IsSeq(proposal.content.orderings)
    BY <2>1, ProposalsAssumption
  <2>4. CASE proposal.harness = "structural"
    <3>1. built = ConstructStructure(proposal.content)
      BY <2>2, <2>4 DEF Result
    <3> QED
      BY <2>3, <2>4, <3>1, StructureIsAcyclic
  <2>5. CASE proposal.harness = "temporal"
    <3>1. built = ConstructTemporal(proposal.content)
      BY <2>2, <2>5 DEF Result
    <3> QED
      BY <2>3, <2>5, <3>1, TemporalIsAcyclic
  <2> QED
    BY <2>4, <2>5
<1> QED
  BY <1>1, AlwaysIInv, PTL

-----------------------------------------------------------------------------
(* What an answer about causes or kinds rests on.                           *)

(* The part of a sequence at some of its positions.                         *)
LEMMA PartIs ==
    ASSUME NEW s, Len(s) \in Nat, NEW S \in SUBSET (1..Len(s))
    PROVE  /\ IsSeq(PartAt(s, S)) /\ Len(PartAt(s, S)) \in Nat
           /\ \A k \in 1..Len(PartAt(s, S)) : \E i \in S : PartAt(s, S)[k] = s[i]
           /\ \A i \in S : \E k \in 1..Len(PartAt(s, S)) : PartAt(s, S)[k] = s[i]
<1>1. PICK n, c \in Nat : n = Len(s) /\ IsFiniteSet(S) /\ c = Cardinality(S)
  <2>1. IsFiniteSet(1..Len(s))
    BY FS_Interval
  <2> QED
    BY <2>1, FS_Subset, FS_CardinalityType
<1>2. ASSUME NEW k \in 1..c PROVE Nth(S, k) \in S /\ Rank(S, Nth(S, k)) = k
  BY <1>1, NthExists
<1>3. PICK p : p = [k \in 1..c |-> s[Nth(S, k)]]
  OBVIOUS
<1>4. p = PartAt(s, S)
  BY <1>1, <1>3 DEF PartAt
<1>5. PICK T : T = {p[k] : k \in 1..c}
  OBVIOUS
<1>6. p \in Seq(T) /\ Len(p) = c /\ DOMAIN p = 1..c
  BY <1>3, <1>5, IsSequence
<1>7. IsSeq(p)
  BY <1>5, <1>6 DEF IsSeq
<1>8. ASSUME NEW k \in 1..c PROVE \E i \in S : p[k] = s[i]
  BY <1>2, <1>3
<1>9. ASSUME NEW i \in S PROVE \E k \in 1..c : p[k] = s[i]
  <2>1. PICK k : k = Rank(S, i)
    OBVIOUS
  <2>2. k \in 1..c
    <3>1. PICK U : U = {j \in S : j <= i}
      OBVIOUS
    <3>2. U \subseteq S /\ i \in U /\ k = Cardinality(U)
      BY <1>1, <2>1, <3>1 DEF Rank
    <3>3. IsFiniteSet(U) /\ k \in Nat /\ k <= c
      BY <1>1, <3>2, FS_Subset, FS_CardinalityType
    <3>4. k # 0
      BY <3>2, <3>3, FS_EmptySet
    <3> QED
      BY <3>3, <3>4
  <2>3. PICK j \in S : j = Nth(S, k) /\ Rank(S, j) = Rank(S, i)
    BY <1>2, <2>1, <2>2
  <2>4. j = i
    BY <1>1, <2>3, NthUnique
  <2> QED
    BY <1>3, <2>2, <2>3, <2>4
<1> QED
  BY <1>4, <1>6, <1>7, <1>8, <1>9

(* Its elements.                                                            *)
LEMMA RangeOfPart ==
    ASSUME NEW s, Len(s) \in Nat, NEW S \in SUBSET (1..Len(s))
    PROVE  Range(PartAt(s, S)) = {s[i] : i \in S}
<1>1. PICK p : p = PartAt(s, S)
  OBVIOUS
<1>2. /\ DOMAIN p = 1..Len(p)
      /\ \A k \in 1..Len(p) : \E i \in S : p[k] = s[i]
      /\ \A i \in S : \E k \in 1..Len(p) : p[k] = s[i]
  <2>1. DOMAIN p = 1..Len(p)
    BY <1>1, PartIs DEF IsSeq
  <2> QED
    BY <1>1, <2>1, PartIs
<1>3. \A x : x \in Range(p) <=> \E k \in 1..Len(p) : x = p[k]
  BY <1>2 DEF Range
<1>4. \A x : x \in Range(p) <=> \E i \in S : x = s[i]
  BY <1>2, <1>3
<1> QED
  BY <1>1, <1>4

(* What the gates of a harness say of the claims that become edges.         *)
LEMMA FitClaims ==
    ASSUME NEW claims, Grounded(claims), Confident(Range(claims)),
           NEW e \in Range(claims)
    PROVE  e.grounded /\ ~(e.confidence < ConfidenceFloor)
BY DEF Grounded, AllGrounded, Confident, CheckConfidence, Raise

(* A claim that the text states is a link it states.                        *)
LEMMA FitLinks ==
    ASSUME NEW claims, IsSeq(claims), Grounded(claims), Confident(Range(claims))
    PROVE  StatedLinks(claims) = {<<claims[i].from, claims[i].to>> : i \in 1..Len(claims)}
<1>1. DOMAIN claims = 1..Len(claims)
  BY DEF IsSeq
<1>2. {d \in Range(claims) : d.grounded /\ ~(d.confidence < ConfidenceFloor)} = Range(claims)
  BY FitClaims
<1>3. StatedLinks(claims) = {<<c.from, c.to>> : c \in Range(claims)}
  BY <1>2 DEF StatedLinks
<1>4. \A c : c \in Range(claims) <=> \E i \in 1..Len(claims) : c = claims[i]
  BY <1>1 DEF Range
<1> QED
  BY <1>3, <1>4

(* What is asked in the dimension of a graph is answered by that dimension. *)
LEMMA AskedOfGraphs ==
    ASSUME IInv, NEW dimension \in Dimensions, NEW i \in AskedIn(dimension)
    PROVE  /\ proposal.harness = dimension /\ built = Result(proposal)
           /\ \E k \in DOMAIN Proposals : proposal \in Proposals[k]
           /\ i \in 1..Len(proposal.case.stages)
           /\ proposal.case.stages[i].kind = "built"
           /\ proposal.case.stages[i].condition = Case.stages[i].condition
           /\ Governing(Case.stages[i].condition) = dimension
           /\ Case.stages[i].facts = FactsFrom(proposal, built)
           /\ outcomes[i] = SubsumeAcross(Case.stages[i].condition, FactsFrom(proposal, built), {})
<1>1. /\ i \in Questions({dimension}) /\ Case.stages[i].kind = "built"
      /\ Governing(Case.stages[i].condition) = dimension
  BY DEF AskedIn
<1>2. /\ proposal.harness = dimension /\ built = Result(proposal)
      /\ \E k \in DOMAIN Proposals : proposal \in Proposals[k]
      /\ i \in 1..Len(proposal.case.stages)
      /\ Case = Handed(proposal, built)[1] /\ outcomes[i] = StageVerdict(Case.stages[i])
  BY <1>1, AskedOfTheBuilt
<1>3. /\ Case.stages[i].facts = FactsFrom(proposal, built)
      /\ Case.stages[i].kind = proposal.case.stages[i].kind
      /\ Case.stages[i].condition = proposal.case.stages[i].condition
  BY <1>1, <1>2, HandedStages
<1>4. outcomes[i] = SubsumeAcross(Case.stages[i].condition, Case.stages[i].facts, {})
  BY <1>1, <1>2 DEF StageVerdict
<1> QED
  BY <1>1, <1>2, <1>3, <1>4

-----------------------------------------------------------------------------
(* Causes.                                                                  *)

(* A causal construction lets the stated links through when they are fit,   *)
(* and surfaces the presupposed ones unless it rejects.                     *)
LEMMA CausesLetThrough ==
    ASSUME NEW p
    PROVE  LET result == ConstructCausal(p)
           IN  /\ result.edges # <<>> => /\ result.edges = ClaimEdges(Stateds(p), "causal")
                                         /\ Grounded(Stateds(p)) /\ Confident(Range(Stateds(p)))
               /\ result.status # "rejected" => result.presupposed = Range(Pairs(Presupposeds(p)))
<1> DEFINE ok == [g \in Range(CausalGates) |-> CausalOk(p, g)]
           rejecting == {"decode", "wellformed", "grounding"}
           outcome == Outcome(CausalGates, rejecting, ok)
           result == ConstructCausal(p)
<1>1. /\ result.status = Status(outcome)
      /\ result.edges = IF outcome = "accepted" THEN ClaimEdges(Stateds(p), "causal") ELSE <<>>
      /\ result.presupposed = IF outcome = "rejected" THEN {} ELSE Range(Pairs(Presupposeds(p)))
  BY DEF ConstructCausal
<1>2. ASSUME outcome = "accepted" PROVE Grounded(Stateds(p)) /\ Confident(Range(Stateds(p)))
  <2>1. /\ Len(CausalGates) = 6 /\ Len(CausalGates) \in Nat /\ DOMAIN CausalGates = 1..6
        /\ CausalGates[3] = "grounding" /\ CausalGates[6] = "confidence"
    BY DEF CausalGates
  <2>2. \A k \in 1..Len(CausalGates) : ok[CausalGates[k]]
    <3> HIDE DEF ok, rejecting
    <3> QED
      BY <1>2, <2>1, AcceptedPasses
  <2>3. "grounding" \in Range(CausalGates) /\ "confidence" \in Range(CausalGates)
    BY <2>1 DEF Range
  <2>4. CausalOk(p, "grounding") /\ CausalOk(p, "confidence")
    BY <2>1, <2>2, <2>3
  <2> QED
    BY <2>4 DEF CausalOk
<1>3. result.status # "rejected" => outcome # "rejected"
  BY <1>1 DEF Status
<1> HIDE DEF outcome, result
<1> QED
  BY <1>1, <1>2, <1>3 DEF result

(* The links that claims become are their pairs.                            *)
LEMMA PairsOfClaims ==
    ASSUME NEW claims, IsSeq(claims), NEW dimension
    PROVE  Range(Pairs(claims)) = Links(ClaimEdges(claims, dimension))
<1>1. PICK n \in Nat : n = Len(claims)
  BY DEF IsSeq
<1>2. PICK q : q = [i \in 1..n |-> <<claims[i].from, claims[i].to>>]
  OBVIOUS
<1>3. Pairs(claims) = q
  BY <1>1, <1>2 DEF Pairs
<1>4. \A x : x \in Range(q) <=> \E i \in 1..n : x = <<claims[i].from, claims[i].to>>
  BY <1>2 DEF Range
<1>5. Range(q) = {<<claims[i].from, claims[i].to>> : i \in 1..n}
  BY <1>4
<1> QED
  BY <1>1, <1>3, <1>5, LinksOfClaims

(* The claims of one status are a sequence of claims.                       *)
LEMMA ClaimsAreSequence ==
    ASSUME NEW p, IsSeq(p.claims), NEW status
    PROVE  IsSeq(ClaimsThat(p, status))
<1>1. Len(p.claims) \in Nat
  BY DEF IsSeq
<1>2. PICK S \in SUBSET (1..Len(p.claims)) :
           S = {i \in 1..Len(p.claims) : p.claims[i].status = status}
  OBVIOUS
<1>3. ClaimsThat(p, status) = PartAt(p.claims, S)
  BY <1>2 DEF ClaimsThat
<1> QED
  BY <1>1, <1>3, PartIs

(* An answer about causes.                                                  *)
LEMMA CausesFollow ==
    ASSUME NEW p, IsSeq(p.claims), NEW c, NEW result, result = ConstructCausal(p),
           NEW f, f.causal = result.edges, f.presupposed = result.presupposed,
           NEW v, v = EvalCausal(c, f)
    PROVE  /\ v = "satisfied" => <<c.subject, c.object>> \in StatedLinks(Stateds(p))
           /\ <<c.subject, c.object>> \in Links(ClaimEdges(Presupposeds(p), "causal"))
              /\ result.status # "rejected" => v # "not_satisfied"
<1> DEFINE link == <<c.subject, c.object>>
           grounded == \E i \in 1..Len(f.causal) : /\ f.causal[i].dimension = "causal"
                                                   /\ f.causal[i].subject = c.subject
                                                   /\ f.causal[i].object = c.object
<1>1. v = IF ~grounded /\ link \in f.presupposed THEN "open" ELSE Decided(grounded)
  BY DEF EvalCausal
<1>2. IsSeq(Stateds(p)) /\ IsSeq(Presupposeds(p))
  BY ClaimsAreSequence DEF Stateds, Presupposeds
<1>3. /\ result.edges # <<>> => /\ result.edges = ClaimEdges(Stateds(p), "causal")
                                 /\ Grounded(Stateds(p)) /\ Confident(Range(Stateds(p)))
      /\ result.status # "rejected" => result.presupposed = Range(Pairs(Presupposeds(p)))
  BY CausesLetThrough
<1>4. ASSUME grounded PROVE link \in StatedLinks(Stateds(p))
  <2>1. link \in Links(result.edges)
    BY <1>4 DEF Links
  <2>2. result.edges # <<>>
    <3>1. Len(<<>>) = 0 /\ 1..0 = {}
      OBVIOUS
    <3> QED
      BY <1>4, <3>1
  <2>3. Links(result.edges)
            = {<<Stateds(p)[i].from, Stateds(p)[i].to>> : i \in 1..Len(Stateds(p))}
    BY <1>2, <1>3, <2>2, LinksOfClaims
  <2>4. StatedLinks(Stateds(p))
            = {<<Stateds(p)[i].from, Stateds(p)[i].to>> : i \in 1..Len(Stateds(p))}
    BY <1>2, <1>3, <2>2, FitLinks
  <2> QED
    BY <2>1, <2>3, <2>4
<1>5. Range(Pairs(Presupposeds(p))) = Links(ClaimEdges(Presupposeds(p), "causal"))
  BY <1>2, PairsOfClaims
<1> HIDE DEF link, grounded
<1> QED
  BY <1>1, <1>3, <1>4, <1>5 DEF Decided, link

-----------------------------------------------------------------------------
(* Functions of the natural numbers that are defined step by step.          *)
(* Each value follows from the number before it and the value there.        *)
Stepped(D, d, G, f) == f \in [Nat -> D] /\ f[0] = d /\ \A n \in Nat : f[n + 1] = G[<<n, f[n]>>]

(* There is such a function for every step.                                 *)
LEMMA SteppedExists ==
    ASSUME NEW D, NEW d \in D, NEW G \in [Nat \X D -> D]
    PROVE  \E f : Stepped(D, d, G, f)
<1>1. PICK H : H = [q \in Nat \X D |-> <<q[1] + 1, G[q]>>]
  OBVIOUS
<1>2. H \in [Nat \X D -> Nat \X D] /\ <<0, d>> \in Nat \X D
  <2>1. \A q \in Nat \X D : q[1] + 1 \in Nat /\ G[q] \in D
    OBVIOUS
  <2> QED
    BY <1>1, <2>1
<1>3. PICK g \in [Nat -> Nat \X D] : g[0] = <<0, d>> /\ \A n \in Nat : g[n + 1] = H[g[n]]
  <2>1. PICK E, e : E = Nat \X D /\ e = <<0, d>>
    OBVIOUS
  <2>2. e \in E /\ H \in [E -> E]
    BY <1>2, <2>1
  <2>3. PICK g : Iterates(E, e, H, g)
    BY <2>2, IteratesExists
  <2> QED
    BY <2>1, <2>3 DEF Iterates
<1>4. \A n \in Nat : g[n] \in Nat \X D /\ g[n + 1] = <<g[n][1] + 1, G[g[n]]>>
  BY <1>1, <1>3
<1>5. \A n \in Nat : g[n][1] = n
  <2>1. PICK S : S = {n \in Nat : g[n][1] = n}
    OBVIOUS
  <2>2. 0 \in S
    BY <1>3, <2>1
  <2>3. \A n \in Nat : n \in S => n + 1 \in S
    BY <1>4, <2>1
  <2>4. \A n \in Nat : n \in S
    BY <2>2, <2>3, AllNats
  <2> QED
    BY <2>1, <2>4
<1>6. PICK f : f = [n \in Nat |-> g[n][2]]
  OBVIOUS
<1>7. f \in [Nat -> D] /\ f[0] = d
  BY <1>3, <1>4, <1>6
<1>8. ASSUME NEW n \in Nat PROVE f[n + 1] = G[<<n, f[n]>>]
  <2>1. g[n] = <<n, f[n]>>
    BY <1>4, <1>5, <1>6
  <2>2. g[n + 1][2] = G[g[n]]
    BY <1>4
  <2>3. f[n + 1] = g[n + 1][2]
    BY <1>6
  <2> QED
    BY <2>1, <2>2, <2>3
<1> QED
  BY <1>7, <1>8 DEF Stepped

-----------------------------------------------------------------------------
(* Paths.                                                                   *)

(* The paths of at most n + 1 edges, from those of at most n.               *)
Further(edges, start, P, n) ==
    P \cup UNION {{Append(p, i) : i \in Onward(edges, start, p)} : p \in {q \in P : Len(q) = n}}

ArePaths(edges, start, f) ==
    f[0] = {<<>>} /\ \A n \in Nat : f[n + 1] = Further(edges, start, f[n], n)

(* The recursive function inside PathsFrom is defined by its equation.      *)
LEMMA PathsFromSteps ==
    ASSUME NEW edges, Len(edges) \in Nat, NEW start, NEW depth \in Nat
    PROVE  \E f : ArePaths(edges, start, f) /\ PathsFrom(edges, start, depth) = f[depth]
<1> DEFINE I == 1..Len(edges)
           upTo[n \in Nat] ==
            IF n = 0 THEN {<<>>}
            ELSE LET before == upTo[n - 1]
                 IN  before \cup UNION {{Append(p, i) : i \in Onward(edges, start, p)} :
                                        p \in {q \in before : Len(q) = n - 1}}
<1>1. PathsFrom(edges, start, depth) = upTo[depth]
  BY DEF PathsFrom
<1>2. PICK D : D = SUBSET Seq(I)
  OBVIOUS
<1>3. PICK G : G = [q \in Nat \X D |-> Further(edges, start, q[2], q[1])]
  OBVIOUS
<1>4. {<<>>} \in D /\ G \in [Nat \X D -> D]
  <2>1. ASSUME NEW q \in Nat \X D PROVE Further(edges, start, q[2], q[1]) \in D
    <3>1. ASSUME NEW p \in q[2], NEW i \in Onward(edges, start, p) PROVE Append(p, i) \in Seq(I)
      <4>1. i \in I
        BY DEF Onward
      <4>2. q[2] \in SUBSET Seq(I)
        BY <1>2
      <4>3. p \in Seq(I)
        BY <4>2
      <4> HIDE DEF I
      <4> QED
        BY <4>1, <4>3, AppendProperties
    <3>2. q[2] \subseteq Seq(I)
      BY <1>2
    <3>3. ASSUME NEW r \in Further(edges, start, q[2], q[1]) PROVE r \in Seq(I)
      <4>1. CASE r \in q[2]
        BY <3>2, <4>1
      <4>2. CASE r \notin q[2]
        <5>1. PICK p \in q[2] : \E i \in Onward(edges, start, p) : r = Append(p, i)
          BY <3>3, <4>2 DEF Further
        <5>2. PICK i \in Onward(edges, start, p) : r = Append(p, i)
          BY <5>1
        <5> QED
          BY <3>1, <5>1, <5>2
      <4> QED
        BY <4>1, <4>2
    <3> HIDE DEF I
    <3> QED
      BY <1>2, <3>3
  <2> QED
    BY <1>2, <1>3, <2>1
<1>5. PICK f : Stepped(D, {<<>>}, G, f)
  BY <1>4, SteppedExists
<1>6. ASSUME NEW n \in Nat PROVE f[n + 1] = Further(edges, start, f[n], n)
  <2>1. f[n] \in D /\ f[n + 1] = G[<<n, f[n]>>] /\ <<n, f[n]>> \in Nat \X D
    BY <1>5 DEF Stepped
  <2> QED
    BY <1>3, <2>1
<1>7. f = [n \in Nat |-> IF n = 0 THEN {<<>>}
             ELSE LET before == f[n - 1]
                  IN  before \cup UNION {{Append(p, i) : i \in Onward(edges, start, p)} :
                                         p \in {q \in before : Len(q) = n - 1}}]
  <2>1. f \in [Nat -> D] /\ f[0] = {<<>>}
    BY <1>5 DEF Stepped
  <2>2. ASSUME NEW n \in Nat, n # 0 PROVE f[n] = Further(edges, start, f[n - 1], n - 1)
    <3>1. n - 1 \in Nat /\ (n - 1) + 1 = n
      BY <2>2
    <3> QED
      BY <1>6, <3>1
  <2> QED
    BY <2>1, <2>2 DEF Further
<1>8. upTo = [n \in Nat |-> IF n = 0 THEN {<<>>}
             ELSE LET before == upTo[n - 1]
                  IN  before \cup UNION {{Append(p, i) : i \in Onward(edges, start, p)} :
                                         p \in {q \in before : Len(q) = n - 1}}]
  BY <1>7
<1> HIDE DEF upTo
<1>9. upTo = [n \in Nat |-> IF n = 0 THEN {<<>>} ELSE Further(edges, start, upTo[n - 1], n - 1)]
  BY <1>8 DEF Further
<1>10. upTo[0] = {<<>>} /\ \A n \in Nat : upTo[n + 1] = Further(edges, start, upTo[n], n)
  <2>1. \A n \in Nat : n + 1 \in Nat /\ n + 1 # 0 /\ (n + 1) - 1 = n
    OBVIOUS
  <2> QED
    BY <1>9, <2>1
<1>11. ArePaths(edges, start, upTo)
  BY <1>10 DEF ArePaths
<1> QED
  BY <1>1, <1>11

(* What one more edge makes of a path.                                      *)
Prolonged(edges, start, p, i, q) ==
    /\ q \in Seq(1..Len(edges)) /\ q # <<>> /\ Len(p) \in Nat /\ Len(q) = Len(p) + 1
    /\ (\A k \in 1..Len(p) : q[k] = p[k]) /\ q[Len(q)] = i /\ Last(q) = i
    /\ End(edges, start, q) = edges[i].object
    /\ Visited(edges, start, q) = Visited(edges, start, p) \cup {edges[i].object}

(* Appending an edge does so.                                               *)
LEMMA IsProlonged ==
    ASSUME NEW edges, NEW start, NEW p \in Seq(1..Len(edges)), NEW i \in 1..Len(edges)
    PROVE  Prolonged(edges, start, p, i, Append(p, i))
<1>0. PICK q : q = Append(p, i)
  OBVIOUS
<1>1. /\ q \in Seq(1..Len(edges)) /\ Len(p) \in Nat /\ Len(q) = Len(p) + 1
      /\ (\A k \in 1..Len(p) : q[k] = p[k]) /\ q[Len(q)] = i
  BY <1>0, AppendProperties, LenProperties
<1>2. q # <<>> /\ Last(q) = i
  BY <1>1, EmptySeq DEF Last
<1>3. End(edges, start, q) = edges[i].object
  BY <1>2 DEF End
<1>4. Visited(edges, start, q) = Visited(edges, start, p) \cup {edges[i].object}
  <2>1. PICK l \in Nat : l = Len(p) /\ Len(q) = l + 1 /\ q[l + 1] = i
    BY <1>1
  <2>2. \A k : k \in 1..(l + 1) <=> (k \in 1..l \/ k = l + 1)
    BY <2>1
  <2>3. \A v : v \in {edges[q[k]].object : k \in 1..(l + 1)}
                 <=> v \in {edges[p[k]].object : k \in 1..l} \/ v = edges[i].object
    BY <1>1, <2>1, <2>2
  <2> QED
    BY <2>1, <2>3 DEF Visited
<1> QED
  BY <1>0, <1>1, <1>2, <1>3, <1>4 DEF Prolonged

(* What is new at each step.                                                *)
Lengthens(edges, start, P, n, x) ==
    \E p \in P : Len(p) = n /\ \E i \in Onward(edges, start, p) : x = Append(p, i)

(* A step adds these and nothing else.                                      *)
LEMMA PathsGrow ==
    ASSUME NEW edges, NEW start, NEW f, ArePaths(edges, start, f), NEW n \in Nat, NEW x
    PROVE  x \in f[n + 1] <=> x \in f[n] \/ Lengthens(edges, start, f[n], n, x)
<1>1. f[n + 1] = Further(edges, start, f[n], n)
  BY DEF ArePaths
<1> QED
  BY <1>1 DEF Further, Lengthens

(* No path is lost, and each is there as soon as its length allows.         *)
LEMMA PathsStay ==
    ASSUME NEW edges, NEW start, NEW f, ArePaths(edges, start, f),
           NEW n \in Nat, NEW m \in 0..n
    PROVE  f[m] \subseteq f[n]
<1>1. PICK S : S = {k \in Nat : m <= k => f[m] \subseteq f[k]}
  OBVIOUS
<1>2. 0 \in S
  BY <1>1
<1>3. ASSUME NEW k \in Nat, k \in S PROVE k + 1 \in S
  <2>1. \A x : x \in f[k] => x \in f[k + 1]
    BY PathsGrow
  <2>2. m <= k + 1 => m <= k \/ m = k + 1
    OBVIOUS
  <2> QED
    BY <1>1, <1>3, <2>1, <2>2
<1>4. \A k \in Nat : k \in S
  BY <1>2, <1>3, AllNats
<1> QED
  BY <1>1, <1>4

Timely(edges, f, n) ==
    \A p \in f[n] : p \in Seq(1..Len(edges)) /\ Len(p) <= n /\ p \in f[Len(p)]

(* A path is in the set as soon as its length allows.                       *)
LEMMA PathsAreTimely ==
    ASSUME NEW edges, NEW start, NEW f, ArePaths(edges, start, f), NEW n \in Nat
    PROVE  Timely(edges, f, n)
<1>1. PICK S : S = {k \in Nat : Timely(edges, f, k)}
  OBVIOUS
<1>2. 0 \in S
  <2>1. f[0] = {<<>>} /\ <<>> \in Seq(1..Len(edges)) /\ Len(<<>>) = 0
    BY DEF ArePaths
  <2>2. Timely(edges, f, 0)
    BY <2>1 DEF Timely
  <2> QED
    BY <1>1, <2>2
<1>3. ASSUME NEW k \in Nat, k \in S PROVE k + 1 \in S
  <2>1. ASSUME NEW x \in f[k + 1]
        PROVE  x \in Seq(1..Len(edges)) /\ Len(x) <= k + 1 /\ x \in f[Len(x)]
    <3>1. CASE x \in f[k]
      <4>1. x \in Seq(1..Len(edges)) /\ Len(x) <= k /\ x \in f[Len(x)] /\ Len(x) \in Nat
        BY <1>1, <1>3, <3>1, LenProperties DEF Timely
      <4> QED
        BY <4>1
    <3>2. CASE Lengthens(edges, start, f[k], k, x)
      <4>1. PICK p \in f[k], i \in 1..Len(edges) :
                 Len(p) = k /\ i \in Onward(edges, start, p) /\ x = Append(p, i)
        BY <3>2 DEF Lengthens, Onward
      <4>2. p \in Seq(1..Len(edges)) /\ i \in 1..Len(edges)
        BY <1>1, <1>3, <4>1 DEF Timely, Onward
      <4>3. x \in Seq(1..Len(edges)) /\ Len(x) = k + 1
        BY <4>1, <4>2, IsProlonged DEF Prolonged
      <4> QED
        BY <4>3
    <3> QED
      BY <3>1, <3>2, PathsGrow
  <2> QED
    BY <1>1, <2>1 DEF Timely
<1>4. \A k \in Nat : k \in S
  BY <1>2, <1>3, AllNats
<1> QED
  BY <1>1, <1>4

(* There are finitely many.                                                 *)
LEMMA PathsAreFinite ==
    ASSUME NEW edges, Len(edges) \in Nat, NEW start, NEW f, ArePaths(edges, start, f), NEW n \in Nat
    PROVE  IsFiniteSet(f[n])
<1>1. PICK S : S = {k \in Nat : IsFiniteSet(f[k])}
  OBVIOUS
<1>2. 0 \in S
  <2>1. PICK P : P = f[0] /\ P = {<<>>}
    BY DEF ArePaths
  <2>2. IsFiniteSet(P)
    BY <2>1, FS_Singleton
  <2> QED
    BY <1>1, <2>1, <2>2
<1>3. ASSUME NEW k \in Nat, k \in S PROVE k + 1 \in S
  <2>1. PICK P, I, Q : P = f[k] /\ I = 1..Len(edges) /\ Q = {Append(r[1], r[2]) : r \in P \X I}
    OBVIOUS
  <2>2. IsFiniteSet(P) /\ IsFiniteSet(I)
    BY <1>1, <1>3, <2>1, FS_Interval
  <2>3. IsFiniteSet(P \X I)
    BY <2>2, FS_Product
  <2>4. IsFiniteSet(Q)
    <3>1. PICK g : g = [r \in P \X I |-> Append(r[1], r[2])]
      OBVIOUS
    <3>2. g \in Surjection(P \X I, Q)
      BY <2>1, <3>1 DEF Surjection
    <3> QED
      BY <2>3, <3>2, FS_Surjection
  <2>5. ASSUME NEW x \in f[k + 1] PROVE x \in P \cup Q
    <3>1. CASE x \in f[k]
      BY <2>1, <3>1
    <3>2. CASE Lengthens(edges, start, f[k], k, x)
      <4>1. PICK p \in P, i \in I : x = Append(p, i)
        BY <2>1, <3>2 DEF Lengthens, Onward
      <4>2. <<p, i>> \in P \X I /\ <<p, i>>[1] = p /\ <<p, i>>[2] = i
        OBVIOUS
      <4> QED
        BY <2>1, <4>1, <4>2
    <3> QED
      BY <3>1, <3>2, PathsGrow
  <2>6. IsFiniteSet(P \cup Q)
    BY <2>2, <2>4, FS_Union
  <2>7. IsFiniteSet(f[k + 1])
    BY <2>5, <2>6, FS_Subset
  <2> QED
    BY <1>1, <2>7
<1>4. \A k \in Nat : k \in S
  BY <1>2, <1>3, AllNats
<1> QED
  BY <1>1, <1>4

(* What the empty path has, and one more edge keeps, every path has.        *)
PathInductive(edges, start, P, T) ==
    /\ <<>> \in T
    /\ \A p \in P, i \in 1..Len(edges) :
          p \in T /\ i \in Onward(edges, start, p) /\ Append(p, i) \in P => Append(p, i) \in T

(* So a property that an edge keeps holds of all paths.                     *)
LEMMA PathsInduction ==
    ASSUME NEW edges, NEW start, NEW f, ArePaths(edges, start, f), NEW d \in Nat,
           NEW T, PathInductive(edges, start, f[d], T)
    PROVE  f[d] \subseteq T
<1>1. PICK S : S = {k \in Nat : k <= d => f[k] \subseteq T}
  OBVIOUS
<1>2. 0 \in S
  BY <1>1 DEF ArePaths, PathInductive
<1>3. ASSUME NEW k \in Nat, k \in S PROVE k + 1 \in S
  <2>1. ASSUME k + 1 <= d, NEW x \in f[k + 1] PROVE x \in T
    <3>1. k <= d /\ f[k] \subseteq T
      BY <1>1, <1>3, <2>1
    <3>2. k \in 0..d /\ k + 1 \in 0..d
      BY <2>1
    <3>3. f[k] \subseteq f[d] /\ f[k + 1] \subseteq f[d]
      BY <3>2, PathsStay
    <3>4. CASE Lengthens(edges, start, f[k], k, x)
      <4>1. PICK p \in f[k], i \in 1..Len(edges) :
                 i \in Onward(edges, start, p) /\ x = Append(p, i)
        BY <3>4 DEF Lengthens, Onward
      <4>2. p \in f[d] /\ p \in T /\ Append(p, i) \in f[d] /\ i \in 1..Len(edges)
        BY <2>1, <3>1, <3>3, <4>1 DEF Onward
      <4> QED
        BY <4>1, <4>2 DEF PathInductive
    <3> QED
      BY <3>1, <3>4, PathsGrow
  <2> QED
    BY <1>1, <2>1
<1>4. \A k \in Nat : k \in S
  BY <1>2, <1>3, AllNats
<1> QED
  BY <1>1, <1>4

(* The set of paths: finite, of sequences of edges no longer than the depth,*)
(* and with a path each of its extensions that the depth allows.            *)
LEMMA PathsProperties ==
    ASSUME NEW edges, Len(edges) \in Nat, NEW start, NEW depth \in Nat,
           NEW P, P = PathsFrom(edges, start, depth)
    PROVE  /\ <<>> \in P /\ IsFiniteSet(P)
           /\ \A p \in P : p \in Seq(1..Len(edges)) /\ Len(p) <= depth /\ Len(p) \in Nat
           /\ \A p \in P : \A i \in Onward(edges, start, p) : Len(p) < depth => Append(p, i) \in P
           /\ \A T : PathInductive(edges, start, P, T) => P \subseteq T
<1>1. PICK f : ArePaths(edges, start, f) /\ P = f[depth]
  BY PathsFromSteps
<1>2. IsFiniteSet(P)
  BY <1>1, PathsAreFinite
<1>3. <<>> \in P
  <2>1. f[0] \subseteq f[depth]
    BY <1>1, PathsStay
  <2> QED
    BY <1>1, <2>1 DEF ArePaths
<1>4. \A p \in P : p \in Seq(1..Len(edges)) /\ Len(p) <= depth /\ p \in f[Len(p)]
  BY <1>1, PathsAreTimely DEF Timely
<1>5. \A p \in P : Len(p) \in Nat
  BY <1>4, LenProperties
<1>6. ASSUME NEW p \in P, NEW i \in Onward(edges, start, p), Len(p) < depth PROVE Append(p, i) \in P
  <2>1. PICK m \in Nat : m = Len(p) /\ p \in f[m] /\ m + 1 \in 0..depth
    BY <1>4, <1>5, <1>6
  <2>2. Lengthens(edges, start, f[m], m, Append(p, i))
    BY <2>1 DEF Lengthens
  <2>3. Append(p, i) \in f[m + 1]
    BY <1>1, <2>1, <2>2, PathsGrow
  <2>4. f[m + 1] \subseteq f[depth]
    BY <1>1, <2>1, PathsStay
  <2> QED
    BY <1>1, <2>3, <2>4
<1>7. \A T : PathInductive(edges, start, P, T) => P \subseteq T
  BY <1>1, PathsInduction
<1> QED
  BY <1>2, <1>3, <1>4, <1>5, <1>6, <1>7

-----------------------------------------------------------------------------
(* Where paths lead.                                                        *)

(* The links of an edge list are its edges, and finitely many.              *)
LEMMA LinksAre ==
    ASSUME NEW edges, Len(edges) \in Nat
    PROVE  /\ IsFiniteSet(Links(edges))
           /\ \A x, y : <<x, y>> \in Links(edges)
                 <=> \E i \in 1..Len(edges) : edges[i].subject = x /\ edges[i].object = y
<1>1. PICK L, I : L = Links(edges) /\ I = 1..Len(edges)
  OBVIOUS
<1>2. L = {<<edges[i].subject, edges[i].object>> : i \in I}
  BY <1>1 DEF Links
<1>3. IsFiniteSet(L)
  <2>1. PICK g : g = [i \in I |-> <<edges[i].subject, edges[i].object>>]
    OBVIOUS
  <2>2. g \in Surjection(I, L)
    BY <1>2, <2>1 DEF Surjection
  <2>3. IsFiniteSet(I)
    BY <1>1, FS_Interval
  <2> QED
    BY <2>2, <2>3, FS_Surjection
<1>4. \A x, y : <<x, y>> \in L <=> \E i \in I : edges[i].subject = x /\ edges[i].object = y
  BY <1>2
<1> QED
  BY <1>1, <1>3, <1>4

(* What a finite set of links leads to is the least set closed under them.  *)
LEMMA LeadsToProperties ==
    ASSUME NEW R, IsFiniteSet(R), NEW a
    PROVE  /\ a \in LeadsTo(R, a)
           /\ \A y \in LeadsTo(R, a) : \A z : <<y, z>> \in R => z \in LeadsTo(R, a)
           /\ \A T : a \in T /\ (\A y \in T : \A z : <<y, z>> \in R => z \in T)
                 => LeadsTo(R, a) \subseteq T
<1>1. PICK S : S = {e[2] : e \in R}
  OBVIOUS
<1>2. IsFiniteSet(S)
  <2>1. PICK g : g = [e \in R |-> e[2]]
    OBVIOUS
  <2>2. g \in Surjection(R, S)
    BY <1>1, <2>1 DEF Surjection
  <2> QED
    BY <2>2, FS_Surjection
<1>3. \A y, z : <<y, z>> \in R => z \in S
  <2>1. \A y, z : <<y, z>>[2] = z
    OBVIOUS
  <2> QED
    BY <1>1, <2>1
<1>4. LeadsTo(R, a) = Closure(S, R, a)
  BY <1>1 DEF LeadsTo
<1>5. /\ a \in Closure(S, R, a)
      /\ \A y \in Closure(S, R, a), z \in S : <<y, z>> \in R => z \in Closure(S, R, a)
      /\ \A T : a \in T /\ (\A y \in T, z \in S : <<y, z>> \in R => z \in T)
                 => Closure(S, R, a) \subseteq T
  BY <1>2, ClosureProperties
<1>6. ASSUME NEW T, a \in T, \A y \in T : \A z : <<y, z>> \in R => z \in T
      PROVE  Closure(S, R, a) \subseteq T
  <2>1. \A y \in T, z \in S : <<y, z>> \in R => z \in T
    BY <1>6
  <2> QED
    BY <1>5, <1>6, <2>1
<1> QED
  BY <1>3, <1>4, <1>5, <1>6

(* More links lead to more.                                                 *)
LEMMA LeadsToMonotone ==
    ASSUME NEW Q, NEW R, IsFiniteSet(R), Q \subseteq R, NEW a
    PROVE  LeadsTo(Q, a) \subseteq LeadsTo(R, a)
<1>1. PICK T : T = LeadsTo(R, a)
  OBVIOUS
<1>2. IsFiniteSet(Q)
  BY FS_Subset
<1>3. a \in T /\ \A y \in T : \A z : <<y, z>> \in R => z \in T
  BY <1>1, LeadsToProperties
<1>4. \A y \in T : \A z : <<y, z>> \in Q => z \in T
  BY <1>3
<1>5. \A U : a \in U /\ (\A y \in U : \A z : <<y, z>> \in Q => z \in U) => LeadsTo(Q, a) \subseteq U
  BY <1>2, LeadsToProperties
<1> QED
  BY <1>1, <1>3, <1>4, <1>5

(* The paths of at most depth edges are as PathsProperties has them.        *)
ArePathsOf(edges, start, depth, P) ==
    /\ Len(edges) \in Nat /\ depth \in Nat /\ P = PathsFrom(edges, start, depth)

(* The end of the empty path.                                               *)
LEMMA EmptyPath ==
    ASSUME NEW edges, NEW start
    PROVE  /\ End(edges, start, <<>>) = start /\ Visited(edges, start, <<>>) = {start}
           /\ <<>> \in Seq(1..Len(edges)) /\ Len(<<>>) = 0
<1>1. Len(<<>>) = 0 /\ 1..0 = {} /\ <<>> \in Seq(1..Len(edges))
  OBVIOUS
<1> QED
  BY <1>1 DEF End, Visited

(* A path ends where the links lead.                                        *)
LEMMA PathsAreLed ==
    ASSUME NEW edges, NEW start, NEW depth, NEW P, ArePathsOf(edges, start, depth, P), NEW p \in P
    PROVE  End(edges, start, p) \in LeadsTo(Links(edges), start)
<1>1. PICK L : L = LeadsTo(Links(edges), start)
  OBVIOUS
<1>2. start \in L /\ \A y \in L : \A z : <<y, z>> \in Links(edges) => z \in L
  <2>1. IsFiniteSet(Links(edges))
    BY LinksAre DEF ArePathsOf
  <2> QED
    BY <1>1, <2>1, LeadsToProperties
<1>3. PICK T : T = {q \in P : q \in Seq(1..Len(edges)) /\ End(edges, start, q) \in L}
  OBVIOUS
<1>4. PathInductive(edges, start, P, T)
  <2>1. <<>> \in T
    BY <1>2, <1>3, EmptyPath, PathsProperties DEF ArePathsOf
  <2>2. ASSUME NEW q \in P, NEW i \in 1..Len(edges), q \in T, i \in Onward(edges, start, q),
               Append(q, i) \in P
        PROVE  Append(q, i) \in T
    <3>1. /\ Append(q, i) \in Seq(1..Len(edges))
          /\ End(edges, start, Append(q, i)) = edges[i].object
      <4>1. PICK r : r = Append(q, i)
        OBVIOUS
      <4>2. q \in Seq(1..Len(edges))
        BY <1>3, <2>2
      <4>3. Prolonged(edges, start, q, i, r)
        BY <4>1, <4>2, IsProlonged
      <4> QED
        BY <4>1, <4>3 DEF Prolonged
    <3>2. edges[i].subject = End(edges, start, q)
      BY <2>2 DEF Onward
    <3>3. <<edges[i].subject, edges[i].object>> \in Links(edges)
      BY LinksAre DEF ArePathsOf
    <3>4. edges[i].object \in L
      BY <1>2, <1>3, <2>2, <3>2, <3>3
    <3> QED
      BY <1>3, <2>2, <3>1, <3>4
  <2> QED
    BY <2>1, <2>2 DEF PathInductive
<1>5. P \subseteq T
  BY <1>4, PathsProperties DEF ArePathsOf
<1> QED
  BY <1>1, <1>3, <1>5

(* No two of its edges lead to the same node, or back to the start, and each*)
(* node on it is the end of a path.                                         *)
Straight(edges, start, P, p) ==
    /\ p \in Seq(1..Len(edges)) /\ Len(p) \in Nat
    /\ \A j \in 1..Len(p), k \in 1..Len(p) : edges[p[j]].object = edges[p[k]].object => j = k
    /\ \A v \in Visited(edges, start, p) : \E q \in P : End(edges, start, q) = v

(* Every path is: it starts so, and an edge that leads on keeps it.         *)
LEMMA PathsAreStraight ==
    ASSUME NEW edges, NEW start, NEW depth, NEW P, ArePathsOf(edges, start, depth, P), NEW p \in P
    PROVE  Straight(edges, start, P, p)
<1>1. PICK T : T = {q \in P : Straight(edges, start, P, q)}
  OBVIOUS
<1>2. <<>> \in T
  <2>1. <<>> \in P
    BY PathsProperties DEF ArePathsOf
  <2> QED
    BY <1>1, <2>1, EmptyPath DEF Straight
<1>3. ASSUME NEW q \in P, NEW i \in 1..Len(edges), q \in T, i \in Onward(edges, start, q),
             Append(q, i) \in P
      PROVE  Append(q, i) \in T
  <2>1. PICK r, l : r = Append(q, i) /\ l = Len(q) /\ l \in Nat /\ q \in Seq(1..Len(edges))
    BY <1>1, <1>3 DEF Straight
  <2>2. /\ r \in Seq(1..Len(edges)) /\ Len(r) = l + 1
        /\ (\A k \in 1..l : r[k] = q[k]) /\ r[l + 1] = i
        /\ End(edges, start, r) = edges[i].object
        /\ Visited(edges, start, r) = Visited(edges, start, q) \cup {edges[i].object}
    <3>1. Prolonged(edges, start, q, i, r)
      BY <2>1, IsProlonged
    <3> QED
      BY <2>1, <3>1 DEF Prolonged
  <2>3. \A k \in 1..l : edges[q[k]].object # edges[i].object
    BY <1>3, <2>1 DEF Onward, Visited
  <2>4. ASSUME NEW j \in 1..(l + 1), NEW k \in 1..(l + 1), edges[r[j]].object = edges[r[k]].object
        PROVE  j = k
    <3>1. (j \in 1..l \/ j = l + 1) /\ (k \in 1..l \/ k = l + 1)
      BY <2>1
    <3>2. \A a \in 1..l, b \in 1..l : edges[q[a]].object = edges[q[b]].object => a = b
      BY <1>1, <1>3, <2>1 DEF Straight
    <3>3. CASE j \in 1..l /\ k \in 1..l
      BY <2>2, <2>4, <3>2, <3>3
    <3>4. CASE j \in 1..l /\ k = l + 1
      BY <2>2, <2>3, <2>4, <3>4
    <3>5. CASE j = l + 1 /\ k \in 1..l
      BY <2>2, <2>3, <2>4, <3>5
    <3> QED
      BY <3>1, <3>3, <3>4, <3>5
  <2>5. \A v \in Visited(edges, start, r) : \E t \in P : End(edges, start, t) = v
    BY <1>1, <1>3, <2>1, <2>2 DEF Straight
  <2>6. Straight(edges, start, P, r)
    BY <2>2, <2>4, <2>5 DEF Straight
  <2> QED
    BY <1>1, <1>3, <2>1, <2>6
<1>4. PathInductive(edges, start, P, T)
  BY <1>2, <1>3 DEF PathInductive
<1>5. P \subseteq T
  BY <1>4, PathsProperties DEF ArePathsOf
<1> QED
  BY <1>1, <1>5

(* A path that goes on has not used every edge.                             *)
LEMMA OnwardIsShort ==
    ASSUME NEW edges, Len(edges) \in Nat, NEW start, NEW P, NEW p, Straight(edges, start, P, p),
           NEW i \in Onward(edges, start, p)
    PROVE  Len(p) < Len(edges)
<1>1. PICK n \in Nat, l \in Nat : n = Len(edges) /\ l = Len(p)
  BY DEF Straight
<1>2. i \in 1..n /\ edges[i].object \notin Visited(edges, start, p)
  BY <1>1 DEF Onward
<1>3. \A k \in 1..l : p[k] \in 1..n /\ p[k] # i
  BY <1>1, <1>2 DEF Straight, Visited
<1>4. PICK S, T : S = 1..l /\ T = (1..n) \ {i}
  OBVIOUS
<1>5. /\ IsFiniteSet(S) /\ Cardinality(S) = l
      /\ IsFiniteSet(T) /\ Cardinality(T) = n - 1
  <2>1. IsFiniteSet(1..n) /\ Cardinality(1..n) = n /\ IsFiniteSet(1..l) /\ Cardinality(1..l) = l
    <3>1. ASSUME NEW m \in Nat PROVE IsFiniteSet(1..m) /\ Cardinality(1..m) = m
      <4>1. PICK c : c = Cardinality(1..m)
        OBVIOUS
      <4>2. IsFiniteSet(1..m) /\ c = IF 1 > m THEN 0 ELSE m - 1 + 1
        BY <4>1, FS_Interval
      <4>3. c = m
        BY <4>2
      <4> QED
        BY <4>1, <4>2, <4>3
    <3> QED
      BY <3>1
  <2>2. PICK U : U = 1..n
    OBVIOUS
  <2>3. IsFiniteSet(U) /\ Cardinality(U) = n /\ i \in U
    BY <1>2, <2>1, <2>2
  <2>4. IsFiniteSet(U \ {i}) /\ Cardinality(U \ {i}) = n - 1
    BY <2>3, FS_RemoveElement
  <2>5. T = U \ {i}
    BY <1>4, <2>2
  <2>6. IsFiniteSet(T) /\ Cardinality(T) = n - 1
    BY <2>4, <2>5
  <2> QED
    BY <1>4, <2>1, <2>6
<1>6. PICK g : g = [k \in S |-> p[k]]
  OBVIOUS
<1>7. g \in [S -> T]
  BY <1>3, <1>4, <1>6
<1> SUFFICES ASSUME ~(l < n) PROVE FALSE
  BY <1>1
<1>8. Cardinality(T) < Cardinality(S)
  BY <1>5
<1>9. PICK x \in S, y \in S : x # y /\ g[x] = g[y]
  BY <1>5, <1>7, <1>8, FS_PigeonHole
<1>10. edges[p[x]].object = edges[p[y]].object
  BY <1>6, <1>9
<1> QED
  BY <1>1, <1>4, <1>9, <1>10 DEF Straight

(* Paths long enough for every edge end wherever the links lead.            *)
LEMMA PathsReach ==
    ASSUME NEW edges, NEW start, NEW depth, NEW P, ArePathsOf(edges, start, depth, P),
           Len(edges) <= depth, NEW v \in LeadsTo(Links(edges), start)
    PROVE  \E p \in P : End(edges, start, p) = v
<1>1. PICK T : T = {End(edges, start, p) : p \in P}
  OBVIOUS
<1>2. start \in T
  BY <1>1, EmptyPath, PathsProperties DEF ArePathsOf
<1>3. ASSUME NEW y \in T, NEW z, <<y, z>> \in Links(edges) PROVE z \in T
  <2>1. PICK p \in P : y = End(edges, start, p)
    BY <1>1, <1>3
  <2>2. Straight(edges, start, P, p) /\ p \in Seq(1..Len(edges)) /\ Len(p) \in Nat
    BY PathsAreStraight DEF Straight
  <2>3. PICK i \in 1..Len(edges) : edges[i].subject = y /\ edges[i].object = z
    BY <1>3, LinksAre DEF ArePathsOf
  <2>4. CASE z \in Visited(edges, start, p)
    BY <1>1, <2>2, <2>4 DEF Straight
  <2>5. CASE z \notin Visited(edges, start, p)
    <3>1. i \in Onward(edges, start, p)
      BY <2>1, <2>3, <2>5 DEF Onward
    <3>2. Len(p) < Len(edges)
      BY <2>2, <3>1, OnwardIsShort DEF ArePathsOf
    <3>3. Len(p) < depth
      BY <2>2, <3>2 DEF ArePathsOf
    <3>4. Append(p, i) \in P
      BY <3>1, <3>3, PathsProperties DEF ArePathsOf
    <3>5. End(edges, start, Append(p, i)) = z
      <4>1. PICK r : r = Append(p, i)
        OBVIOUS
      <4>2. Prolonged(edges, start, p, i, r)
        BY <2>2, <4>1, IsProlonged
      <4> QED
        BY <2>3, <4>1, <4>2 DEF Prolonged
    <3> QED
      BY <1>1, <3>4, <3>5
  <2> QED
    BY <2>4, <2>5
<1>4. LeadsTo(Links(edges), start) \subseteq T
  <2>1. IsFiniteSet(Links(edges))
    BY LinksAre DEF ArePathsOf
  <2> QED
    BY <1>2, <1>3, <2>1, LeadsToProperties
<1> QED
  BY <1>1, <1>4

-----------------------------------------------------------------------------
(* What the cap drops.                                                      *)

(* The cap drops paths only when there are more than it allows.             *)
LEMMA KeepBestKeeps ==
    ASSUME NEW edges, NEW found, NEW cap
    PROVE  /\ KeepBest(edges, found, cap) \subseteq found
           /\ IsFiniteSet(found) /\ cap \in Nat /\ Cardinality(found) <= cap
                 => KeepBest(edges, found, cap) = found
<1>1. PICK X : X = {<<PathCost(edges, p), p>> : p \in found}
  OBVIOUS
<1> DEFINE better(x) == {y \in X \ {x} : \/ y[1] < x[1]
                                         \/ y[1] = x[1] /\ Earlier(y[2], x[2])}
<1>2. KeepBest(edges, found, cap) = {x[2] : x \in {y \in X : Cardinality(better(y)) < cap}}
  BY <1>1 DEF KeepBest
<1>3. \A x \in X : x[2] \in found
  BY <1>1
<1>4. ASSUME IsFiniteSet(found), cap \in Nat, Cardinality(found) <= cap, NEW p \in found
      PROVE  p \in KeepBest(edges, found, cap)
  <2>1. PICK x \in X : x = <<PathCost(edges, p), p>> /\ x[2] = p
    <3>1. PICK c, y : c = PathCost(edges, p) /\ y = <<c, p>>
      OBVIOUS
    <3>2. y \in X
      BY <1>1, <3>1
    <3> QED
      BY <3>1, <3>2
  <2>2. PICK g : g = [q \in found |-> <<PathCost(edges, q), q>>]
    OBVIOUS
  <2>3. g \in Surjection(found, X)
    BY <1>1, <2>2 DEF Surjection
  <2>4. /\ IsFiniteSet(X) /\ Cardinality(X) <= Cardinality(found)
        /\ Cardinality(X) \in Nat /\ Cardinality(found) \in Nat
    BY <1>4, <2>3, FS_Surjection, FS_CardinalityType
  <2>5. PICK Y : Y = X \ {x}
    OBVIOUS
  <2>6. IsFiniteSet(Y) /\ Cardinality(Y) = Cardinality(X) - 1
    BY <2>1, <2>4, <2>5, FS_RemoveElement
  <2>7. better(x) \in SUBSET Y
    BY <2>5
  <2> HIDE DEF better
  <2>8. Cardinality(better(x)) <= Cardinality(Y) /\ Cardinality(better(x)) \in Nat
    BY <2>6, <2>7, FS_Subset, FS_CardinalityType
  <2>9. Cardinality(better(x)) < cap
    BY <1>4, <2>4, <2>6, <2>8
  <2> QED
    BY <1>2, <2>1, <2>9
<1> HIDE DEF better
<1> QED
  BY <1>2, <1>3, <1>4

(* The paths that compose_paths finds, before the cap.                      *)
AllPaths(edges, start, depth) == {p \in PathsFrom(edges, start, depth) : Len(p) >= 1}

(* As many paths as the cap allows.                                         *)
Uncapped(edges, start, depth, cap) == Cardinality(AllPaths(edges, start, depth)) <= cap

(* compose_paths returns paths only, and all of them within the cap.        *)
LEMMA ComposedPaths ==
    ASSUME NEW edges, Len(edges) \in Nat, NEW start, NEW depth \in Nat, depth >= 2,
           NEW cap \in Nat
    PROVE  /\ ComposePaths(edges, start, depth, 1, cap) \subseteq AllPaths(edges, start, depth)
           /\ Uncapped(edges, start, depth, cap)
                 => ComposePaths(edges, start, depth, 1, cap) = AllPaths(edges, start, depth)
<1>1. PICK P, F : P = PathsFrom(edges, start, depth) /\ F = AllPaths(edges, start, depth)
  OBVIOUS
<1>2. ~(depth < 2) /\ F = {p \in P : Len(p) >= 1}
  BY <1>1 DEF AllPaths
<1>3. ComposePaths(edges, start, depth, 1, cap) = KeepBest(edges, F, cap)
  BY <1>1, <1>2 DEF ComposePaths
<1>4. IsFiniteSet(F)
  <2>1. IsFiniteSet(P)
    BY <1>1, PathsProperties
  <2>2. F \subseteq P
    BY <1>2
  <2> QED
    BY <2>1, <2>2, FS_Subset
<1> QED
  BY <1>1, <1>3, <1>4, KeepBestKeeps DEF Uncapped

(* A path of at least one edge ends at its last edge's object.              *)
LEMMA LongPaths ==
    ASSUME NEW edges, Len(edges) \in Nat, NEW start, NEW depth \in Nat
    PROVE  \A p : p \in AllPaths(edges, start, depth)
                    <=> /\ p \in PathsFrom(edges, start, depth) /\ p # <<>>
                        /\ End(edges, start, p) = edges[Last(p)].object
<1>1. PICK P : P = PathsFrom(edges, start, depth)
  OBVIOUS
<1>2. \A p \in P : p \in Seq(1..Len(edges)) /\ Len(p) \in Nat
  BY <1>1, PathsProperties
<1>3. \A p \in P : p # <<>> <=> Len(p) >= 1
  BY <1>2, EmptySeq
<1>4. \A p : p # <<>> => End(edges, start, p) = edges[Last(p)].object
  BY DEF End
<1> QED
  BY <1>1, <1>3, <1>4 DEF AllPaths

-----------------------------------------------------------------------------
(* Kinds.                                                                   *)

AtLeast(m, n) == IF n < m THEN m ELSE n

(* The search behind a structural condition is not cut short.               *)
SearchesAll(edges, from) ==
    LET taxonomy == StructuralEdges(edges)
        n        == Len(taxonomy)
    IN  Uncapped(taxonomy, from, AtLeast(2, n), AtLeast(200, n * n))

(* It finds nothing that the links do not lead to, and all of it when it is *)
(* not cut short.                                                           *)
LEMMA ReachesIsReached ==
    ASSUME NEW edges, NEW from, NEW to,
           NEW taxonomy, taxonomy = StructuralEdges(edges), Len(taxonomy) \in Nat
    PROVE  /\ Reaches(edges, from, to) => to \in LeadsTo(Links(taxonomy), from)
           /\ SearchesAll(edges, from) /\ to \in LeadsTo(Links(taxonomy), from)
                 => Reaches(edges, from, to)
<1>1. PICK n \in Nat : n = Len(taxonomy)
  OBVIOUS
<1>2. PICK d \in Nat : d = AtLeast(2, n) /\ n <= d /\ d >= 2
  BY DEF AtLeast
<1>3. PICK cap \in Nat : cap = AtLeast(200, n * n)
  <2>1. n * n \in Nat
    OBVIOUS
  <2>2. PICK m \in Nat : m = n * n
    BY <2>1
  <2> QED
    BY <2>2 DEF AtLeast
<1>4. PICK C : C = ComposePaths(taxonomy, from, d, 1, cap)
  OBVIOUS
<1>5. Reaches(edges, from, to) <=> from = to \/ \E p \in C : taxonomy[Last(p)].object = to
  <2>1. ComposePaths(taxonomy, from, n, 1, IF n * n < 200 THEN 200 ELSE n * n) = C
    <3>1. (IF n < 2 THEN 2 ELSE n) = d /\ (IF n * n < 200 THEN 200 ELSE n * n) = cap
      BY <1>2, <1>3 DEF AtLeast
    <3>2. (IF d < 2 THEN 2 ELSE d) = d
      BY <1>2
    <3> QED
      BY <1>4, <3>1, <3>2 DEF ComposePaths
  <2> QED
    BY <1>1, <2>1 DEF Reaches
<1>6. PICK P, A : P = PathsFrom(taxonomy, from, d) /\ A = AllPaths(taxonomy, from, d)
  OBVIOUS
<1>7. ArePathsOf(taxonomy, from, d, P)
  BY <1>1, <1>6 DEF ArePathsOf
<1>8. \A p : p \in A <=> p \in P /\ p # <<>> /\ End(taxonomy, from, p) = taxonomy[Last(p)].object
  BY <1>1, <1>6, LongPaths
<1>9. C \subseteq A /\ (Uncapped(taxonomy, from, d, cap) => C = A)
  BY <1>1, <1>2, <1>4, <1>6, ComposedPaths
<1>10. IsFiniteSet(Links(taxonomy))
  BY LinksAre
<1>11. ASSUME Reaches(edges, from, to) PROVE to \in LeadsTo(Links(taxonomy), from)
  <2>1. CASE from = to
    BY <1>10, <2>1, LeadsToProperties
  <2>2. CASE \E p \in C : taxonomy[Last(p)].object = to
    <3>1. PICK p \in P : End(taxonomy, from, p) = to
      BY <1>8, <1>9, <2>2
    <3>2. End(taxonomy, from, p) \in LeadsTo(Links(taxonomy), from)
      BY <1>7, PathsAreLed
    <3> QED
      BY <3>1, <3>2
  <2> QED
    BY <1>5, <1>11, <2>1, <2>2
<1>12. ASSUME SearchesAll(edges, from), to \in LeadsTo(Links(taxonomy), from)
       PROVE  Reaches(edges, from, to)
  <2>1. Uncapped(taxonomy, from, d, cap)
    BY <1>1, <1>2, <1>3, <1>12 DEF SearchesAll
  <2>2. PICK p \in P : End(taxonomy, from, p) = to
    BY <1>1, <1>2, <1>7, <1>12, PathsReach
  <2>3. CASE p = <<>>
    <3>1. End(taxonomy, from, p) = from
      BY <2>3, EmptyPath
    <3> QED
      BY <1>5, <2>2, <3>1
  <2>4. CASE p # <<>>
    <3>1. taxonomy[Last(p)].object = to
      BY <2>2, <2>4 DEF End
    <3>2. p \in C
      BY <1>8, <1>9, <2>1, <2>2, <2>4, <3>1
    <3> QED
      BY <1>5, <3>1, <3>2
  <2> QED
    BY <2>3, <2>4
<1> QED
  BY <1>11, <1>12

(* The second of three sequences is part of them all.                       *)
LEMMA LengthAndDomain ==
    ASSUME NEW s, IsSeq(s)
    PROVE  Len(s) \in Nat /\ DOMAIN s = 1..Len(s) /\ \A x : x \in Range(s) <=> \E i \in 1..Len(s) : x = s[i]
<1>1. Len(s) \in Nat /\ DOMAIN s = 1..Len(s)
  BY DEF IsSeq
<1> QED
  BY <1>1 DEF Range

(* Three sequences are sequences over one set.                              *)
LEMMA SequencesOverOne ==
    ASSUME NEW q, IsSeq(q), NEW r, IsSeq(r), NEW s, IsSeq(s)
    PROVE  \E T : q \in Seq(T) /\ r \in Seq(T) /\ s \in Seq(T)
<1>1. PICK A, B, C : /\ A = {q[i] : i \in DOMAIN q} /\ B = {r[i] : i \in DOMAIN r}
                     /\ C = {s[i] : i \in DOMAIN s}
  OBVIOUS
<1>2. q \in Seq(A) /\ r \in Seq(B) /\ s \in Seq(C)
  BY <1>1 DEF IsSeq
<1>3. PICK D : D = A \cup B \cup C
  OBVIOUS
<1>4. \A U, V, w : w \in Seq(U) /\ U \subseteq V => w \in Seq(V)
  OBVIOUS
<1>5. A \subseteq D /\ B \subseteq D /\ C \subseteq D
  BY <1>3
<1> QED
  BY <1>2, <1>4, <1>5

(* What is in the middle one of three sequences is in the three.            *)
LEMMA MiddleOfThree ==
    ASSUME NEW q, IsSeq(q), NEW r, IsSeq(r), NEW s, IsSeq(s)
    PROVE  Range(r) \subseteq Range(q \o r \o s)
<1>1. PICK T : q \in Seq(T) /\ r \in Seq(T) /\ s \in Seq(T)
  BY SequencesOverOne
<1>2. PICK m \in Nat, n \in Nat, l \in Nat : m = Len(q) /\ n = Len(r) /\ l = Len(s)
  BY LengthAndDomain
<1>3. /\ q \o r \in Seq(T) /\ Len(q \o r) = m + n
      /\ \A i \in 1..(m + n) : (q \o r)[i] = IF i <= m THEN q[i] ELSE r[i - m]
  BY <1>1, <1>2, ConcatProperties
<1>4. PICK t : t = q \o r
  OBVIOUS
<1>5. t \in Seq(T) /\ Len(t) = m + n /\ m + n \in Nat
  BY <1>3, <1>4
<1>6. /\ t \o s \in Seq(T) /\ Len(t \o s) = m + n + l
      /\ \A i \in 1..(m + n + l) : (t \o s)[i] = IF i <= m + n THEN t[i] ELSE s[i - (m + n)]
  <2>1. PICK k \in Nat : k = m + n /\ k = Len(t)
    BY <1>5
  <2>2. /\ t \o s \in Seq(T) /\ Len(t \o s) = Len(t) + Len(s)
        /\ \A i \in 1..(Len(t) + Len(s)) :
              (t \o s)[i] = IF i <= Len(t) THEN t[i] ELSE s[i - Len(t)]
    BY <1>1, <1>5, ConcatProperties
  <2> QED
    BY <1>2, <2>1, <2>2
<1>7. PICK u : u = t \o s
  OBVIOUS
<1>8. DOMAIN u = 1..(m + n + l)
  BY <1>6, <1>7
<1>9. ASSUME NEW i \in 1..n PROVE r[i] \in Range(u)
  <2>1. PICK j : j = m + i
    OBVIOUS
  <2>2. j \in 1..(m + n) /\ j \in 1..(m + n + l) /\ j <= m + n /\ ~(j <= m) /\ j - m = i
    BY <2>1
  <2>3. u[j] = t[j] /\ t[j] = r[i]
    BY <1>3, <1>4, <1>6, <1>7, <2>2
  <2> QED
    BY <1>8, <2>2, <2>3 DEF Range
<1>10. \A x \in Range(r) : x \in Range(u)
  BY <1>2, <1>9, LengthAndDomain
<1> QED
  BY <1>4, <1>7, <1>10

(* A taxonomy lets its claims through when they are fit, and flags what it  *)
(* flags.                                                                   *)
LEMMA StructureLetsThrough ==
    ASSUME NEW p, IsSeq(p.concepts), IsSeq(p.edges), IsSeq(p.definitions),
           NEW result, result = ConstructStructure(p)
    PROVE  /\ result.edges = <<>> \/ result.status = "extracted"
           /\ result.status = "extracted" =>
                 /\ result.edges = ClaimEdges(p.edges, "structural")
                 /\ StatedLinks(p.edges) = Links(result.edges)
<1> DEFINE ok == [g \in Range(StructuralGates) |-> StructuralOk(p, g)]
           rejecting == {"decode", "grounding", "wellformed"}
           outcome == Outcome(StructuralGates, rejecting, ok)
           all == p.concepts \o p.edges \o p.definitions
<1>1. /\ result.status = Status(outcome)
      /\ result.edges = IF outcome = "accepted" THEN ClaimEdges(p.edges, "structural") ELSE <<>>
  BY DEF ConstructStructure
<1>2. ASSUME outcome = "accepted" PROVE Grounded(all) /\ Confident(Range(all))
  <2>1. /\ Len(StructuralGates) = 7 /\ Len(StructuralGates) \in Nat
        /\ DOMAIN StructuralGates = 1..7 /\ StructuralGates[2] = "grounding"
        /\ StructuralGates[7] = "confidence"
    BY DEF StructuralGates
  <2>2. \A k \in 1..Len(StructuralGates) : ok[StructuralGates[k]]
    <3> HIDE DEF ok, rejecting
    <3> QED
      BY <1>2, <2>1, AcceptedPasses
  <2>3. "grounding" \in Range(StructuralGates) /\ "confidence" \in Range(StructuralGates)
    BY <2>1 DEF Range
  <2>4. StructuralOk(p, "grounding") /\ StructuralOk(p, "confidence")
    BY <2>1, <2>2, <2>3
  <2> QED
    BY <2>4 DEF StructuralOk
<1>3. Range(p.edges) \subseteq Range(all)
  BY MiddleOfThree
<1> HIDE DEF all
<1>4. ASSUME outcome = "accepted"
      PROVE  StatedLinks(p.edges) = Links(ClaimEdges(p.edges, "structural"))
  <2>1. Grounded(all) /\ Confident(Range(all))
    BY <1>2, <1>4
  <2>2. \A d \in Range(all) : d.grounded /\ ~(d.confidence < ConfidenceFloor)
    BY <2>1, FitClaims
  <2>3. \A d \in Range(p.edges) : d.grounded /\ ~(d.confidence < ConfidenceFloor)
    BY <1>3, <2>2
  <2>4. {d \in Range(p.edges) : d.grounded /\ ~(d.confidence < ConfidenceFloor)} = Range(p.edges)
    BY <2>3
  <2>5. StatedLinks(p.edges) = {<<c.from, c.to>> : c \in Range(p.edges)}
    BY <2>4 DEF StatedLinks
  <2>6. \A c : c \in Range(p.edges) <=> \E i \in 1..Len(p.edges) : c = p.edges[i]
    BY LengthAndDomain
  <2>7. StatedLinks(p.edges) = {<<p.edges[i].from, p.edges[i].to>> : i \in 1..Len(p.edges)}
    BY <2>5, <2>6
  <2> QED
    BY <2>7, LinksOfClaims
<1>5. outcome \in {"accepted", "rejected", "escalated"}
  <2>1. Len(StructuralGates) \in Nat
    BY DEF StructuralGates
  <2> HIDE DEF ok, rejecting
  <2> QED
    BY <2>1, AcceptedPasses
<1>6. result.status = "extracted" <=> outcome = "accepted"
  BY <1>1, <1>5 DEF Status
<1> HIDE DEF outcome
<1> QED
  BY <1>1, <1>4, <1>6

(* The taxonomy of edges that are all structural is all of them.            *)
AreStructural(edges) ==
    Len(edges) \in Nat /\ \A i \in 1..Len(edges) : edges[i].dimension = "structural"

(* Selecting the structural edges drops nothing then.                       *)
LEMMA TaxonomyOfAll ==
    ASSUME NEW edges, AreStructural(edges)
    PROVE  /\ Len(StructuralEdges(edges)) \in Nat
           /\ Links(StructuralEdges(edges)) = Links(edges)
<1>1. Len(edges) \in Nat /\ \A i \in 1..Len(edges) : edges[i].dimension = "structural"
  BY DEF AreStructural
<1>2. PICK n \in Nat, S \in SUBSET (1..Len(edges)) :
           n = Len(edges) /\ S = {i \in 1..n : edges[i].dimension = "structural"}
  BY <1>1
<1>3. S = 1..n
  BY <1>1, <1>2
<1>4. PICK t : t = PartAt(edges, S) /\ t = StructuralEdges(edges)
  BY <1>2 DEF StructuralEdges
<1>5. /\ Len(t) \in Nat
      /\ \A k \in 1..Len(t) : \E i \in S : t[k] = edges[i]
      /\ \A i \in S : \E k \in 1..Len(t) : t[k] = edges[i]
  <2>1. /\ Len(PartAt(edges, S)) \in Nat
        /\ \A k \in 1..Len(PartAt(edges, S)) : \E i \in S : PartAt(edges, S)[k] = edges[i]
        /\ \A i \in S : \E k \in 1..Len(PartAt(edges, S)) : PartAt(edges, S)[k] = edges[i]
    BY <1>1, PartIs
  <2> QED
    BY <1>4, <2>1
<1>6. \A z : z \in Links(t) <=> z \in Links(edges)
  <2>1. \A k \in 1..Len(t) : <<t[k].subject, t[k].object>> \in Links(edges)
    BY <1>2, <1>3, <1>5 DEF Links
  <2>2. \A i \in 1..n : <<edges[i].subject, edges[i].object>> \in Links(t)
    BY <1>3, <1>5 DEF Links
  <2> QED
    BY <1>2, <2>1, <2>2 DEF Links
<1>7. Links(t) = Links(edges)
  BY <1>6
<1> QED
  BY <1>4, <1>5, <1>7

(* The claims of a construction are.                                        *)
LEMMA TaxonomyOfClaims ==
    ASSUME NEW claims, IsSeq(claims),
           NEW edges, edges = ClaimEdges(claims, "structural") \/ edges = <<>>
    PROVE  /\ Len(edges) \in Nat /\ Len(StructuralEdges(edges)) \in Nat
           /\ Links(StructuralEdges(edges)) = Links(edges)
<1>1. Len(edges) \in Nat /\ \A i \in 1..Len(edges) : edges[i].dimension = "structural"
  <2>1. CASE edges = ClaimEdges(claims, "structural")
    <3>1. PICK n \in Nat : n = Len(claims)
      BY DEF IsSeq
    <3>2. PICK q : q = [i \in 1..n |-> Edge(claims[i].from, "claim", claims[i].to, "structural",
                                            100 - claims[i].confidence)]
      OBVIOUS
    <3>3. edges = q
      BY <2>1, <3>1, <3>2 DEF ClaimEdges
    <3>4. Len(q) = n
      <4>1. PICK T : T = {q[i] : i \in 1..n}
        OBVIOUS
      <4>2. q \in [1..n -> T]
        BY <3>2, <4>1
      <4> QED
        BY <4>2, IsSequence
    <3> QED
      BY <3>2, <3>3, <3>4 DEF Edge
  <2>2. CASE edges = <<>>
    BY <2>2
  <2> QED
    BY <2>1, <2>2
<1>2. AreStructural(edges)
  BY <1>1 DEF AreStructural
<1> QED
  BY <1>1, <1>2, TaxonomyOfAll

(* An answer about kinds.                                                   *)
LEMMA KindsFollow ==
    ASSUME NEW p, IsSeq(p.concepts), IsSeq(p.edges), IsSeq(p.definitions), NEW c,
           NEW result, result = ConstructStructure(p),
           NEW f, f.structural = result.edges, f.unsettled = result.flagged,
           NEW v, v = EvalStructural(c, f)
    PROVE  /\ v = "satisfied" => c.object \in LeadsTo(StatedLinks(p.edges), c.subject)
           /\ v = "not_satisfied" =>
                 /\ c.subject \notin result.flagged
                 /\ result.status = "extracted" /\ SearchesAll(result.edges, c.subject) =>
                       c.object \notin LeadsTo(StatedLinks(p.edges), c.subject)
<1>1. PICK edges, reached : edges = result.edges /\ reached = Reaches(edges, c.subject, c.object)
  OBVIOUS
<1>2. /\ v = "satisfied" => reached
      /\ v = "not_satisfied" => ~reached /\ c.subject \notin result.flagged
  BY <1>1 DEF EvalStructural, Decided
<1>3. PICK t : t = StructuralEdges(edges)
  OBVIOUS
<1>4. /\ edges = <<>> \/ result.status = "extracted"
      /\ result.status = "extracted" => /\ edges = ClaimEdges(p.edges, "structural")
                                        /\ StatedLinks(p.edges) = Links(edges)
  BY <1>1, StructureLetsThrough
<1>5. Len(edges) \in Nat /\ Len(t) \in Nat /\ Links(t) = Links(edges)
  <2>1. edges = ClaimEdges(p.edges, "structural") \/ edges = <<>>
    BY <1>4
  <2> QED
    BY <1>3, <2>1, TaxonomyOfClaims
<1>6. /\ reached => c.object \in LeadsTo(Links(t), c.subject)
      /\ SearchesAll(edges, c.subject) /\ c.object \in LeadsTo(Links(t), c.subject) => reached
  BY <1>1, <1>3, <1>5, ReachesIsReached
<1>7. LeadsTo(Links(edges), c.subject) \subseteq LeadsTo(StatedLinks(p.edges), c.subject)
  <2>1. CASE result.status = "extracted"
    BY <1>4, <2>1
  <2>2. CASE edges = <<>>
    <3>1. Links(edges) = {}
      BY <2>2 DEF Links
    <3>2. IsFiniteSet(StatedLinks(p.edges))
      <4>1. PICK K, D : K = {<<d.from, d.to>> : d \in D}
                        /\ D = {d \in Range(p.edges) : /\ d.grounded
                                                       /\ ~(d.confidence < ConfidenceFloor)}
        OBVIOUS
      <4>2. K = StatedLinks(p.edges)
        BY <4>1 DEF StatedLinks
      <4>3. IsFiniteSet(Range(p.edges))
        BY FiniteRange DEF IsSeq
      <4>4. D \subseteq Range(p.edges)
        BY <4>1
      <4>5. IsFiniteSet(D)
        BY <4>3, <4>4, FS_Subset
      <4>6. PICK g : g = [d \in D |-> <<d.from, d.to>>]
        OBVIOUS
      <4>7. g \in Surjection(D, K)
        BY <4>1, <4>6 DEF Surjection
      <4> QED
        BY <4>2, <4>5, <4>7, FS_Surjection
    <3> QED
      BY <3>1, <3>2, LeadsToMonotone
  <2> QED
    BY <1>4, <2>1, <2>2
<1> QED
  BY <1>1, <1>2, <1>4, <1>5, <1>6, <1>7

-----------------------------------------------------------------------------
(* What a question about causes is answered.                                *)
CausesAnswered ==
    \A i \in AskedIn("causal") :
        LET c == Case.stages[i].condition
            p == proposal.content
        IN  /\ outcomes[i] = "satisfied" =>
                  <<c.subject, c.object>> \in StatedLinks(Stateds(p))
            /\ <<c.subject, c.object>> \in Links(ClaimEdges(Presupposeds(p), "causal"))
               /\ built.status # "rejected" => outcomes[i] # "not_satisfied"

(* It is what the recorded verdicts say, by the facts about constructions.  *)
LEMMA CausesAre ==
    ASSUME IInv
    PROVE  CausesAnswered
<1> DEFINE p == proposal.content
<1>0. "causal" \in Dimensions /\ NoDimension # "causal"
  BY DimensionsAssumption DEF Dimensions
<1>1. ASSUME NEW i \in AskedIn("causal")
      PROVE  LET c == Case.stages[i].condition
             IN  /\ outcomes[i] = "satisfied" =>
                       <<c.subject, c.object>> \in StatedLinks(Stateds(p))
                 /\ <<c.subject, c.object>> \in Links(ClaimEdges(Presupposeds(p), "causal"))
                    /\ built.status # "rejected" => outcomes[i] # "not_satisfied"
  <2>1. PICK c, f : c = Case.stages[i].condition /\ f = FactsFrom(proposal, built)
    OBVIOUS
  <2>2. /\ proposal.harness = "causal" /\ built = Result(proposal)
        /\ \E k \in DOMAIN Proposals : proposal \in Proposals[k]
        /\ Governing(c) = "causal" /\ outcomes[i] = SubsumeAcross(c, f, {})
    BY <1>0, <2>1, AskedOfGraphs
  <2>3. IsSeq(p.claims)
    BY <2>2, ProposalsAssumption
  <2>4. built = ConstructCausal(p)
    BY <2>2 DEF Result
  <2>5. f.causal = built.edges /\ f.presupposed = built.presupposed
    BY <2>1, <2>2 DEF FactsFrom, NoFacts
  <2>6. outcomes[i] = EvalCausal(c, f)
    BY <1>0, <2>2 DEF SubsumeAcross
  <2> HIDE DEF p
  <2> QED
    BY <2>1, <2>3, <2>4, <2>5, <2>6, CausesFollow
<1> QED
  BY <1>1 DEF CausesAnswered

(* What a question about kinds is answered.                                 *)
KindsAnswered ==
    \A i \in AskedIn("structural") :
        LET c == Case.stages[i].condition
            p == proposal.content
        IN  /\ outcomes[i] = "satisfied" =>
                  c.object \in LeadsTo(StatedLinks(p.edges), c.subject)
            /\ outcomes[i] = "not_satisfied" =>
                  /\ c.subject \notin built.flagged
                  /\ built.status = "extracted" /\ SearchesAll(built.edges, c.subject) =>
                        c.object \notin LeadsTo(StatedLinks(p.edges), c.subject)

(* The same for kinds.                                                      *)
LEMMA KindsAre ==
    ASSUME IInv
    PROVE  KindsAnswered
<1> DEFINE p == proposal.content
<1>0. "structural" \in Dimensions /\ NoDimension # "structural"
  BY DimensionsAssumption DEF Dimensions
<1>1. ASSUME NEW i \in AskedIn("structural")
      PROVE  LET c == Case.stages[i].condition
             IN  /\ outcomes[i] = "satisfied" =>
                       c.object \in LeadsTo(StatedLinks(p.edges), c.subject)
                 /\ outcomes[i] = "not_satisfied" =>
                       /\ c.subject \notin built.flagged
                       /\ built.status = "extracted" /\ SearchesAll(built.edges, c.subject) =>
                             c.object \notin LeadsTo(StatedLinks(p.edges), c.subject)
  <2>1. PICK c, f : c = Case.stages[i].condition /\ f = FactsFrom(proposal, built)
    OBVIOUS
  <2>2. /\ proposal.harness = "structural" /\ built = Result(proposal)
        /\ \E k \in DOMAIN Proposals : proposal \in Proposals[k]
        /\ Governing(c) = "structural" /\ outcomes[i] = SubsumeAcross(c, f, {})
    BY <1>0, <2>1, AskedOfGraphs
  <2>3. IsSeq(p.concepts) /\ IsSeq(p.edges) /\ IsSeq(p.definitions)
    BY <2>2, ProposalsAssumption
  <2>4. built = ConstructStructure(p)
    BY <2>2 DEF Result
  <2>5. f.structural = built.edges /\ f.unsettled = built.flagged
    BY <2>1, <2>2 DEF FactsFrom, NoFacts
  <2>6. outcomes[i] = EvalStructural(c, f)
    BY <1>0, <2>2 DEF SubsumeAcross
  <2> HIDE DEF p
  <2> QED
    BY <2>1, <2>3, <2>4, <2>5, <2>6, KindsFollow
<1> QED
  BY <1>1 DEF KindsAnswered

(* An answer about causes or kinds follows from the text, for every proposal*)
(* and whatever compose_paths (reasoning.py) drops: a yes from links the    *)
(* text states, each grounded and at the floor; and no no is given to a link*)
(* that was found to be only presupposed, nor about a term found to be      *)
(* undefined.                                                               *)
THEOREM AlwaysAnswersFollow == Spec => [](CausesAnswered /\ KindsAnswered)
BY AlwaysIInv, CausesAre, KindsAre, PTL

(* No search that a question about kinds runs in an extracted taxonomy is   *)
(* cut short: there are at most 200 paths from its subject, or at most as   *)
(* many as the square of the number of edges, where that is more.           *)
NoPathIsDropped ==
    \A i \in AskedIn("structural") :
        built.status = "extracted" => SearchesAll(built.edges, Case.stages[i].condition.subject)

(* As long as no path is dropped, a no about kinds follows from the text    *)
(* too: the links it states do not lead from the one to the other.          *)
THEOREM AlwaysGraphAnswersFollowTheText ==
    Spec => [](NoPathIsDropped => GraphAnswersFollowTheText)
<1>1. ASSUME IInv, NoPathIsDropped PROVE GraphAnswersFollowTheText
  <2>1. CausesAnswered /\ KindsAnswered
    BY <1>1, CausesAre, KindsAre
  <2> QED
    BY <1>1, <2>1 DEF CausesAnswered, KindsAnswered, NoPathIsDropped, GraphAnswersFollowTheText
<1> QED
  BY <1>1, AlwaysIInv, PTL

(* No search that a structural stage runs in its taxonomy is cut short.     *)
NoTaxonomyIsCut ==
    \A i \in 1..Len(outcomes) :
        LET st == Case.stages[i]
        IN  st.kind = "structural" => SearchesAll(st.edges, st.subject)

(* What a structural stage is answered.                                     *)
StagesAnswered ==
    \A i \in 1..Len(outcomes) :
        LET st == Case.stages[i]
        IN  st.kind = "structural" =>
              /\ outcomes[i] = "satisfied" => st.object \in LeadsTo(Links(st.edges), st.subject)
              /\ outcomes[i] = "not_satisfied" =>
                    <<st.subject, st.object>> \notin st.pairs /\ st.subject \notin st.nodes

(* A structural stage answers what its taxonomy reaches, if the search is   *)
(* not cut short, and never says yes, or no of what is flagged, otherwise.  *)
LEMMA StructuralStageIs ==
    ASSUME NEW st, AreStructural(st.edges), NEW v, v = StructuralStage(st)
    PROVE  LET reached == st.object \in LeadsTo(Links(st.edges), st.subject)
               flagged == <<st.subject, st.object>> \in st.pairs \/ st.subject \in st.nodes
           IN  /\ v = "satisfied" => reached
               /\ v = "not_satisfied" => ~flagged
               /\ SearchesAll(st.edges, st.subject) =>
                     v = IF reached THEN "satisfied" ELSE IF flagged THEN "open" ELSE "not_satisfied"
<1>1. PICK t, found : t = StructuralEdges(st.edges) /\ found = Reaches(st.edges, st.subject, st.object)
  OBVIOUS
<1>2. v = IF ~found /\ (<<st.subject, st.object>> \in st.pairs \/ st.subject \in st.nodes)
          THEN "open" ELSE Decided(found)
  BY <1>1 DEF StructuralStage, EvalStructural, NoFacts
<1>3. Len(t) \in Nat /\ Links(t) = Links(st.edges)
  BY <1>1, TaxonomyOfAll
<1>4. /\ found => st.object \in LeadsTo(Links(t), st.subject)
      /\ SearchesAll(st.edges, st.subject) /\ st.object \in LeadsTo(Links(t), st.subject) => found
  BY <1>1, <1>3, ReachesIsReached
<1> QED
  BY <1>2, <1>3, <1>4 DEF Decided

(* The stages of a case are given as structural, so their verdicts are      *)
(* these.                                                                   *)
LEMMA StagesAre ==
    ASSUME IInv
    PROVE  /\ StagesAnswered
           /\ NoTaxonomyIsCut => StructuralAnswerIsReachability
<1>1. ASSUME NEW i \in 1..Len(outcomes), NEW st, st = Case.stages[i], st.kind = "structural"
      PROVE  AreStructural(st.edges) /\ outcomes[i] = StructuralStage(st)
  <2>1. IsStage(st) /\ outcomes[i] = StageVerdict(st)
    BY <1>1, AnsweredByItself
  <2>2. IsSeq(st.edges) /\ \A k \in 1..Len(st.edges) : st.edges[k].dimension = "structural"
    BY <1>1, <2>1 DEF IsStage
  <2>3. Len(st.edges) \in Nat
    BY <2>2 DEF IsSeq
  <2>4. StageVerdict(st) = StructuralStage(st)
    BY <1>1 DEF StageVerdict
  <2> QED
    BY <2>1, <2>2, <2>3, <2>4 DEF AreStructural
<1>2. StagesAnswered
  BY <1>1, StructuralStageIs DEF StagesAnswered
<1>3. ASSUME NoTaxonomyIsCut PROVE StructuralAnswerIsReachability
  BY <1>1, <1>3, StructuralStageIs DEF NoTaxonomyIsCut, StructuralAnswerIsReachability
<1> QED
  BY <1>2, <1>3

(* The docstring of _reachable (cross_subsumption.py) promises that any     *)
(* acyclic path is found.  A yes of a structural stage always is reached,   *)
(* and a no never is given where the taxonomy is flagged as incomplete,     *)
(* however many paths compose_paths drops.                                  *)
THEOREM AlwaysStagesAreHonest == Spec => []StagesAnswered
BY AlwaysIInv, StagesAre, PTL

(* And what is documented holds wherever no path is dropped: the bound on   *)
(* the number of results is all that the documentation overlooks.           *)
THEOREM AlwaysReachedUnlessCut ==
    Spec => [](NoTaxonomyIsCut => StructuralAnswerIsReachability)
BY AlwaysIInv, StagesAre, PTL

-----------------------------------------------------------------------------
(* Relations along a chain.                                                 *)

(* What the legs of a chain fold to, one after another.                     *)
Begins(r) == [relation |-> r, escalated |-> FALSE]

AreFolds(table, chain, l, g) ==
    /\ g[1] = Begins(chain[1])
    /\ \A k \in 1..(l - 1) : g[k + 1] = FoldLeg(table, g[k], chain[k + 1])

(* The recursive function inside ComposeChain is defined by its equation.   *)
LEMMA ComposeChainFolds ==
    ASSUME NEW table, NEW chain, NEW l \in Nat, l = Len(chain), l # 0
    PROVE  \E g : AreFolds(table, chain, l, g) /\ ComposeChain(table, chain) = g[l]
<1> DEFINE upTo[k \in 1..Len(chain)] ==
                 IF k = 1 THEN [relation |-> chain[1], escalated |-> FALSE]
                 ELSE FoldLeg(table, upTo[k - 1], chain[k])
<1>1. ComposeChain(table, chain) = upTo[Len(chain)]
  <2>1. chain # <<>>
    OBVIOUS
  <2> QED
    BY <2>1 DEF ComposeChain
<1>2. PICK V : V = {chain[k] : k \in 1..l} \cup {table[q] : q \in DOMAIN table} \cup {NoRelation}
  OBVIOUS
<1>3. PICK D : D = [relation : V, escalated : BOOLEAN]
  OBVIOUS
<1>4. PICK d : d = Begins(chain[1])
  OBVIOUS
<1>5. d \in D
  <2>1. chain[1] \in V
    BY <1>2
  <2> QED
    BY <1>3, <1>4, <2>1 DEF Begins
<1>6. ASSUME NEW a \in D, NEW k \in 1..l PROVE FoldLeg(table, a, chain[k]) \in D
  <2>1. chain[k] \in V /\ ComposeRelations(table, a.relation, chain[k]) \in V
    BY <1>2 DEF ComposeRelations
  <2> QED
    BY <1>3, <2>1 DEF FoldLeg
<1>7. PICK G : G = [q \in Nat \X D |-> IF q[1] + 2 \in 1..l
                                        THEN FoldLeg(table, q[2], chain[q[1] + 2]) ELSE q[2]]
  OBVIOUS
<1>8. G \in [Nat \X D -> D]
  <2>1. ASSUME NEW n \in Nat, NEW a \in D
        PROVE  (IF n + 2 \in 1..l THEN FoldLeg(table, a, chain[n + 2]) ELSE a) \in D
    BY <1>6
  <2> QED
    BY <1>7, <2>1
<1>9. PICK f : Stepped(D, d, G, f)
  BY <1>5, <1>8, SteppedExists
<1>10. ASSUME NEW n \in Nat, n + 2 \in 1..l PROVE f[n + 1] = FoldLeg(table, f[n], chain[n + 2])
  <2>1. f[n] \in D /\ f[n + 1] = G[<<n, f[n]>>] /\ <<n, f[n]>> \in Nat \X D
    BY <1>9 DEF Stepped
  <2> QED
    BY <1>7, <1>10, <2>1
<1>11. PICK g : g = [k \in 1..Len(chain) |-> f[k - 1]]
  OBVIOUS
<1>12. g = [k \in 1..Len(chain) |-> IF k = 1 THEN [relation |-> chain[1], escalated |-> FALSE]
                                    ELSE FoldLeg(table, g[k - 1], chain[k])]
  <2>1. ASSUME NEW k \in 1..l
        PROVE  f[k - 1] = IF k = 1 THEN [relation |-> chain[1], escalated |-> FALSE]
                          ELSE FoldLeg(table, g[k - 1], chain[k])
    <3>1. CASE k = 1
      BY <1>4, <1>9, <3>1 DEF Stepped, Begins
    <3>2. CASE k # 1
      <4>1. PICK n \in Nat : n + 2 = k
        <5>1. k - 2 \in Nat /\ (k - 2) + 2 = k
          BY <3>2
        <5> QED
          BY <5>1
      <4>2. k - 1 = n + 1 /\ k - 1 \in 1..l /\ (k - 1) - 1 = n
        BY <4>1
      <4>3. f[n + 1] = FoldLeg(table, f[n], chain[k])
        BY <1>10, <4>1
      <4>4. g[k - 1] = f[n]
        BY <1>11, <4>2
      <4> QED
        BY <3>2, <4>2, <4>3, <4>4
    <3> QED
      BY <3>1, <3>2
  <2> QED
    BY <1>11, <2>1
<1>13. upTo = [k \in 1..Len(chain) |-> IF k = 1 THEN [relation |-> chain[1], escalated |-> FALSE]
                                       ELSE FoldLeg(table, upTo[k - 1], chain[k])]
  BY <1>12
<1> HIDE DEF upTo
<1>14. AreFolds(table, chain, l, upTo)
  <2>1. upTo[1] = Begins(chain[1])
    BY <1>13 DEF Begins
  <2>2. ASSUME NEW k \in 1..(l - 1) PROVE upTo[k + 1] = FoldLeg(table, upTo[k], chain[k + 1])
    <3>1. k + 1 \in 1..l /\ k + 1 # 1 /\ (k + 1) - 1 = k
      OBVIOUS
    <3> QED
      BY <1>13, <3>1
  <2> QED
    BY <2>1, <2>2 DEF AreFolds
<1> QED
  BY <1>1, <1>14

(* Chains that begin alike fold alike.                                      *)
LEMMA FoldsAgree ==
    ASSUME NEW table, NEW chain, NEW other, NEW l \in Nat, NEW m \in Nat, 1 <= l, l <= m,
           \A k \in 1..l : chain[k] = other[k],
           NEW g, AreFolds(table, chain, l, g), NEW j, AreFolds(table, other, m, j)
    PROVE  g[l] = j[l]
<1>1. PICK S : S = {n \in Nat : n + 1 <= l => g[n + 1] = j[n + 1]}
  OBVIOUS
<1>2. 0 \in S
  BY <1>1 DEF AreFolds
<1>3. ASSUME NEW n \in Nat, n \in S PROVE n + 1 \in S
  <2>1. ASSUME (n + 1) + 1 <= l PROVE g[(n + 1) + 1] = j[(n + 1) + 1]
    <3>1. PICK k : k = n + 1 /\ k \in 1..(l - 1) /\ k \in 1..(m - 1) /\ k + 1 \in 1..l
      BY <2>1
    <3>2. g[k] = j[k]
      BY <1>1, <1>3, <2>1, <3>1
    <3>3. g[k + 1] = FoldLeg(table, g[k], chain[k + 1]) /\ j[k + 1] = FoldLeg(table, j[k], other[k + 1])
      BY <3>1 DEF AreFolds
    <3> QED
      BY <3>1, <3>2, <3>3
  <2> QED
    BY <1>1, <2>1
<1>4. \A n \in Nat : n \in S
  BY <1>2, <1>3, AllNats
<1>5. l - 1 \in Nat /\ (l - 1) + 1 = l
  OBVIOUS
<1> QED
  BY <1>1, <1>4, <1>5

(* One more leg.                                                            *)
OneLonger(chain, longer, l) ==
    l = Len(chain) /\ Len(longer) = l + 1 /\ \A k \in 1..l : longer[k] = chain[k]

(* The fold over the longer chain is one step from that over the shorter.   *)
LEMMA OneMoreLeg ==
    ASSUME NEW table, NEW chain, NEW l \in Nat, l # 0, NEW longer, OneLonger(chain, longer, l)
    PROVE  ComposeChain(table, longer) = FoldLeg(table, ComposeChain(table, chain), longer[l + 1])
<1> l = Len(chain) /\ Len(longer) = l + 1 /\ \A k \in 1..l : longer[k] = chain[k]
  BY DEF OneLonger
<1>1. PICK g : AreFolds(table, chain, l, g) /\ ComposeChain(table, chain) = g[l]
  BY ComposeChainFolds
<1>2. PICK m \in Nat : m = l + 1 /\ m = Len(longer) /\ m # 0 /\ 1 <= l /\ l <= m /\ l \in 1..(m - 1)
  OBVIOUS
<1>3. PICK j : AreFolds(table, longer, m, j) /\ ComposeChain(table, longer) = j[m]
  BY <1>2, ComposeChainFolds
<1>4. g[l] = j[l]
  BY <1>1, <1>2, <1>3, FoldsAgree
<1>5. j[l + 1] = FoldLeg(table, j[l], longer[l + 1])
  BY <1>2, <1>3 DEF AreFolds
<1> QED
  BY <1>1, <1>2, <1>3, <1>4, <1>5

(* A chain of one relation is that relation.                                *)
LEMMA OneLeg ==
    ASSUME NEW table, NEW chain, Len(chain) = 1
    PROVE  ComposeChain(table, chain) = Begins(chain[1])
<1>1. PICK l \in Nat : l = 1 /\ l = Len(chain) /\ l # 0
  OBVIOUS
<1>2. PICK g : AreFolds(table, chain, l, g) /\ ComposeChain(table, chain) = g[l]
  BY <1>1, ComposeChainFolds
<1> QED
  BY <1>1, <1>2 DEF AreFolds

(* What a chain composes to, one relation after another.                    *)
AndOn(table, r, next) == IF r = Escalate THEN Escalate ELSE ComposeRelations(table, r, next)

AreCompositions(table, chain, l, g) ==
    g[1] = chain[1] /\ \A k \in 1..(l - 1) : g[k + 1] = AndOn(table, g[k], chain[k + 1])

(* The recursive function inside Composition is defined by its equation.    *)
LEMMA CompositionFolds ==
    ASSUME NEW table, NEW chain, NEW l \in Nat, l = Len(chain)
    PROVE  /\ l = 0 => Composition(table, chain) = NoRelation
           /\ l # 0 => \E g : AreCompositions(table, chain, l, g) /\ Composition(table, chain) = g[l]
<1> DEFINE upTo[k \in 0..Len(chain)] ==
            CASE k = 0 -> NoRelation
              [] k = 1 -> chain[1]
              [] k > 1 -> IF upTo[k - 1] = Escalate THEN Escalate
                          ELSE ComposeRelations(table, upTo[k - 1], chain[k])
           Value(e, k) == CASE k = 0 -> NoRelation
                            [] k = 1 -> chain[1]
                            [] k > 1 -> AndOn(table, e, chain[k])
<1>1. Composition(table, chain) = upTo[Len(chain)]
  BY DEF Composition
<1>2. PICK V : V = {chain[k] : k \in 1..l} \cup {table[q] : q \in DOMAIN table}
                   \cup {NoRelation, Escalate}
  OBVIOUS
<1>3. ASSUME NEW a \in V, NEW k \in 0..l PROVE Value(a, k) \in V
  <2>1. AndOn(table, a, chain[k]) \in V
    BY <1>2 DEF AndOn, ComposeRelations
  <2>2. k = 0 \/ k = 1 \/ k > 1
    OBVIOUS
  <2> QED
    BY <1>2, <2>1, <2>2
<1>4. PICK G : G = [q \in Nat \X V |-> IF q[1] + 1 \in 0..l THEN Value(q[2], q[1] + 1) ELSE q[2]]
  OBVIOUS
<1>5. G \in [Nat \X V -> V] /\ NoRelation \in V
  <2>1. ASSUME NEW n \in Nat, NEW a \in V
        PROVE  (IF n + 1 \in 0..l THEN Value(a, n + 1) ELSE a) \in V
    BY <1>3
  <2> HIDE DEF Value
  <2> QED
    BY <1>2, <1>4, <2>1
<1>6. PICK f : Stepped(V, NoRelation, G, f)
  BY <1>5, SteppedExists
<1>7. ASSUME NEW n \in Nat, n + 1 \in 0..l PROVE f[n + 1] = Value(f[n], n + 1)
  <2>1. f[n] \in V /\ f[n + 1] = G[<<n, f[n]>>] /\ <<n, f[n]>> \in Nat \X V
    BY <1>6 DEF Stepped
  <2> HIDE DEF Value
  <2> QED
    BY <1>4, <1>7, <2>1
<1>8. PICK g : g = [k \in 0..Len(chain) |-> f[k]]
  OBVIOUS
<1>9. g = [k \in 0..Len(chain) |->
             CASE k = 0 -> NoRelation
               [] k = 1 -> chain[1]
               [] k > 1 -> IF g[k - 1] = Escalate THEN Escalate
                           ELSE ComposeRelations(table, g[k - 1], chain[k])]
  <2>1. ASSUME NEW k \in 0..l
        PROVE  f[k] = CASE k = 0 -> NoRelation
                        [] k = 1 -> chain[1]
                        [] k > 1 -> IF g[k - 1] = Escalate THEN Escalate
                                    ELSE ComposeRelations(table, g[k - 1], chain[k])
    <3>1. CASE k = 0
      BY <1>6, <3>1 DEF Stepped
    <3>2. CASE k # 0
      <4>1. PICK n \in Nat : n + 1 = k /\ n = k - 1 /\ n \in 0..l
        <5>1. k - 1 \in Nat /\ (k - 1) + 1 = k /\ k - 1 \in 0..l
          BY <3>2
        <5> QED
          BY <5>1
      <4>2. f[k] = Value(f[n], k)
        BY <1>7, <4>1
      <4>3. g[k - 1] = f[n]
        BY <1>8, <4>1
      <4>4. k = 1 \/ k > 1
        BY <3>2
      <4> QED
        BY <3>2, <4>2, <4>3, <4>4 DEF AndOn
    <3> QED
      BY <3>1, <3>2
  <2> QED
    BY <1>8, <2>1
<1>10. upTo = [k \in 0..Len(chain) |->
             CASE k = 0 -> NoRelation
               [] k = 1 -> chain[1]
               [] k > 1 -> IF upTo[k - 1] = Escalate THEN Escalate
                           ELSE ComposeRelations(table, upTo[k - 1], chain[k])]
  BY <1>9
<1> HIDE DEF upTo, Value
<1>11. upTo[0] = NoRelation
  BY <1>10
<1>12. ASSUME l # 0 PROVE AreCompositions(table, chain, l, upTo)
  <2>1. upTo[1] = chain[1]
    BY <1>10, <1>12
  <2>2. ASSUME NEW k \in 1..(l - 1) PROVE upTo[k + 1] = AndOn(table, upTo[k], chain[k + 1])
    <3>1. k + 1 \in 0..l /\ k + 1 # 1 /\ k + 1 # 0 /\ k + 1 > 1 /\ (k + 1) - 1 = k
      OBVIOUS
    <3> QED
      BY <1>10, <3>1 DEF AndOn
  <2> QED
    BY <2>1, <2>2 DEF AreCompositions
<1> QED
  BY <1>1, <1>11, <1>12

(* The fold remembers that it was contested exactly where the composition is*)
(* contested for good, and else they are one.                               *)
Agree(acc, r) == (acc.escalated <=> r = Escalate) /\ (~acc.escalated => acc.relation = r)
                 /\ acc.escalated \in BOOLEAN

(* A leg keeps them in agreement.                                           *)
LEMMA LegAgrees ==
    ASSUME NEW table, NEW acc, NEW r, NEW next, Agree(acc, r)
    PROVE  Agree(FoldLeg(table, acc, next), AndOn(table, r, next))
<1>1. CASE acc.escalated
  BY <1>1 DEF Agree, FoldLeg, AndOn
<1>2. CASE ~acc.escalated
  BY <1>2 DEF Agree, FoldLeg, AndOn
<1> QED
  BY <1>1, <1>2

(* So the fold and the composition agree on every chain.                    *)
LEMMA ChainIsComposed ==
    ASSUME NEW table, NEW chain, IsSeq(chain),
           \A k \in 1..Len(chain) : chain[k] # Escalate
    PROVE  Agree(ComposeChain(table, chain), Composition(table, chain))
<1>1. PICK l \in Nat : l = Len(chain)
  BY LengthAndDomain
<1>2. CASE l = 0
  <2>1. Composition(table, chain) = NoRelation
    BY <1>1, <1>2, CompositionFolds
  <2>2. chain = <<>>
    <3>1. PICK T : chain \in Seq(T)
      BY DEF IsSeq
    <3> QED
      BY <1>1, <1>2, <3>1, EmptySeq
  <2> QED
    BY <2>1, <2>2, MarkersAssumption DEF ComposeChain, Agree
<1>3. CASE l # 0
  <2>1. PICK g : AreFolds(table, chain, l, g) /\ ComposeChain(table, chain) = g[l]
    BY <1>1, <1>3, ComposeChainFolds
  <2>2. PICK j : AreCompositions(table, chain, l, j) /\ Composition(table, chain) = j[l]
    BY <1>1, <1>3, CompositionFolds
  <2>3. PICK S : S = {n \in Nat : n + 1 <= l => Agree(g[n + 1], j[n + 1])}
    OBVIOUS
  <2>4. 0 \in S
    <3>1. chain[1] # Escalate
      BY <1>1, <1>3
    <3>2. Agree(g[1], j[1])
      BY <2>1, <2>2, <3>1 DEF AreFolds, AreCompositions, Agree, Begins
    <3> QED
      BY <2>3, <3>2
  <2>5. ASSUME NEW n \in Nat, n \in S PROVE n + 1 \in S
    <3>1. ASSUME (n + 1) + 1 <= l PROVE Agree(g[(n + 1) + 1], j[(n + 1) + 1])
      <4>1. PICK k : k = n + 1 /\ k \in 1..(l - 1)
        BY <3>1
      <4>2. Agree(g[k], j[k])
        BY <2>3, <2>5, <3>1, <4>1
      <4>3. /\ g[k + 1] = FoldLeg(table, g[k], chain[k + 1])
            /\ j[k + 1] = AndOn(table, j[k], chain[k + 1])
        BY <2>1, <2>2, <4>1 DEF AreFolds, AreCompositions
      <4> QED
        BY <4>1, <4>2, <4>3, LegAgrees
    <3> QED
      BY <2>3, <3>1
  <2>6. \A n \in Nat : n \in S
    BY <2>4, <2>5, AllNats
  <2>7. PICK n \in Nat : n + 1 = l
    <3>1. l - 1 \in Nat /\ (l - 1) + 1 = l
      BY <1>3
    <3> QED
      BY <3>1
  <2>8. Agree(g[l], j[l])
    <3>1. n \in S /\ n + 1 <= l
      BY <2>6, <2>7
    <3>2. Agree(g[n + 1], j[n + 1])
      BY <2>3, <3>1
    <3> QED
      BY <2>7, <3>2
  <2> QED
    BY <2>1, <2>2, <2>8
<1> QED
  BY <1>2, <1>3

(* A contested chain stays open, and no relation is read from an algebra    *)
(* that was not extracted.                                                  *)
RelationsAnswered ==
    \A i \in AskedIn("relational") :
        LET c     == Case.stages[i].condition
            whole == Composition(proposal.content.table, c.chain)
        IN  outcomes[i] = IF built.status # "extracted" \/ whole = Escalate THEN "open"
                          ELSE Decided(whole # NoRelation /\ whole = c.expect)

(* The recorded verdicts are those of the compositions.                     *)
LEMMA RelationsAre ==
    ASSUME IInv
    PROVE  RelationsAnswered
<1> DEFINE p == proposal.content
<1>0. "relational" \in Dimensions /\ NoDimension # "relational"
  BY DimensionsAssumption DEF Dimensions
<1>1. ASSUME NEW i \in AskedIn("relational")
      PROVE  LET c     == Case.stages[i].condition
                 whole == Composition(p.table, c.chain)
             IN  outcomes[i] = IF built.status # "extracted" \/ whole = Escalate THEN "open"
                               ELSE Decided(whole # NoRelation /\ whole = c.expect)
  <2>1. PICK c, f : c = Case.stages[i].condition /\ f = FactsFrom(proposal, built)
    OBVIOUS
  <2>2. /\ proposal.harness = "relational"
        /\ \E k \in DOMAIN Proposals : proposal \in Proposals[k]
        /\ i \in 1..Len(proposal.case.stages) /\ proposal.case.stages[i].kind = "built"
        /\ c = proposal.case.stages[i].condition
        /\ Governing(c) = "relational" /\ outcomes[i] = SubsumeAcross(c, f, {})
    BY <1>0, <2>1, AskedOfGraphs
  <2>3. p.table # NoAlgebra /\ IsSeq(c.chain) /\ Escalate \notin Range(c.chain)
    BY <2>2, AlgebrasAssumption
  <2>4. f.relations = IF built.status = "extracted" THEN p.table ELSE NoAlgebra
    BY <2>1, <2>2 DEF FactsFrom, NoFacts
  <2>5. outcomes[i] = EvalRelational(c, f)
    BY <1>0, <2>2 DEF SubsumeAcross
  <2>6. Len(c.chain) \in Nat /\ \A k \in 1..Len(c.chain) : c.chain[k] # Escalate
    BY <2>3, LengthAndDomain
  <2>7. Agree(ComposeChain(p.table, c.chain), Composition(p.table, c.chain))
    BY <2>3, <2>6, ChainIsComposed
  <2> HIDE DEF p
  <2>8. CASE built.status # "extracted"
    BY <2>1, <2>4, <2>5, <2>8 DEF EvalRelational
  <2>9. CASE built.status = "extracted"
    BY <2>1, <2>3, <2>4, <2>5, <2>7, <2>9 DEF EvalRelational, Agree
  <2> QED
    BY <2>8, <2>9
<1> QED
  BY <1>1 DEF RelationsAnswered

-----------------------------------------------------------------------------
(* The search for a cycle: when it finds one from a start, the start leads  *)
(* to it.                                                                   *)

Circular(R, start) ==
    \E x, y : <<x, y>> \in R /\ x \in LeadsTo(R, start) /\ x \in LeadsTo(R, y)

OnlyAlong(N, succ, R) == \A x \in N : \A y : Follows(succ, x, y) => <<x, y>> \in R

(* Each node on the stack is led to from the start and from those below it, *)
(* and what is ahead of it follows it.                                      *)
Tracks(R, start, s) ==
    /\ \A i \in 1..Height(s) : s.stack[i].node \in LeadsTo(R, start)
    /\ \A i, j \in 1..Height(s) : i <= j => s.stack[j].node \in LeadsTo(R, s.stack[i].node)
    /\ \A i \in 1..Height(s) : \A y \in Ahead(s, i) : <<s.stack[i].node, y>> \in R

(* Leaving a node takes the top off the stack.                              *)
LEMMA LeavingTracks ==
    ASSUME NEW R, NEW start, NEW s, Height(s) \in Nat \ {0}, Tracks(R, start, s),
           NEW t, NEW x, Leaves(s, t, x)
    PROVE  Tracks(R, start, t)
<1>1. PICK L \in Nat : L = Height(s) /\ Height(t) = L - 1
  BY DEF Leaves
<1>2. \A i \in 1..(L - 1) : i \in 1..L /\ t.stack[i] = s.stack[i]
  BY <1>1 DEF Leaves
<1>3. \A i \in 1..(L - 1) : Ahead(t, i) = Ahead(s, i)
  BY <1>2 DEF Ahead
<1> QED
  BY <1>1, <1>2, <1>3 DEF Tracks

(* Looking at a successor takes it off what is ahead of the top.            *)
LEMMA LookingAhead ==
    ASSUME NEW s, NEW L \in Nat \ {0}, L = Height(s), NEW t, NEW y, Looks(s, t, y)
    PROVE  /\ \A i \in 1..L : t.stack[i].node = s.stack[i].node /\ Ahead(t, i) \subseteq Ahead(s, i)
           /\ y \in Ahead(s, L)
<1>1. Ahead(s, L) = Ahead(t, L) \cup {y}
  BY DEF Looks
<1>2. \A i \in 1..L : i # L => t.stack[i] = s.stack[i]
  BY DEF Looks
<1>3. \A i \in 1..L : i # L => Ahead(t, i) = Ahead(s, i)
  BY <1>2 DEF Ahead
<1>4. \A i \in 1..L : t.stack[i].node = s.stack[i].node
  BY DEF Looks
<1>5. \A i \in 1..L : Ahead(t, i) \subseteq Ahead(s, i)
  BY <1>1, <1>3
<1> QED
  BY <1>1, <1>4, <1>5

(* Passing a node over leaves the stack as it is.                           *)
LEMMA PassingTracks ==
    ASSUME NEW R, NEW start, NEW s, Height(s) \in Nat \ {0}, Tracks(R, start, s),
           NEW t, NEW y, Passes(s, t, y)
    PROVE  Tracks(R, start, t)
<1>1. PICK L \in Nat \ {0} : L = Height(s) /\ Height(t) = L
  BY DEF Passes
<1>2. \A i \in 1..L : t.stack[i].node = s.stack[i].node /\ Ahead(t, i) \subseteq Ahead(s, i)
  BY <1>1, LookingAhead DEF Passes
<1> QED
  BY <1>1, <1>2 DEF Tracks

(* A node is entered from the top, which leads to it.                       *)
LEMMA EnteringTracks ==
    ASSUME NEW N, NEW succ \in [N -> Seq(N)], NEW R, IsFiniteSet(R), OnlyAlong(N, succ, R),
           NEW start, NEW s, Height(s) \in Nat \ {0}, Tracks(R, start, s),
           NEW t, NEW y \in N, Enters(succ, s, t, y)
    PROVE  Tracks(R, start, t)
<1>1. PICK L \in Nat \ {0} : L = Height(s) /\ Height(t) = L + 1
  BY DEF Enters
<1>2. /\ \A i \in 1..L : t.stack[i].node = s.stack[i].node /\ Ahead(t, i) \subseteq Ahead(s, i)
      /\ y \in Ahead(s, L)
  BY <1>1, LookingAhead DEF Enters
<1>3. t.stack[L + 1].node = y /\ t.stack[L + 1].rest = succ[y]
  <2>1. PICK k : k = L + 1
    OBVIOUS
  <2>2. t.stack[k] = [node |-> y, rest |-> succ[y]]
    BY <1>1, <2>1 DEF Enters
  <2> QED
    BY <2>1, <2>2
<1>4. \A z \in Ahead(t, L + 1) : <<y, z>> \in R
  BY <1>3 DEF Ahead, OnlyAlong, Follows
<1>5. \A i : i \in 1..(L + 1) => i \in 1..L \/ i = L + 1
  OBVIOUS
<1>6. <<s.stack[L].node, y>> \in R /\ L \in 1..L
  BY <1>1, <1>2 DEF Tracks
<1>7. \A b : s.stack[L].node \in LeadsTo(R, b) => y \in LeadsTo(R, b)
  BY <1>6, LeadsToProperties
<1>8. y \in LeadsTo(R, y)
  BY LeadsToProperties
<1>9. \A i \in 1..L : y \in LeadsTo(R, s.stack[i].node)
  <2>1. ASSUME NEW i \in 1..L PROVE i <= L
    OBVIOUS
  <2> QED
    BY <1>1, <1>6, <1>7, <2>1 DEF Tracks
<1>10. ASSUME NEW i \in 1..(L + 1) PROVE t.stack[i].node \in LeadsTo(R, start)
  BY <1>1, <1>2, <1>3, <1>5, <1>6, <1>7 DEF Tracks
<1>11. ASSUME NEW i \in 1..(L + 1), NEW j \in 1..(L + 1), i <= j
       PROVE  t.stack[j].node \in LeadsTo(R, t.stack[i].node)
  <2>1. CASE i \in 1..L /\ j \in 1..L
    BY <1>1, <1>2, <1>11, <2>1 DEF Tracks
  <2>2. CASE i \in 1..L /\ j = L + 1
    BY <1>2, <1>3, <1>9, <2>2
  <2>3. CASE i = L + 1
    <3>1. j = L + 1
      BY <1>11, <2>3
    <3> QED
      BY <1>3, <1>8, <2>3, <3>1
  <2> QED
    BY <1>5, <2>1, <2>2, <2>3
<1>12. ASSUME NEW i \in 1..(L + 1), NEW z \in Ahead(t, i) PROVE <<t.stack[i].node, z>> \in R
  <2>1. CASE i \in 1..L
    BY <1>1, <1>2, <1>12, <2>1 DEF Tracks
  <2>2. CASE i = L + 1
    BY <1>3, <1>4, <1>12, <2>2
  <2> QED
    BY <1>5, <2>1, <2>2
<1> QED
  BY <1>1, <1>10, <1>11, <1>12 DEF Tracks

(* A cycle is closed by an edge to a node of the stack, which leads back.   *)
LEMMA ClosingIsCircular ==
    ASSUME NEW N, NEW succ, NEW R, NEW start, NEW s, Height(s) \in Nat \ {0},
           Tracks(R, start, s), Trailing(N, succ, s), NEW t, NEW y \in N, Closes(s, t, y)
    PROVE  Circular(R, start)
<1>1. PICK L \in Nat \ {0} : L = Height(s) /\ L \in 1..L
  OBVIOUS
<1>2. PICK i \in 1..L : s.stack[i].node = y
  BY <1>1 DEF Closes, Trailing
<1>3. PICK x : x = s.stack[L].node
  OBVIOUS
<1>4. <<x, y>> \in R /\ x \in LeadsTo(R, start)
  BY <1>1, <1>3 DEF Closes, Tracks
<1>5. x \in LeadsTo(R, y)
  <2>1. i <= L
    BY <1>2
  <2> QED
    BY <1>1, <1>2, <1>3, <2>1 DEF Tracks
<1> QED
  BY <1>4, <1>5 DEF Circular

(* What every state of a search from start rests on.                        *)
Guided(N, succ, R, start, u) ==
    /\ u \in SearchStates(N)
    /\ \/ u.found /\ Circular(R, start)
       \/ ~u.found /\ Trailing(N, succ, u) /\ Closed(N, succ, u) /\ Tracks(R, start, u)

(* Each step of the search keeps it.                                        *)
LEMMA StepsAreGuided ==
    ASSUME NEW N, NEW succ \in [N -> Seq(N)], NEW R, IsFiniteSet(R), OnlyAlong(N, succ, R),
           NEW start, NEW u, Guided(N, succ, R, start, u), NEW t, t = SearchStep(succ, u)
    PROVE  Guided(N, succ, R, start, t)
<1>1. u \in SearchStates(N) /\ t \in SearchStates(N)
  BY StepIsState DEF Guided
<1>2. CASE u.found \/ u.stack = <<>>
  BY <1>2 DEF SearchStep
<1>3. CASE ~u.found /\ u.stack # <<>>
  <2>1. Trailing(N, succ, u) /\ Closed(N, succ, u) /\ Tracks(R, start, u)
    BY <1>3 DEF Guided
  <2>2. /\ Height(u) \in Nat \ {0}
        /\ \/ ~t.found /\ Leaves(u, t, u.stack[Height(u)].node)
           \/ ~t.found /\ \E y \in N : Passes(u, t, y) \/ Enters(succ, u, t, y)
           \/ t.found /\ \E y \in N : Closes(u, t, y)
    BY <1>1, <1>3, SearchOutcomes
  <2>3. CASE t.found
    BY <1>1, <2>1, <2>2, <2>3, ClosingIsCircular DEF Guided
  <2>4. CASE ~t.found
    <3>1. Trailing(N, succ, t) /\ Closed(N, succ, t)
      BY <1>1, <1>3, <2>1, <2>4, SearchKeeps
    <3>2. Tracks(R, start, t)
      BY <2>1, <2>2, <2>4, LeavingTracks, PassingTracks, EnteringTracks
    <3> QED
      BY <1>1, <2>4, <3>1, <3>2 DEF Guided
  <2> QED
    BY <2>3, <2>4
<1> QED
  BY <1>2, <1>3

(* The first state.                                                         *)
LEMMA BeginsGuided ==
    ASSUME NEW N, IsFiniteSet(N), NEW succ \in [N -> Seq(N)],
           NEW R, IsFiniteSet(R), OnlyAlong(N, succ, R), NEW start \in N,
           NEW s, s = NothingSearched(succ), NEW d, d = Begun(s, succ, start)
    PROVE  Guided(N, succ, R, start, d)
<1>1. s \in SearchStates(N) /\ Idle(N, succ, s) /\ ~s.found /\ s.colour[start] = "white"
  <2>1. s \in Settled(N, succ) /\ s.found = FALSE /\ s.colour = [x \in N |-> "white"]
    BY NothingIsSettled DEF NothingSearched
  <2> QED
    BY <2>1 DEF Settled
<1>2. PICK B : B = Width(N, succ)
  OBVIOUS
<1>3. B \in Nat /\ \A x \in N : Len(succ[x]) < B
  BY <1>2, SuccessorsBounded
<1>4. PICK K \in Nat : K = Enough(N, B)
  <2>1. PICK c \in Nat : c = Cardinality(N)
    BY FS_CardinalityType
  <2>2. 2 * c * B \in Nat
    BY <1>3
  <2> QED
    BY <2>1, <2>2 DEF Enough
<1>5. Trailing(N, succ, d) /\ Closed(N, succ, d)
  BY <1>1, <1>3, <1>4, BegunHolds
<1>6. /\ d \in SearchStates(N) /\ ~d.found
      /\ d.stack = <<[node |-> start, rest |-> succ[start]]>>
  BY <1>1, BegunIsState
<1>7. /\ Height(d) = 1 /\ d.stack[1].node = start /\ d.stack[1].rest = succ[start]
      /\ \A i : i \in 1..1 <=> i = 1
  BY <1>6 DEF Height
<1>8. \A y \in Ahead(d, 1) : <<start, y>> \in R
  BY <1>7 DEF Ahead, OnlyAlong, Follows
<1>9. start \in LeadsTo(R, start)
  BY LeadsToProperties
<1>10. Tracks(R, start, d)
  BY <1>7, <1>8, <1>9 DEF Tracks
<1> QED
  BY <1>5, <1>6, <1>10 DEF Guided

(* What the search from a single start finds.                               *)
LEMMA SearchFindsCycles ==
    ASSUME NEW N, IsFiniteSet(N), NEW succ \in [N -> Seq(N)],
           NEW R, IsFiniteSet(R), OnlyAlong(N, succ, R), NEW start \in N,
           NEW s, s = NothingSearched(succ), SearchFrom(succ, s, start).found
    PROVE  Circular(R, start)
<1>1. s \in SearchStates(N) /\ ~s.found /\ s.colour[start] = "white"
  <2>1. s \in Settled(N, succ) /\ s.found = FALSE /\ s.colour = [x \in N |-> "white"]
    BY NothingIsSettled DEF NothingSearched
  <2> QED
    BY <2>1 DEF Settled
<1>2. PICK B \in Nat : B = Width(N, succ)
  <2>1. PICK b : b = Width(N, succ)
    OBVIOUS
  <2>2. b \in Nat
    BY <2>1, SuccessorsBounded
  <2> QED
    BY <2>1, <2>2
<1>3. PICK K \in Nat : K = Enough(N, B)
  <2>1. PICK c \in Nat : c = Cardinality(N)
    BY FS_CardinalityType
  <2>2. 2 * c * B \in Nat
    <3>1. \A m, k \in Nat : 2 * m * k \in Nat
      OBVIOUS
    <3> QED
      BY <3>1
  <2> QED
    BY <2>1, <2>2 DEF Enough
<1>4. PICK f : /\ AreSearchSteps(succ, Begun(s, succ, start), f)
               /\ SearchFrom(succ, s, start) = f[K]
  <2>1. ReachedIn(succ, s, start, K)
    <3>1. K = Enough(N, Width(N, succ))
      BY <1>2, <1>3
    <3> QED
      BY <1>1, <3>1, SearchRuns
  <2> QED
    BY <2>1 DEF ReachedIn
<1>5. PICK T : T = {u \in SearchStates(N) : Guided(N, succ, R, start, u)}
  OBVIOUS
<1>6. f[0] \in T
  <2>1. Guided(N, succ, R, start, f[0])
    BY <1>4, BeginsGuided DEF AreSearchSteps
  <2> QED
    BY <1>5, <2>1 DEF Guided
<1>7. \A n \in Nat : f[n] \in T => f[n + 1] \in T
  <2>1. ASSUME NEW u \in T PROVE SearchStep(succ, u) \in T
    <3>1. Guided(N, succ, R, start, SearchStep(succ, u))
      BY <1>5, StepsAreGuided
    <3> QED
      BY <1>5, <3>1 DEF Guided
  <2> QED
    BY <1>4, <2>1 DEF AreSearchSteps
<1>8. \A n \in Nat : f[n] \in T
  BY <1>6, <1>7, StaysIn
<1>9. Guided(N, succ, R, start, f[K]) /\ f[K].found
  BY <1>3, <1>4, <1>5, <1>8
<1> QED
  BY <1>9 DEF Guided

(* A cycle that the start leads to is found: the black nodes would have no  *)
(* source.                                                                  *)
LEMMA SearchMissesNone ==
    ASSUME NEW N, IsFiniteSet(N), NEW succ \in [N -> Seq(N)],
           NEW R, IsFiniteSet(R), Along(succ, R), NEW start \in N, Circular(R, start),
           NEW s, s = NothingSearched(succ)
    PROVE  SearchFrom(succ, s, start).found
<1> SUFFICES ASSUME ~SearchFrom(succ, s, start).found PROVE FALSE
  OBVIOUS
<1>1. PICK t : t = SearchFrom(succ, s, start)
  OBVIOUS
<1>2. Idle(N, succ, t) /\ t.colour[start] = "black"
  <2>1. s \in Settled(N, succ)
    BY NothingIsSettled
  <2>2. s \in SearchStates(N) /\ (s.found \/ Idle(N, succ, s))
    BY <2>1 DEF Settled
  <2>3. Keeps(N, succ, s, start, t)
    BY <1>1, <2>2, SearchFromKeeps
  <2> QED
    BY <1>1, <2>3 DEF Keeps
<1>3. PICK B : B = {n \in N : t.colour[n] = "black"}
  OBVIOUS
<1>4. /\ \A x \in B, y \in N : Follows(succ, x, y) => y \in B
      /\ \A X \in SUBSET B : X # {} => \E x \in X : \A y \in X : ~Follows(succ, y, x)
  BY <1>2, <1>3 DEF Idle, Closed
<1>5. ASSUME NEW x \in B, NEW y, <<x, y>> \in R PROVE y \in B
  <2>1. Follows(succ, x, y)
    BY <1>5 DEF Along
  <2>2. succ[x] \in Seq(N)
    BY <1>3
  <2>3. y \in N
    BY <2>1, <2>2 DEF Follows
  <2> QED
    BY <1>4, <2>1, <2>3
<1>6. \A b \in B : LeadsTo(R, b) \subseteq B
  BY <1>5, LeadsToProperties
<1>7. PICK x, y : <<x, y>> \in R /\ x \in LeadsTo(R, start) /\ x \in LeadsTo(R, y)
  BY DEF Circular
<1>8. y \in B
  BY <1>2, <1>3, <1>5, <1>6, <1>7
<1>9. PICK S : S = {e[2] : e \in R}
  OBVIOUS
<1>10. IsFiniteSet(S)
  <2>1. PICK g : g = [e \in R |-> e[2]]
    OBVIOUS
  <2>2. g \in Surjection(R, S)
    BY <1>9, <2>1 DEF Surjection
  <2> QED
    BY <2>2, FS_Surjection
<1>11. \A a, b : <<a, b>> \in R => b \in S
  <2>1. \A a, b : <<a, b>>[2] = b
    OBVIOUS
  <2> QED
    BY <1>9, <2>1
<1>12. LeadsTo(R, y) = Closure(S, R, y)
  BY <1>9 DEF LeadsTo
<1>13. PICK X : /\ X # {} /\ \A v \in X : \E w \in X : <<w, v>> \in R
                /\ X \subseteq Closure(S, R, y)
  <2>1. \E X : /\ X # {} /\ \A v \in X : \E w \in X : <<w, v>> \in R
               /\ \A v \in X : \E w : <<v, w>> \in R
               /\ X \subseteq Closure(S, R, y)
    <3>1. x \in Closure(S, R, y)
      BY <1>7, <1>12
    <3> QED
      BY <1>7, <1>10, <1>11, <3>1, CycleHasNoSource
  <2> QED
    BY <2>1
<1>14. X \in SUBSET B
  BY <1>6, <1>8, <1>12, <1>13
<1>15. PICK v \in X : \A w \in X : ~Follows(succ, w, v)
  BY <1>4, <1>13, <1>14
<1> QED
  BY <1>13, <1>15 DEF Along

(* The search from one start finds a cycle exactly when it leads to one.    *)
LEMMA OneStart ==
    ASSUME NEW N, IsFiniteSet(N), NEW succ \in [N -> Seq(N)],
           NEW R, IsFiniteSet(R), OnlyAlong(N, succ, R), Along(succ, R), NEW start \in N
    PROVE  HasCycle(succ, <<start>>) <=> Circular(R, start)
<1>1. PICK st : st = <<start>> /\ st \in Seq(N) /\ Len(st) = 1 /\ st[1] = start
  <2>1. <<start>> \in Seq(N) /\ Len(<<start>>) = 1 /\ <<start>>[1] = start
    OBVIOUS
  <2> QED
    BY <2>1
<1>2. PICK f : AreSearches(succ, st, f) /\ HasCycle(succ, st) = f[Len(st)].found
  BY <1>1, HasCycleSearches
<1>3. PICK s : s = NothingSearched(succ)
  OBVIOUS
<1>4. HasCycle(succ, st) = SearchFrom(succ, s, start).found
  <2>1. f[0] = s /\ f[1] = SearchFrom(succ, f[1 - 1], st[1]) /\ 1 - 1 = 0
    BY <1>1, <1>2, <1>3 DEF AreSearches
  <2> QED
    BY <1>1, <1>2, <2>1
<1>5. SearchFrom(succ, s, start).found => Circular(R, start)
  BY <1>3, SearchFindsCycles
<1>6. Circular(R, start) => SearchFrom(succ, s, start).found
  BY <1>3, SearchMissesNone
<1>7. SearchFrom(succ, s, start).found \in BOOLEAN
  <2>1. s \in Settled(N, succ)
    BY <1>3, NothingIsSettled
  <2>2. s \in SearchStates(N) /\ (s.found \/ Idle(N, succ, s))
    BY <2>1 DEF Settled
  <2>3. Keeps(N, succ, s, start, SearchFrom(succ, s, start))
    BY <2>2, SearchFromKeeps
  <2> QED
    BY <2>3 DEF Keeps, SearchStates
<1> QED
  BY <1>1, <1>4, <1>5, <1>6, <1>7

(* The same of the edges of a definition.                                   *)
DefinitionNodes(edges) ==
    {edges[i].subject : i \in 1..Len(edges)} \cup {edges[i].object : i \in 1..Len(edges)}

DefinitionPairs(edges) == [i \in 1..Len(edges) |-> <<edges[i].subject, edges[i].object>>]

(* The cycle search of a definition answers whether its term leads to a     *)
(* cycle.                                                                   *)
LEMMA DefinitionCycles ==
    ASSUME NEW edges, Len(edges) \in Nat, NEW term, \E i \in 1..Len(edges) : edges[i].subject = term
    PROVE  LET cyclic == HasCycle(Successors(DefinitionNodes(edges), DefinitionPairs(edges)), <<term>>)
           IN  cyclic <=> Circular(Links(edges), term)
<1>1. PICK n \in Nat : n = Len(edges)
  OBVIOUS
<1>2. PICK N, A, B : /\ N = DefinitionNodes(edges)
                     /\ A = {edges[i].subject : i \in 1..n} /\ B = {edges[i].object : i \in 1..n}
  OBVIOUS
<1>3. IsFiniteSet(N)
  <2>1. N = A \cup B
    BY <1>1, <1>2 DEF DefinitionNodes
  <2>2. [i \in 1..n |-> edges[i].subject] \in Surjection(1..n, A)
    BY <1>2 DEF Surjection
  <2>3. [i \in 1..n |-> edges[i].object] \in Surjection(1..n, B)
    BY <1>2 DEF Surjection
  <2>4. IsFiniteSet(1..n)
    BY FS_Interval
  <2>5. IsFiniteSet(A) /\ IsFiniteSet(B)
    BY <2>2, <2>3, <2>4, FS_Surjection
  <2> QED
    BY <2>1, <2>5, FS_Union
<1>4. PICK pairs : /\ pairs = DefinitionPairs(edges) /\ Len(pairs) = n
                   /\ \A i \in 1..n : pairs[i] = <<edges[i].subject, edges[i].object>>
  <2>1. PICK p, T : /\ p = [i \in 1..n |-> <<edges[i].subject, edges[i].object>>]
                    /\ T = {<<edges[i].subject, edges[i].object>> : i \in 1..n}
    OBVIOUS
  <2>2. p \in [1..n -> T]
    BY <2>1
  <2>3. Len(p) = n
    BY <2>2, IsSequence
  <2> QED
    BY <1>1, <2>1, <2>3 DEF DefinitionPairs
<1>5. \A i \in 1..n : /\ pairs[i][1] = edges[i].subject /\ pairs[i][2] = edges[i].object
                      /\ pairs[i][1] \in N /\ pairs[i][2] \in N
  BY <1>1, <1>2, <1>4 DEF DefinitionNodes
<1>6. PICK succ, R : succ = Successors(N, pairs) /\ R = Links(edges)
  OBVIOUS
<1>7. /\ succ \in [N -> Seq(N)]
      /\ \A i \in 1..n : pairs[i][1] \in N => Follows(succ, pairs[i][1], pairs[i][2])
      /\ \A x \in N : \A y : Follows(succ, x, y) =>
            \E i \in 1..n : pairs[i][1] = x /\ pairs[i][2] = y
  <2>1. Len(pairs) \in Nat /\ \A i \in 1..Len(pairs) : pairs[i][2] \in N
    BY <1>4, <1>5
  <2>2. /\ succ \in [N -> Seq(N)]
        /\ \A i \in 1..Len(pairs) : pairs[i][1] \in N => Follows(succ, pairs[i][1], pairs[i][2])
        /\ \A x \in N : \A y : Follows(succ, x, y) =>
              \E i \in 1..Len(pairs) : pairs[i][1] = x /\ pairs[i][2] = y
    BY <1>6, <2>1, SuccessorsAre
  <2> QED
    BY <1>4, <2>2
<1>8. /\ IsFiniteSet(R)
      /\ \A x, y : <<x, y>> \in R <=> \E i \in 1..n : edges[i].subject = x /\ edges[i].object = y
  BY <1>1, <1>6, LinksAre
<1>9. OnlyAlong(N, succ, R)
  <2>1. ASSUME NEW x \in N, NEW y, Follows(succ, x, y) PROVE <<x, y>> \in R
    <3>1. PICK i \in 1..n : pairs[i][1] = x /\ pairs[i][2] = y
      BY <1>7, <2>1
    <3>2. edges[i].subject = x /\ edges[i].object = y
      BY <1>5, <3>1
    <3> QED
      BY <1>8, <3>2
  <2> QED
    BY <2>1 DEF OnlyAlong
<1>10. Along(succ, R)
  <2>1. ASSUME NEW x, NEW y, <<x, y>> \in R PROVE Follows(succ, x, y)
    <3>1. PICK i \in 1..n : edges[i].subject = x /\ edges[i].object = y
      BY <1>8, <2>1
    <3>2. pairs[i][1] = x /\ pairs[i][2] = y /\ pairs[i][1] \in N
      BY <1>5, <3>1
    <3>3. Follows(succ, pairs[i][1], pairs[i][2])
      BY <1>7, <3>2
    <3> QED
      BY <3>2, <3>3
  <2> QED
    BY <2>1 DEF Along
<1>11. term \in N
  BY <1>1, <1>2 DEF DefinitionNodes
<1>12. HasCycle(succ, <<term>>) <=> Circular(R, term)
  BY <1>3, <1>7, <1>8, <1>9, <1>10, <1>11, OneStart
<1> QED
  BY <1>2, <1>4, <1>6, <1>12

-----------------------------------------------------------------------------
(* The chains of a definition, as Composed has them.                        *)

On(table, r, next) ==
    IF r \in {Escalate, NoRelation} THEN r ELSE ComposeRelations(table, r, next)

FirstChains(p) == {<<e.object, e.predicate>> : e \in {d \in Range(p.edges) : d.subject = p.term}}

Extended(p, seen) ==
    seen \cup UNION {{<<e.object, On(p.table, q[2], e.predicate)>> :
                          e \in {d \in Range(p.edges) : d.subject = q[1]}} : q \in seen}

AreChains(p, g) == g[0] = FirstChains(p) /\ \A n \in Nat : g[n + 1] = Extended(p, g[n])

(* The recursive function inside Composed is defined by its equation.       *)
LEMMA ComposedSteps ==
    ASSUME NEW p, NEW c \in Nat, c = Cardinality(Range(p.edges))
    PROVE  \E g : AreChains(p, g) /\ Composed(p) = g[c]
<1> DEFINE on(r, e) == IF r \in {Escalate, NoRelation} THEN r
                       ELSE ComposeRelations(p.table, r, e.predicate)
           edges    == Range(p.edges)
           grow[n \in Nat] ==
            IF n = 0 THEN {<<e.object, e.predicate>> : e \in {d \in edges : d.subject = p.term}}
            ELSE LET seen == grow[n - 1]
                 IN  seen \cup UNION {{<<e.object, on(q[2], e)>> :
                                           e \in {d \in edges : d.subject = q[1]}} : q \in seen}
<1>1. Composed(p) = grow[c]
  BY DEF Composed
<1>2. PICK V, W : /\ V = {e.object : e \in edges}
                  /\ W = {e.predicate : e \in edges} \cup {p.table[q] : q \in DOMAIN p.table}
                         \cup {NoRelation, Escalate}
  OBVIOUS
<1>3. PICK D : D = SUBSET (V \X W)
  OBVIOUS
<1>4. PICK G : G = [q \in Nat \X D |-> Extended(p, q[2])]
  OBVIOUS
<1>5. FirstChains(p) \in D
  BY <1>2, <1>3 DEF FirstChains
<1>6. ASSUME NEW s \in D PROVE Extended(p, s) \in D
  <2>1. ASSUME NEW q \in s, NEW e \in edges
        PROVE  <<e.object, On(p.table, q[2], e.predicate)>> \in V \X W
    <3>1. q[2] \in W
      BY <1>3
    <3>2. On(p.table, q[2], e.predicate) \in W
      BY <1>2, <3>1 DEF On, ComposeRelations
    <3>3. e.object \in V
      BY <1>2
    <3> QED
      BY <3>2, <3>3
  <2> HIDE DEF edges
  <2> QED
    BY <1>3, <2>1 DEF Extended, edges
<1>7. G \in [Nat \X D -> D]
  BY <1>4, <1>6
<1>8. PICK f : Stepped(D, FirstChains(p), G, f)
  BY <1>5, <1>7, SteppedExists
<1>9. ASSUME NEW n \in Nat PROVE f[n + 1] = Extended(p, f[n])
  <2>1. f[n] \in D /\ f[n + 1] = G[<<n, f[n]>>] /\ <<n, f[n]>> \in Nat \X D
    BY <1>8 DEF Stepped
  <2> QED
    BY <1>4, <2>1
<1>10. PICK g : g = [n \in Nat |-> f[n]]
  OBVIOUS
<1>11. g = [n \in Nat |->
            IF n = 0 THEN {<<e.object, e.predicate>> : e \in {d \in edges : d.subject = p.term}}
            ELSE LET seen == g[n - 1]
                 IN  seen \cup UNION {{<<e.object, on(q[2], e)>> :
                                           e \in {d \in edges : d.subject = q[1]}} : q \in seen}]
  <2>1. ASSUME NEW n \in Nat PROVE f[n] = IF n = 0 THEN FirstChains(p) ELSE Extended(p, g[n - 1])
    <3>1. CASE n = 0
      BY <1>8, <3>1 DEF Stepped
    <3>2. CASE n # 0
      <4>1. n - 1 \in Nat /\ (n - 1) + 1 = n
        BY <3>2
      <4> QED
        BY <1>9, <1>10, <3>2, <4>1
    <3> QED
      BY <3>1, <3>2
  <2> QED
    BY <1>10, <2>1 DEF FirstChains, Extended, On
<1>12. grow = [n \in Nat |->
            IF n = 0 THEN {<<e.object, e.predicate>> : e \in {d \in edges : d.subject = p.term}}
            ELSE LET seen == grow[n - 1]
                 IN  seen \cup UNION {{<<e.object, on(q[2], e)>> :
                                           e \in {d \in edges : d.subject = q[1]}} : q \in seen}]
  BY <1>11
<1> HIDE DEF grow
<1>13. grow[0] = FirstChains(p)
  BY <1>12 DEF FirstChains
<1>14. ASSUME NEW n \in Nat PROVE grow[n + 1] = Extended(p, grow[n])
  <2>1. n + 1 \in Nat /\ n + 1 # 0 /\ (n + 1) - 1 = n
    OBVIOUS
  <2> QED
    BY <1>12, <2>1 DEF Extended, On
<1> QED
  BY <1>1, <1>13, <1>14 DEF AreChains

(* The edges of an edge list.                                               *)
LEMMA EdgesAre ==
    ASSUME NEW edges, IsSeq(edges)
    PROVE  /\ Len(edges) \in Nat
           /\ \A e : e \in Range(edges) <=> \E i \in 1..Len(edges) : edges[i] = e
           /\ IsFiniteSet(Range(edges)) /\ Cardinality(Range(edges)) \in Nat
<1>1. PICK n \in Nat : n = Len(edges) /\ DOMAIN edges = 1..n
  BY DEF IsSeq
<1>2. PICK E : E = Range(edges)
  OBVIOUS
<1>3. \A e : e \in E <=> \E i \in 1..n : edges[i] = e
  BY <1>1, <1>2 DEF Range
<1>4. PICK g : g = [i \in 1..n |-> edges[i]]
  OBVIOUS
<1>5. g \in Surjection(1..n, E)
  BY <1>3, <1>4 DEF Surjection
<1>6. IsFiniteSet(E) /\ Cardinality(E) \in Nat
  BY <1>5, FS_Interval, FS_Surjection, FS_CardinalityType
<1> QED
  BY <1>1, <1>2, <1>3, <1>6

(* What is new at each step.                                                *)
Joins(p, seen, x) ==
    \E q \in seen : \E i \in 1..Len(p.edges) :
        /\ p.edges[i].subject = q[1]
        /\ x = <<p.edges[i].object, On(p.table, q[2], p.edges[i].predicate)>>

StartsWith(p, x) ==
    \E i \in 1..Len(p.edges) :
        p.edges[i].subject = p.term /\ x = <<p.edges[i].object, p.edges[i].predicate>>

(* The chains of a definition are these, step by step.                      *)
LEMMA ChainsGrow ==
    ASSUME NEW p, IsSeq(p.edges), NEW g, AreChains(p, g)
    PROVE  /\ \A x : x \in g[0] <=> StartsWith(p, x)
           /\ \A n \in Nat : \A x : x \in g[n + 1] <=> x \in g[n] \/ Joins(p, g[n], x)
<1>1. PICK edges, n : edges = p.edges /\ n = Len(edges) /\ n \in Nat
  BY EdgesAre
<1>2. \A e : e \in Range(edges) <=> \E i \in 1..n : edges[i] = e
  BY <1>1, EdgesAre
<1>3. ASSUME NEW x PROVE x \in g[0] <=> StartsWith(p, x)
  <2>1. x \in g[0] <=> \E e \in Range(edges) : e.subject = p.term /\ x = <<e.object, e.predicate>>
    BY <1>1 DEF AreChains, FirstChains
  <2> QED
    BY <1>1, <1>2, <2>1 DEF StartsWith
<1>4. ASSUME NEW k \in Nat, NEW x PROVE x \in g[k + 1] <=> x \in g[k] \/ Joins(p, g[k], x)
  <2>1. PICK S : S = g[k] /\ g[k + 1] = Extended(p, S)
    BY DEF AreChains
  <2>2. x \in Extended(p, S)
          <=> \/ x \in S
              \/ \E q \in S : \E e \in Range(edges) :
                    e.subject = q[1] /\ x = <<e.object, On(p.table, q[2], e.predicate)>>
    BY <1>1 DEF Extended
  <2>3. Joins(p, S, x)
          <=> \E q \in S : \E e \in Range(edges) :
                    e.subject = q[1] /\ x = <<e.object, On(p.table, q[2], e.predicate)>>
    BY <1>1, <1>2 DEF Joins
  <2> QED
    BY <2>1, <2>2, <2>3
<1> QED
  BY <1>3, <1>4

(* No step loses a chain.                                                   *)
LEMMA ChainsStay ==
    ASSUME NEW p, IsSeq(p.edges), NEW g, AreChains(p, g), NEW n \in Nat, NEW m \in 0..n
    PROVE  g[m] \subseteq g[n]
<1>1. PICK S : S = {k \in Nat : m <= k => g[m] \subseteq g[k]}
  OBVIOUS
<1>2. 0 \in S
  BY <1>1
<1>3. ASSUME NEW k \in Nat, k \in S PROVE k + 1 \in S
  <2>1. \A x : x \in g[k] => x \in g[k + 1]
    BY ChainsGrow
  <2>2. m <= k + 1 => m <= k \/ m = k + 1
    OBVIOUS
  <2> QED
    BY <1>1, <1>3, <2>1, <2>2
<1>4. \A k \in Nat : k \in S
  BY <1>2, <1>3, AllNats
<1> QED
  BY <1>1, <1>4

-----------------------------------------------------------------------------
(* What a path composes to.                                                 *)

Predicates(edges, q) == [k \in 1..Len(q) |-> edges[q[k]].predicate]

Told(edges, table, q) == ComposeChain(table, Predicates(edges, q))

Worth(c) == IF c.escalated THEN Escalate ELSE c.relation

(* The relation of a path is the marker of a contested or an absent         *)
(* composition only where a composition was contested or absent.            *)
Unmarked(edges, table) ==
    /\ \A i \in 1..Len(edges) : edges[i].predicate # Escalate
    /\ \A q \in DOMAIN table : NoRelation \notin Range(q)

(* The relations along a path.                                              *)
LEMMA PredicatesAre ==
    ASSUME NEW edges, NEW q \in Seq(1..Len(edges))
    PROVE  /\ Len(Predicates(edges, q)) = Len(q) /\ Len(q) \in Nat /\ IsSeq(Predicates(edges, q))
           /\ \A k \in 1..Len(q) : /\ q[k] \in 1..Len(edges)
                                   /\ Predicates(edges, q)[k] = edges[q[k]].predicate
<1>1. PICK l \in Nat : l = Len(q) /\ \A k \in 1..l : q[k] \in 1..Len(edges)
  BY LenProperties
<1>2. PICK s : s = [k \in 1..l |-> edges[q[k]].predicate]
  OBVIOUS
<1>3. PICK T : T = {s[k] : k \in 1..l}
  OBVIOUS
<1>4. s \in [1..l -> T]
  BY <1>2, <1>3
<1>5. s \in Seq(T) /\ Len(s) = l
  BY <1>4, IsSequence
<1>6. IsSeq(s)
  <2>1. DOMAIN s = 1..l
    BY <1>2
  <2>2. T = {s[k] : k \in DOMAIN s}
    BY <1>3, <2>1
  <2> QED
    BY <1>5, <2>2 DEF IsSeq
<1>7. Predicates(edges, q) = s
  BY <1>1, <1>2 DEF Predicates
<1>8. \A k \in 1..l : s[k] = edges[q[k]].predicate
  BY <1>2
<1>9. /\ Len(s) = l /\ l \in Nat /\ IsSeq(s)
      /\ \A k \in 1..l : q[k] \in 1..Len(edges) /\ s[k] = edges[q[k]].predicate
  BY <1>1, <1>5, <1>6, <1>8
<1> QED
  BY <1>1, <1>7, <1>9

(* A path and the one that an edge makes of it.                             *)
GoesOn(edges, q, i, r) ==
    /\ r \in Seq(1..Len(edges)) /\ Len(r) = Len(q) + 1
    /\ (\A k \in 1..Len(q) : r[k] = q[k]) /\ r[Len(r)] = i

(* What a path tells when it is longer by an edge: one more leg.            *)
LEMMA ToldAlong ==
    ASSUME NEW edges, NEW table, NEW q \in Seq(1..Len(edges)), NEW i \in 1..Len(edges),
           NEW r, GoesOn(edges, q, i, r)
    PROVE  /\ Len(q) = 0 => Told(edges, table, r) = Begins(edges[i].predicate)
           /\ Len(q) # 0 => Told(edges, table, r)
                              = FoldLeg(table, Told(edges, table, q), edges[i].predicate)
<1>1. PICK l \in Nat : /\ l = Len(q) /\ Len(r) = l + 1 /\ r[l + 1] = i
                      /\ r \in Seq(1..Len(edges)) /\ \A k \in 1..l : r[k] = q[k]
  BY LenProperties DEF GoesOn
<1>2. PICK s, t : s = Predicates(edges, q) /\ t = Predicates(edges, r)
  OBVIOUS
<1>3. /\ Len(s) = l /\ Len(t) = l + 1
      /\ \A k \in 1..l : s[k] = edges[q[k]].predicate
      /\ \A k \in 1..(l + 1) : t[k] = edges[r[k]].predicate
  <2>1. Len(s) = l /\ \A k \in 1..l : s[k] = edges[q[k]].predicate
    BY <1>1, <1>2, PredicatesAre
  <2>2. Len(t) = Len(r) /\ \A k \in 1..Len(r) : t[k] = edges[r[k]].predicate
    BY <1>1, <1>2, PredicatesAre
  <2> QED
    BY <1>1, <2>1, <2>2
<1>4. (\A k \in 1..l : t[k] = s[k]) /\ t[l + 1] = edges[i].predicate
  <2>1. \A k \in 1..l : k \in 1..(l + 1) /\ r[k] = q[k]
    BY <1>1
  <2>2. l + 1 \in 1..(l + 1)
    OBVIOUS
  <2> QED
    BY <1>1, <1>3, <2>1, <2>2
<1>5. CASE l = 0
  <2>1. Len(t) = 1 /\ t[1] = edges[i].predicate
    BY <1>3, <1>4, <1>5
  <2>2. ComposeChain(table, t) = Begins(t[1])
    BY <2>1, OneLeg
  <2> QED
    BY <1>1, <1>2, <1>5, <2>1, <2>2 DEF Told
<1>6. CASE l # 0
  <2>1. OneLonger(s, t, l)
    BY <1>3, <1>4 DEF OneLonger
  <2>2. l \in Nat
    BY <1>1
  <2>3. ComposeChain(table, t) = FoldLeg(table, ComposeChain(table, s), t[l + 1])
    BY <1>6, <2>1, <2>2, OneMoreLeg
  <2> QED
    BY <1>1, <1>2, <1>4, <1>6, <2>3 DEF Told
<1> QED
  BY <1>5, <1>6

(* In agreement, the worth of the fold is the composition.                  *)
LEMMA WorthIs ==
    ASSUME NEW c, NEW r, Agree(c, r)
    PROVE  Worth(c) = r
BY DEF Worth, Agree

(* What the code folds along a path agrees with its composition.            *)
LEMMA ToldAgrees ==
    ASSUME NEW edges, NEW table, Unmarked(edges, table), NEW q \in Seq(1..Len(edges))
    PROVE  Agree(Told(edges, table, q), Worth(Told(edges, table, q)))
<1>1. PICK s : s = Predicates(edges, q)
  OBVIOUS
<1>2. IsSeq(s) /\ \A k \in 1..Len(s) : s[k] # Escalate
  BY <1>1, PredicatesAre DEF Unmarked
<1>3. Agree(ComposeChain(table, s), Composition(table, s))
  BY <1>2, ChainIsComposed
<1> QED
  BY <1>1, <1>3, WorthIs DEF Told

(* So the worth of a path goes on edge by edge, as the reference has it.    *)
LEMMA WorthAlong ==
    ASSUME NEW edges, NEW table, Unmarked(edges, table),
           NEW q \in Seq(1..Len(edges)), NEW i \in 1..Len(edges),
           NEW r, GoesOn(edges, q, i, r)
    PROVE  /\ Len(q) = 0 => Worth(Told(edges, table, r)) = edges[i].predicate
           /\ Len(q) # 0 => Worth(Told(edges, table, r))
                              = On(table, Worth(Told(edges, table, q)), edges[i].predicate)
<1>0. Len(q) = 0 => Told(edges, table, r) = Begins(edges[i].predicate)
  BY ToldAlong
<1>1. CASE Len(q) = 0
  BY <1>0, <1>1 DEF Worth, Begins
<1>2. CASE Len(q) # 0
  <2>1. PICK c, w, e : /\ c = Told(edges, table, q) /\ w = Worth(c)
                       /\ e = edges[i].predicate
    OBVIOUS
  <2>2. Agree(c, w)
    BY <2>1, ToldAgrees
  <2>3. Told(edges, table, r) = FoldLeg(table, c, e)
    BY <1>2, <2>1, ToldAlong
  <2>4. Worth(FoldLeg(table, c, e)) = AndOn(table, w, e)
    BY <2>2, LegAgrees, WorthIs
  <2>5. AndOn(table, w, e) = On(table, w, e)
    <3>1. CASE w = Escalate
      BY <3>1 DEF AndOn, On
    <3>2. CASE w # Escalate /\ w = NoRelation
      <4>1. NoRelation \in Range(<<NoRelation, e>>)
        <5>1. PICK z : z = <<NoRelation, e>> /\ z[1] = NoRelation /\ DOMAIN z = 1..2
          <6>1. <<NoRelation, e>>[1] = NoRelation /\ DOMAIN <<NoRelation, e>> = 1..2
            OBVIOUS
          <6> QED
            BY <6>1
        <5> QED
          BY <5>1 DEF Range
      <4>2. <<NoRelation, e>> \notin DOMAIN table
        BY <4>1 DEF Unmarked
      <4> QED
        BY <3>2, <4>2 DEF AndOn, On, ComposeRelations
    <3>3. CASE w # Escalate /\ w # NoRelation
      BY <3>3 DEF AndOn, On
    <3> QED
      BY <3>1, <3>2, <3>3
  <2> QED
    BY <1>2, <2>1, <2>3, <2>4, <2>5
<1> QED
  BY <1>1, <1>2

-----------------------------------------------------------------------------
(* Paths and chains.                                                        *)

(* The end of a path, with what its relations compose to.                   *)
Tip(p, q) == <<End(p.edges, p.term, q), Worth(Told(p.edges, p.table, q))>>

(* A definition whose edges a text could state.                             *)
Defines(p) == IsSeq(p.edges) /\ Unmarked(p.edges, p.table)

(* The tip of a path, edge by edge.                                         *)
LEMMA TipAlong ==
    ASSUME NEW p, Defines(p), NEW q \in Seq(1..Len(p.edges)), NEW i \in 1..Len(p.edges),
           NEW r, r = Append(q, i)
    PROVE  /\ Len(q) \in Nat /\ Len(r) = Len(q) + 1
           /\ Len(q) = 0 => Tip(p, r) = <<p.edges[i].object, p.edges[i].predicate>>
           /\ Len(q) # 0 => Tip(p, r) = <<p.edges[i].object,
                                          On(p.table, Tip(p, q)[2], p.edges[i].predicate)>>
<1>1. PICK edges, table, start : edges = p.edges /\ table = p.table /\ start = p.term
  OBVIOUS
<1>2. Prolonged(edges, start, q, i, r)
  BY <1>1, IsProlonged
<1>3. /\ r \in Seq(1..Len(edges)) /\ Len(q) \in Nat /\ Len(r) = Len(q) + 1
      /\ (\A k \in 1..Len(q) : r[k] = q[k]) /\ r[Len(r)] = i
      /\ End(edges, start, r) = edges[i].object
  BY <1>2 DEF Prolonged
<1>4. GoesOn(edges, q, i, r)
  BY <1>3 DEF GoesOn
<1>5. Unmarked(edges, table)
  BY <1>1 DEF Defines
<1>6. /\ Len(q) = 0 => Worth(Told(edges, table, r)) = edges[i].predicate
      /\ Len(q) # 0 => Worth(Told(edges, table, r))
                         = On(table, Worth(Told(edges, table, q)), edges[i].predicate)
  BY <1>1, <1>4, <1>5, WorthAlong
<1>7. Tip(p, q)[2] = Worth(Told(edges, table, q))
  BY <1>1 DEF Tip
<1>8. Tip(p, r) = <<edges[i].object, Worth(Told(edges, table, r))>>
  BY <1>1, <1>3 DEF Tip
<1> QED
  BY <1>1, <1>3, <1>6, <1>7, <1>8

(* A path of n edges is a chain after n - 1 steps.                          *)
LEMMA PathsAreChains ==
    ASSUME NEW p, Defines(p), NEW depth, NEW P, ArePathsOf(p.edges, p.term, depth, P),
           NEW g, AreChains(p, g), NEW q \in P
    PROVE  \A n \in Nat : Len(q) = n + 1 => Tip(p, q) \in g[n]
<1>0. Len(p.edges) \in Nat /\ IsSeq(p.edges)
  BY DEF ArePathsOf, Defines
<1>1. PICK T : T = {r \in P : /\ r \in Seq(1..Len(p.edges))
                              /\ \A n \in Nat : Len(r) = n + 1 => Tip(p, r) \in g[n]}
  OBVIOUS
<1>2. <<>> \in T
  BY <1>1, EmptyPath, PathsProperties DEF ArePathsOf
<1>3. ASSUME NEW s \in P, NEW i \in 1..Len(p.edges), s \in T, i \in Onward(p.edges, p.term, s),
             Append(s, i) \in P
      PROVE  Append(s, i) \in T
  <2>1. PICK r : r = Append(s, i) /\ r \in P
    BY <1>3
  <2>2. s \in Seq(1..Len(p.edges)) /\ Len(s) \in Nat /\ r \in Seq(1..Len(p.edges))
    BY <1>1, <1>3, <2>1, AppendProperties, LenProperties
  <2>3. /\ Len(r) = Len(s) + 1
        /\ Len(s) = 0 => Tip(p, r) = <<p.edges[i].object, p.edges[i].predicate>>
        /\ Len(s) # 0 => Tip(p, r) = <<p.edges[i].object,
                                       On(p.table, Tip(p, s)[2], p.edges[i].predicate)>>
    BY <2>1, <2>2, TipAlong
  <2>4. p.edges[i].subject = End(p.edges, p.term, s)
    BY <1>3 DEF Onward
  <2>5. ASSUME NEW n \in Nat, Len(r) = n + 1 PROVE Tip(p, r) \in g[n]
    <3>1. Len(s) = n
      BY <2>2, <2>3, <2>5
    <3>2. CASE n = 0
      <4>1. s = <<>>
        BY <2>2, <3>1, <3>2, EmptySeq
      <4>2. p.edges[i].subject = p.term
        BY <2>4, <4>1, EmptyPath
      <4>3. StartsWith(p, Tip(p, r))
        BY <2>3, <3>1, <3>2, <4>2 DEF StartsWith
      <4> QED
        BY <1>0, <3>2, <4>3, ChainsGrow
    <3>3. CASE n # 0
      <4>1. PICK m \in Nat : m + 1 = n
        <5>1. n - 1 \in Nat /\ (n - 1) + 1 = n
          BY <3>3
        <5> QED
          BY <5>1
      <4>2. Tip(p, s) \in g[m]
        BY <1>1, <1>3, <3>1, <4>1
      <4>3. p.edges[i].subject = Tip(p, s)[1]
        BY <2>4 DEF Tip
      <4>4. Joins(p, g[m], Tip(p, r))
        BY <2>3, <3>1, <3>3, <4>2, <4>3 DEF Joins
      <4>5. Tip(p, r) \in g[m + 1]
        BY <1>0, <4>4, ChainsGrow
      <4> QED
        BY <4>1, <4>5
    <3> QED
      BY <3>2, <3>3
  <2> QED
    BY <1>1, <2>1, <2>2, <2>5
<1>4. PathInductive(p.edges, p.term, P, T)
  BY <1>2, <1>3 DEF PathInductive
<1>5. P \subseteq T
  BY <1>4, PathsProperties DEF ArePathsOf
<1> QED
  BY <1>1, <1>5

(* A path has no more edges than there are.                                 *)
LEMMA PathsAreShort ==
    ASSUME NEW edges, IsSeq(edges), NEW start, NEW depth, NEW P,
           ArePathsOf(edges, start, depth, P), NEW q \in P
    PROVE  Len(q) \in Nat /\ Len(q) <= Cardinality(Range(edges))
<1>1. Straight(edges, start, P, q)
  BY PathsAreStraight
<1>2. PICK l \in Nat : l = Len(q) /\ \A k \in 1..l : q[k] \in 1..Len(edges)
  BY <1>1 DEF Straight
<1>3. PICK E : E = Range(edges) /\ IsFiniteSet(E) /\ Cardinality(E) \in Nat
  BY EdgesAre
<1>4. PICK S : S = 1..l /\ IsFiniteSet(S) /\ Cardinality(S) = l
  <2>1. PICK c : c = Cardinality(1..l)
    OBVIOUS
  <2>2. IsFiniteSet(1..l) /\ c = IF 1 > l THEN 0 ELSE l - 1 + 1
    BY <2>1, FS_Interval
  <2>3. c = l
    BY <2>2
  <2> QED
    BY <2>1, <2>2, <2>3
<1>5. PICK g : g = [k \in S |-> edges[q[k]]]
  OBVIOUS
<1>6. g \in [S -> E]
  BY <1>2, <1>3, <1>4, <1>5, EdgesAre
<1>7. ASSUME Cardinality(E) < Cardinality(S) PROVE FALSE
  <2>1. PICK j \in S, k \in S : j # k /\ g[j] = g[k]
    BY <1>3, <1>4, <1>6, <1>7, FS_PigeonHole
  <2>2. edges[q[j]].object = edges[q[k]].object
    BY <1>5, <2>1
  <2> QED
    BY <1>1, <1>2, <1>4, <2>1, <2>2 DEF Straight
<1> QED
  BY <1>2, <1>3, <1>4, <1>7

(* Every path of a definition is one of its chains.                         *)
LEMMA PathsAreComposed ==
    ASSUME NEW p, Defines(p), NEW depth, NEW P, ArePathsOf(p.edges, p.term, depth, P),
           NEW q \in P, q # <<>>
    PROVE  Tip(p, q) \in Composed(p)
<1>0. IsSeq(p.edges)
  BY DEF Defines
<1>1. PICK c \in Nat : c = Cardinality(Range(p.edges))
  BY <1>0, EdgesAre
<1>2. PICK g : AreChains(p, g) /\ Composed(p) = g[c]
  BY <1>1, ComposedSteps
<1>3. Len(q) \in Nat /\ Len(q) <= c /\ q \in Seq(1..Len(p.edges))
  BY <1>0, <1>1, PathsAreShort, PathsAreStraight DEF Straight
<1>4. PICK n \in Nat : Len(q) = n + 1 /\ n \in 0..c
  <2>1. Len(q) # 0
    BY <1>3, EmptySeq
  <2>2. Len(q) - 1 \in Nat /\ Len(q) = (Len(q) - 1) + 1 /\ Len(q) - 1 \in 0..c
    BY <1>1, <1>3, <2>1
  <2> QED
    BY <2>2
<1>5. Tip(p, q) \in g[n]
  BY <1>2, <1>4, PathsAreChains
<1>6. g[n] \subseteq g[c]
  BY <1>0, <1>1, <1>2, <1>4, ChainsStay
<1> QED
  BY <1>2, <1>5, <1>6

(* Where a path leads, each node on it leads.                               *)
LEMMA VisitedLead ==
    ASSUME NEW edges, NEW start, NEW depth, NEW P, ArePathsOf(edges, start, depth, P), NEW q \in P
    PROVE  \A v \in Visited(edges, start, q) : End(edges, start, q) \in LeadsTo(Links(edges), v)
<1>1. PICK R : R = Links(edges) /\ IsFiniteSet(R)
  BY LinksAre DEF ArePathsOf
<1>2. PICK T : T = {r \in P : /\ r \in Seq(1..Len(edges))
                              /\ \A v \in Visited(edges, start, r) :
                                    End(edges, start, r) \in LeadsTo(R, v)}
  OBVIOUS
<1>3. \A v : v \in LeadsTo(R, v)
  BY <1>1, LeadsToProperties
<1>4. <<>> \in T
  BY <1>2, <1>3, EmptyPath, PathsProperties DEF ArePathsOf
<1>5. ASSUME NEW s \in P, NEW i \in 1..Len(edges), s \in T, i \in Onward(edges, start, s),
             Append(s, i) \in P
      PROVE  Append(s, i) \in T
  <2>1. PICK r : r = Append(s, i) /\ r \in P /\ s \in Seq(1..Len(edges))
    BY <1>2, <1>5
  <2>2. Prolonged(edges, start, s, i, r)
    BY <2>1, IsProlonged
  <2>3. /\ r \in Seq(1..Len(edges)) /\ End(edges, start, r) = edges[i].object
        /\ Visited(edges, start, r) = Visited(edges, start, s) \cup {edges[i].object}
    BY <2>2 DEF Prolonged
  <2>4. edges[i].subject = End(edges, start, s)
    BY <1>5 DEF Onward
  <2>5. <<End(edges, start, s), edges[i].object>> \in R
    BY <1>1, <2>4, LinksAre DEF ArePathsOf
  <2>6. ASSUME NEW v \in Visited(edges, start, s) PROVE edges[i].object \in LeadsTo(R, v)
    <3>1. End(edges, start, s) \in LeadsTo(R, v)
      BY <1>2, <1>5
    <3> QED
      BY <1>1, <2>5, <3>1, LeadsToProperties
  <2> QED
    BY <1>2, <1>3, <2>1, <2>3, <2>6
<1>6. PathInductive(edges, start, P, T)
  BY <1>4, <1>5 DEF PathInductive
<1>7. P \subseteq T
  BY <1>6, PathsProperties DEF ArePathsOf
<1> QED
  BY <1>1, <1>2, <1>7

(* A path of at least one edge does not end where it started.               *)
LEMMA NeverBack ==
    ASSUME NEW edges, NEW start, NEW depth, NEW P, ArePathsOf(edges, start, depth, P), NEW q \in P,
           q # <<>>
    PROVE  End(edges, start, q) # start
<1>1. PICK T : T = {r \in P : r \in Seq(1..Len(edges)) /\ (r # <<>> => End(edges, start, r) # start)}
  OBVIOUS
<1>2. <<>> \in T
  BY <1>1, EmptyPath, PathsProperties DEF ArePathsOf
<1>3. ASSUME NEW s \in P, NEW i \in 1..Len(edges), s \in T, i \in Onward(edges, start, s),
             Append(s, i) \in P
      PROVE  Append(s, i) \in T
  <2>1. PICK r : r = Append(s, i) /\ r \in P /\ s \in Seq(1..Len(edges))
    BY <1>1, <1>3
  <2>2. Prolonged(edges, start, s, i, r)
    BY <2>1, IsProlonged
  <2>3. r \in Seq(1..Len(edges)) /\ End(edges, start, r) = edges[i].object
    BY <2>2 DEF Prolonged
  <2>4. edges[i].object # start
    BY <1>3 DEF Onward, Visited
  <2> QED
    BY <1>1, <2>1, <2>3, <2>4
<1>4. PathInductive(edges, start, P, T)
  BY <1>2, <1>3 DEF PathInductive
<1>5. P \subseteq T
  BY <1>4, PathsProperties DEF ArePathsOf
<1> QED
  BY <1>1, <1>5

(* From a path, an edge either goes on or closes a cycle.                   *)
LEMMA OnOrRound ==
    ASSUME NEW edges, NEW start, NEW depth, NEW P, ArePathsOf(edges, start, depth, P),
           Len(edges) <= depth, ~Circular(Links(edges), start), NEW q \in P,
           NEW i \in 1..Len(edges), edges[i].subject = End(edges, start, q)
    PROVE  Append(q, i) \in P
<1>1. PICK R : R = Links(edges) /\ IsFiniteSet(R)
  BY LinksAre DEF ArePathsOf
<1>2. PICK x, y : x = End(edges, start, q) /\ y = edges[i].object
  OBVIOUS
<1>3. <<x, y>> \in R
  BY <1>1, <1>2, LinksAre DEF ArePathsOf
<1>4. x \in LeadsTo(R, start)
  BY <1>1, <1>2, PathsAreLed
<1>5. x \notin LeadsTo(R, y)
  BY <1>1, <1>3, <1>4 DEF Circular
<1>6. y \notin Visited(edges, start, q)
  BY <1>1, <1>2, <1>5, VisitedLead
<1>7. i \in Onward(edges, start, q)
  BY <1>2, <1>6 DEF Onward
<1>8. Straight(edges, start, P, q)
  BY PathsAreStraight
<1>9. Len(q) < depth
  <2>1. Len(q) < Len(edges) /\ Len(q) \in Nat
    BY <1>7, <1>8, OnwardIsShort DEF ArePathsOf, Straight
  <2> QED
    BY <2>1 DEF ArePathsOf
<1> QED
  BY <1>7, <1>9, PathsProperties DEF ArePathsOf

(* Short of a cycle, each chain of a definition is one of its paths.        *)
IsTip(p, P, x) == \E q \in P : q # <<>> /\ x = Tip(p, q)

(* Without a cycle, the tips of paths are closed under the edges.           *)
LEMMA TipsGoOn ==
    ASSUME NEW p, Defines(p), NEW depth, NEW P, ArePathsOf(p.edges, p.term, depth, P),
           Len(p.edges) <= depth, ~Circular(Links(p.edges), p.term)
    PROVE  /\ \A x : StartsWith(p, x) => IsTip(p, P, x)
           /\ \A S : (\A x \in S : IsTip(p, P, x)) => \A x : Joins(p, S, x) => IsTip(p, P, x)
<1>1. ASSUME NEW x, StartsWith(p, x) PROVE IsTip(p, P, x)
  <2>1. PICK i \in 1..Len(p.edges) :
             p.edges[i].subject = p.term /\ x = <<p.edges[i].object, p.edges[i].predicate>>
    BY <1>1 DEF StartsWith
  <2>2. PICK e : e = <<>> /\ e \in P
    BY PathsProperties DEF ArePathsOf
  <2>3. End(p.edges, p.term, e) = p.term /\ e \in Seq(1..Len(p.edges)) /\ Len(e) = 0
    BY <2>2, EmptyPath
  <2>4. PICK r : r = Append(e, i)
    OBVIOUS
  <2>5. r \in P
    BY <2>1, <2>2, <2>3, <2>4, OnOrRound
  <2>6. /\ Len(r) = Len(e) + 1
        /\ Len(e) = 0 => Tip(p, r) = <<p.edges[i].object, p.edges[i].predicate>>
    <3>1. e \in Seq(1..Len(p.edges))
      BY <2>3
    <3> QED
      BY <2>4, <3>1, TipAlong
  <2>7. Tip(p, r) = x /\ Len(r) = 1
    BY <2>1, <2>3, <2>6
  <2>8. r # <<>>
    BY <2>7, EmptyPath
  <2> QED
    BY <2>5, <2>7, <2>8 DEF IsTip
<1>2. ASSUME NEW S, \A x \in S : IsTip(p, P, x), NEW x, Joins(p, S, x) PROVE IsTip(p, P, x)
  <2>1. PICK z \in S : \E i \in 1..Len(p.edges) :
             /\ p.edges[i].subject = z[1]
             /\ x = <<p.edges[i].object, On(p.table, z[2], p.edges[i].predicate)>>
    BY <1>2 DEF Joins
  <2>2. PICK i \in 1..Len(p.edges) :
             /\ p.edges[i].subject = z[1]
             /\ x = <<p.edges[i].object, On(p.table, z[2], p.edges[i].predicate)>>
    BY <2>1
  <2>3. PICK q \in P : q # <<>> /\ z = Tip(p, q)
    BY <1>2, <2>1 DEF IsTip
  <2>4. z[1] = End(p.edges, p.term, q)
    BY <2>3 DEF Tip
  <2>5. PICK r : r = Append(q, i)
    OBVIOUS
  <2>6. r \in P
    BY <2>2, <2>4, <2>5, OnOrRound
  <2>7. q \in Seq(1..Len(p.edges)) /\ Len(q) \in Nat
    BY PathsProperties DEF ArePathsOf
  <2>8. Len(q) # 0
    BY <2>3, <2>7, EmptySeq
  <2>9. /\ Len(q) \in Nat /\ Len(r) = Len(q) + 1
        /\ Len(q) = 0 => Tip(p, r) = <<p.edges[i].object, p.edges[i].predicate>>
        /\ Len(q) # 0 => Tip(p, r) = <<p.edges[i].object,
                                       On(p.table, Tip(p, q)[2], p.edges[i].predicate)>>
    <3>1. q \in Seq(1..Len(p.edges))
      BY <2>7
    <3> QED
      BY <2>5, <3>1, TipAlong
  <2>10. Tip(p, r) = <<p.edges[i].object, On(p.table, Tip(p, q)[2], p.edges[i].predicate)>>
    BY <2>8, <2>9
  <2>11. Tip(p, r) = x
    BY <2>2, <2>3, <2>10
  <2>12. r # <<>>
    BY <2>9, EmptyPath
  <2> QED
    BY <2>6, <2>11, <2>12 DEF IsTip
<1> QED
  BY <1>1, <1>2

(* So without a cycle every chain of a definition is the tip of a path.     *)
LEMMA ComposedArePaths ==
    ASSUME NEW p, Defines(p), NEW depth, NEW P, ArePathsOf(p.edges, p.term, depth, P),
           Len(p.edges) <= depth, ~Circular(Links(p.edges), p.term)
    PROVE  \A x \in Composed(p) : IsTip(p, P, x)
<1>0. IsSeq(p.edges)
  BY DEF Defines
<1>1. PICK c \in Nat : c = Cardinality(Range(p.edges))
  BY <1>0, EdgesAre
<1>2. PICK g : AreChains(p, g) /\ Composed(p) = g[c]
  BY <1>1, ComposedSteps
<1>3. PICK S : S = {n \in Nat : \A x \in g[n] : IsTip(p, P, x)}
  OBVIOUS
<1>4. 0 \in S
  <2>1. \A x \in g[0] : StartsWith(p, x)
    BY <1>0, <1>2, ChainsGrow
  <2> QED
    BY <1>3, <2>1, TipsGoOn
<1>5. ASSUME NEW n \in Nat, n \in S PROVE n + 1 \in S
  <2>1. \A x \in g[n] : IsTip(p, P, x)
    BY <1>3, <1>5
  <2>2. \A x : Joins(p, g[n], x) => IsTip(p, P, x)
    BY <2>1, TipsGoOn
  <2>3. \A x \in g[n + 1] : x \in g[n] \/ Joins(p, g[n], x)
    BY <1>0, <1>2, ChainsGrow
  <2> QED
    BY <1>3, <2>1, <2>2, <2>3
<1>6. \A n \in Nat : n \in S
  BY <1>4, <1>5, AllNats
<1> QED
  BY <1>1, <1>2, <1>3, <1>6

-----------------------------------------------------------------------------
(* The closure of a definition.                                             *)

(* A cycle can be reached from the term; a chain from it is contested, or   *)
(* composes to nothing; and the terms that the other chains define it by.   *)
Round(p) ==
    \E e \in Links(p.edges) : /\ e[1] \in LeadsTo(Links(p.edges), p.term)
                              /\ e[1] \in LeadsTo(Links(p.edges), e[2])

Doubtful(p) == \E q \in Composed(p) : q[2] \in {Escalate, NoRelation}

Sure(p) == {q[1] : q \in {r \in Composed(p) : r[2] \notin {Escalate, NoRelation}}}

(* It is the cycle the search looks for.                                    *)
LEMMA RoundIsCircular ==
    ASSUME NEW p
    PROVE  Round(p) <=> Circular(Links(p.edges), p.term)
<1>1. PICK R : R = Links(p.edges)
  OBVIOUS
<1>2. \A e \in R : e = <<e[1], e[2]>>
  BY <1>1 DEF Links
<1>3. \A x, y : <<x, y>>[1] = x /\ <<x, y>>[2] = y
  OBVIOUS
<1>4. Round(p) => Circular(R, p.term)
  BY <1>1, <1>2 DEF Round, Circular
<1>5. Circular(R, p.term) => Round(p)
  BY <1>1, <1>3 DEF Round, Circular
<1> QED
  BY <1>1, <1>4, <1>5

(* The paths whose relations compose to one.                                *)
LEMMA CoherentPaths ==
    ASSUME NEW p, IsSeq(p.edges), NEW C, \A q \in C : q \in Seq(1..Len(p.edges)),
           NEW K, K = Coherent(p.edges, p.table, C)
    PROVE  /\ K \subseteq C
           /\ p.table = NoAlgebra => K = C
           /\ p.table # NoAlgebra /\ Unmarked(p.edges, p.table) =>
                 \A q \in C : q \in K <=> Tip(p, q)[2] \notin {Escalate, NoRelation}
<1>1. PICK edges, table : edges = p.edges /\ table = p.table
  OBVIOUS
<1>2. K = {q \in C : \/ table = NoAlgebra
                     \/ /\ ~Told(edges, table, q).escalated
                        /\ Told(edges, table, q).relation # NoRelation}
  BY <1>1 DEF Coherent, Told, Predicates
<1>3. ASSUME table # NoAlgebra, Unmarked(edges, table), NEW q \in C
      PROVE  q \in K <=> Tip(p, q)[2] \notin {Escalate, NoRelation}
  <2>1. PICK c, w : c = Told(edges, table, q) /\ w = Worth(c)
    OBVIOUS
  <2>2. Agree(c, w)
    BY <1>1, <1>3, <2>1, ToldAgrees
  <2>3. Tip(p, q)[2] = w
    BY <1>1, <2>1 DEF Tip
  <2>4. q \in K <=> ~c.escalated /\ c.relation # NoRelation
    BY <1>2, <1>3, <2>1
  <2> QED
    BY <2>2, <2>3, <2>4 DEF Agree
<1> QED
  BY <1>1, <1>2, <1>3

(* What the closure of a defined term is, C being the paths it composes.    *)
ClosesOver(p, c, C) ==
    /\ c.defined /\ c.open \in BOOLEAN
    /\ c.open <=> Circular(Links(p.edges), p.term) \/ Coherent(p.edges, p.table, C) # C
    /\ c.tokens = {End(p.edges, p.term, q) : q \in Coherent(p.edges, p.table, C)}

(* This is what close_definition returns for a term that has a definition.  *)
LEMMA ClosureIs ==
    ASSUME NEW p, IsSeq(p.edges), NEW c, c = CloseDefinition(p.term, p.edges, p.table),
           \E i \in 1..Len(p.edges) : p.edges[i].subject = p.term
    PROVE  \E C : /\ C \subseteq AllPaths(p.edges, p.term, 64)
                  /\ Uncapped(p.edges, p.term, 64, 1000) => C = AllPaths(p.edges, p.term, 64)
                  /\ ClosesOver(p, c, C)
<1>1. PICK edges, term, table : edges = p.edges /\ term = p.term /\ table = p.table
  OBVIOUS
<1>2. PICK C : C = ComposePaths(edges, term, 64, 1, 1000)
  OBVIOUS
<1>3. Len(edges) \in Nat
  BY <1>1, EdgesAre
<1>4. /\ C \subseteq AllPaths(edges, term, 64)
      /\ Uncapped(edges, term, 64, 1000) => C = AllPaths(edges, term, 64)
  <2>1. 64 \in Nat /\ 64 >= 2 /\ 1000 \in Nat
    OBVIOUS
  <2> QED
    BY <1>2, <1>3, <2>1, ComposedPaths
<1>5. PICK K : K = Coherent(edges, table, C)
  OBVIOUS
<1>6. PICK cyclic : cyclic = HasCycle(Successors(DefinitionNodes(edges), DefinitionPairs(edges)),
                                      <<term>>)
  OBVIOUS
<1>7. cyclic <=> Circular(Links(edges), term)
  BY <1>1, <1>3, <1>6, DefinitionCycles
<1>8. c = [defined |-> TRUE, open |-> cyclic \/ K # C, tokens |-> {edges[Last(q)].object : q \in K}]
  <2>1. ~\A i \in 1..Len(edges) : edges[i].subject # term
    BY <1>1
  <2> QED
    BY <1>1, <1>2, <1>5, <1>6, <2>1 DEF CloseDefinition, DefinitionNodes, DefinitionPairs
<1>9. K \subseteq C
  BY <1>5 DEF Coherent
<1>10. \A q \in K : edges[Last(q)].object = End(edges, term, q)
  <2>1. 64 \in Nat
    OBVIOUS
  <2> QED
    BY <1>3, <1>4, <1>9, <2>1, LongPaths
<1>11. {edges[Last(q)].object : q \in K} = {End(edges, term, q) : q \in K}
  BY <1>10
<1>12. ClosesOver(p, c, C)
  <2>1. PICK b : b = (cyclic \/ K # C)
    OBVIOUS
  <2>2. b \in BOOLEAN /\ (b <=> Circular(Links(edges), term) \/ K # C)
    BY <1>7, <2>1
  <2>3. c.defined = TRUE /\ c.open = b /\ c.tokens = {edges[Last(q)].object : q \in K}
    BY <1>8, <2>1
  <2>4. c.tokens = {End(edges, term, q) : q \in K}
    BY <1>11, <2>3
  <2> QED
    BY <1>1, <1>5, <2>2, <2>3, <2>4 DEF ClosesOver
<1> QED
  BY <1>1, <1>4, <1>12

(* A term that nothing defines.                                             *)
LEMMA NothingDefines ==
    ASSUME NEW p, IsSeq(p.edges), NEW c, c = CloseDefinition(p.term, p.edges, p.table),
           ~\E i \in 1..Len(p.edges) : p.edges[i].subject = p.term
    PROVE  /\ c.defined = FALSE /\ c.open = FALSE /\ c.tokens = {}
           /\ ~Round(p) /\ LeadsTo(Links(p.edges), p.term) = {p.term} /\ Composed(p) = {}
<1>1. PICK R : R = Links(p.edges)
  OBVIOUS
<1>2. Len(p.edges) \in Nat
  BY EdgesAre
<1>3. \A y : <<p.term, y>> \notin R
  BY <1>1, <1>2, LinksAre
<1>4. LeadsTo(R, p.term) = {p.term}
  <2>1. PICK T : T = {p.term}
    OBVIOUS
  <2>2. p.term \in T /\ \A y \in T : \A z : <<y, z>> \in R => z \in T
    BY <1>3, <2>1
  <2>3. IsFiniteSet(R)
    BY <1>1, <1>2, LinksAre
  <2>4. LeadsTo(R, p.term) \subseteq T /\ p.term \in LeadsTo(R, p.term)
    BY <2>2, <2>3, LeadsToProperties
  <2> QED
    BY <2>1, <2>4
<1>5. ~Circular(R, p.term)
  BY <1>3, <1>4 DEF Circular
<1>6. Composed(p) = {}
  <2>1. PICK k \in Nat : k = Cardinality(Range(p.edges))
    BY EdgesAre
  <2>2. PICK g : AreChains(p, g) /\ Composed(p) = g[k]
    BY <2>1, ComposedSteps
  <2>3. PICK S : S = {n \in Nat : g[n] = {}}
    OBVIOUS
  <2>4. 0 \in S
    <3>1. \A x : ~StartsWith(p, x)
      BY DEF StartsWith
    <3>2. \A x : x \notin g[0]
      BY <2>2, <3>1, ChainsGrow
    <3> QED
      BY <2>3, <3>2
  <2>5. ASSUME NEW n \in Nat, n \in S PROVE n + 1 \in S
    <3>1. \A x : ~Joins(p, g[n], x)
      BY <2>3, <2>5 DEF Joins
    <3>2. \A x : x \notin g[n + 1]
      BY <2>2, <2>3, <2>5, <3>1, ChainsGrow
    <3> QED
      BY <2>3, <3>2
  <2>6. \A n \in Nat : n \in S
    BY <2>4, <2>5, AllNats
  <2> QED
    BY <2>1, <2>2, <2>3, <2>6
<1>7. c = [defined |-> FALSE, open |-> FALSE, tokens |-> {}]
  <2>1. \A i \in 1..Len(p.edges) : p.edges[i].subject # p.term
    OBVIOUS
  <2> QED
    BY <2>1 DEF CloseDefinition
<1> QED
  BY <1>1, <1>4, <1>5, <1>6, <1>7, RoundIsCircular

(* What a closure claims holds, whatever was dropped on the way.            *)
Warranted(p, c) ==
    /\ c.open \in BOOLEAN
    /\ c.defined <=> \E e \in Links(p.edges) : e[1] = p.term
    /\ Round(p) => c.open
    /\ p.table = NoAlgebra => /\ c.open => Round(p)
                              /\ c.tokens \subseteq LeadsTo(Links(p.edges), p.term) \ {p.term}
    /\ p.table # NoAlgebra => /\ c.open => Round(p) \/ Doubtful(p)
                              /\ c.tokens \subseteq Sure(p)

(* And what holds it claims.                                                *)
Whole(p, c) ==
    /\ p.table = NoAlgebra => LeadsTo(Links(p.edges), p.term) \ {p.term} \subseteq c.tokens
    /\ p.table # NoAlgebra => /\ Doubtful(p) => c.open
                              /\ ~Round(p) => Sure(p) \subseteq c.tokens

Closable(p) == IsSeq(p.edges) /\ (p.table # NoAlgebra => Unmarked(p.edges, p.table))

(* No path of a definition is cut short or dropped.                         *)
Spelt(p) == Len(p.edges) <= 64 /\ Uncapped(p.edges, p.term, 64, 1000)

(* A term has a definition when an edge starts at it.                       *)
LEMMA DefinesIt ==
    ASSUME NEW p, IsSeq(p.edges)
    PROVE  (\E e \in Links(p.edges) : e[1] = p.term)
               <=> \E i \in 1..Len(p.edges) : p.edges[i].subject = p.term
<1>1. PICK R, n : R = Links(p.edges) /\ n = Len(p.edges) /\ n \in Nat
  BY EdgesAre
<1>2. R = {<<p.edges[i].subject, p.edges[i].object>> : i \in 1..n}
  BY <1>1 DEF Links
<1>3. \A x, y : <<x, y>>[1] = x
  OBVIOUS
<1>4. \A e \in R : \E i \in 1..n : e[1] = p.edges[i].subject
  BY <1>2, <1>3
<1>5. ASSUME NEW i \in 1..n PROVE \E e \in R : e[1] = p.edges[i].subject
  <2>1. PICK e : e = <<p.edges[i].subject, p.edges[i].object>> /\ e[1] = p.edges[i].subject
    BY <1>3
  <2> QED
    BY <1>2, <2>1
<1> QED
  BY <1>1, <1>4, <1>5

(* A term without a definition is returned as such.                         *)
LEMMA UndefinedIsHonest ==
    ASSUME NEW p, Closable(p), NEW c, c = CloseDefinition(p.term, p.edges, p.table),
           ~\E i \in 1..Len(p.edges) : p.edges[i].subject = p.term
    PROVE  Warranted(p, c) /\ Whole(p, c)
<1>1. IsSeq(p.edges)
  BY DEF Closable
<1>2. /\ c.defined = FALSE /\ c.open = FALSE /\ c.tokens = {}
      /\ ~Round(p) /\ LeadsTo(Links(p.edges), p.term) = {p.term} /\ Composed(p) = {}
  BY <1>1, NothingDefines
<1>3. ~Doubtful(p) /\ Sure(p) = {}
  BY <1>2 DEF Doubtful, Sure
<1>4. ~\E e \in Links(p.edges) : e[1] = p.term
  BY <1>1, DefinesIt
<1> QED
  BY <1>2, <1>3, <1>4 DEF Warranted, Whole

(* The closure of any definition is warranted, whatever paths were dropped. *)
LEMMA ClosureIsSound ==
    ASSUME NEW p, Closable(p), NEW c, c = CloseDefinition(p.term, p.edges, p.table)
    PROVE  Warranted(p, c)
<1>1. CASE ~\E i \in 1..Len(p.edges) : p.edges[i].subject = p.term
  BY <1>1, UndefinedIsHonest
<1>2. CASE \E i \in 1..Len(p.edges) : p.edges[i].subject = p.term
  <2>1. IsSeq(p.edges) /\ Len(p.edges) \in Nat
    BY EdgesAre DEF Closable
  <2>2. PICK C : C \subseteq AllPaths(p.edges, p.term, 64) /\ ClosesOver(p, c, C)
    BY <1>2, <2>1, ClosureIs
  <2>3. PICK P : ArePathsOf(p.edges, p.term, 64, P)
    BY <2>1 DEF ArePathsOf
  <2>4. \A q \in C : q \in P /\ q # <<>> /\ q \in Seq(1..Len(p.edges))
    <3>1. \A q \in C : q \in P /\ q # <<>>
      BY <2>1, <2>2, <2>3, LongPaths DEF ArePathsOf
    <3>2. \A q \in P : q \in Seq(1..Len(p.edges))
      BY <2>3, PathsProperties DEF ArePathsOf
    <3> QED
      BY <3>1, <3>2
  <2>5. PICK K : K = Coherent(p.edges, p.table, C)
    OBVIOUS
  <2>6. /\ K \subseteq C
        /\ p.table = NoAlgebra => K = C
        /\ p.table # NoAlgebra /\ Unmarked(p.edges, p.table) =>
              \A q \in C : q \in K <=> Tip(p, q)[2] \notin {Escalate, NoRelation}
    BY <2>1, <2>4, <2>5, CoherentPaths
  <2>7. /\ c.defined /\ c.open \in BOOLEAN /\ (c.open <=> Round(p) \/ K # C)
        /\ c.tokens = {End(p.edges, p.term, q) : q \in K}
    BY <2>2, <2>5, RoundIsCircular DEF ClosesOver
  <2>8. \E e \in Links(p.edges) : e[1] = p.term
    BY <1>2, <2>1, DefinesIt
  <2>9. ASSUME p.table = NoAlgebra, NEW v \in c.tokens
        PROVE  v \in LeadsTo(Links(p.edges), p.term) \ {p.term}
    <3>1. PICK q \in K : v = End(p.edges, p.term, q)
      BY <2>7, <2>9
    <3>2. q \in P /\ q # <<>>
      BY <2>4, <2>6, <3>1
    <3> QED
      BY <2>3, <3>1, <3>2, PathsAreLed, NeverBack
  <2>10. ASSUME p.table # NoAlgebra
         PROVE  /\ K # C => Doubtful(p)
                /\ c.tokens \subseteq Sure(p)
    <3>1. Unmarked(p.edges, p.table) /\ Defines(p)
      BY <2>1, <2>10 DEF Closable, Defines
    <3>2. \A q \in C : Tip(p, q) \in Composed(p) /\ Tip(p, q)[1] = End(p.edges, p.term, q)
      BY <2>3, <2>4, <3>1, PathsAreComposed DEF Tip
    <3>3. ASSUME K # C PROVE Doubtful(p)
      <4>1. PICK q \in C : q \notin K
        BY <2>6, <3>3
      <4> QED
        BY <2>6, <2>10, <3>1, <3>2, <4>1 DEF Doubtful
    <3>4. ASSUME NEW v \in c.tokens PROVE v \in Sure(p)
      <4>1. PICK q \in K : v = End(p.edges, p.term, q)
        BY <2>7, <3>4
      <4>2. /\ q \in C /\ Tip(p, q) \in Composed(p) /\ Tip(p, q)[1] = v
            /\ Tip(p, q)[2] \notin {Escalate, NoRelation}
        BY <2>6, <2>10, <3>1, <3>2, <4>1
      <4> QED
        BY <4>2 DEF Sure
    <3> QED
      BY <3>3, <3>4
  <2> QED
    BY <2>6, <2>7, <2>8, <2>9, <2>10 DEF Warranted
<1> QED
  BY <1>1, <1>2

(* And nothing is missing from it when none was.                            *)
LEMMA ClosureIsWhole ==
    ASSUME NEW p, Closable(p), Spelt(p), NEW c, c = CloseDefinition(p.term, p.edges, p.table)
    PROVE  Whole(p, c)
<1>1. CASE ~\E i \in 1..Len(p.edges) : p.edges[i].subject = p.term
  BY <1>1, UndefinedIsHonest
<1>2. CASE \E i \in 1..Len(p.edges) : p.edges[i].subject = p.term
  <2>1. IsSeq(p.edges) /\ Len(p.edges) \in Nat /\ Len(p.edges) <= 64
    BY EdgesAre DEF Closable, Spelt
  <2>2. PICK C : C = AllPaths(p.edges, p.term, 64) /\ ClosesOver(p, c, C)
    BY <1>2, <2>1, ClosureIs DEF Spelt
  <2>3. PICK P : ArePathsOf(p.edges, p.term, 64, P)
    BY <2>1 DEF ArePathsOf
  <2>4. \A q : q \in C <=> q \in P /\ q # <<>>
    <3>1. \A q : q \in C <=> /\ q \in P /\ q # <<>>
                             /\ End(p.edges, p.term, q) = p.edges[Last(q)].object
      BY <2>1, <2>2, <2>3, LongPaths DEF ArePathsOf
    <3>2. \A q : q # <<>> => End(p.edges, p.term, q) = p.edges[Last(q)].object
      BY DEF End
    <3> QED
      BY <3>1, <3>2
  <2>5. PICK K : K = Coherent(p.edges, p.table, C)
    OBVIOUS
  <2>6. /\ K \subseteq C
        /\ p.table = NoAlgebra => K = C
        /\ p.table # NoAlgebra /\ Unmarked(p.edges, p.table) =>
              \A q \in C : q \in K <=> Tip(p, q)[2] \notin {Escalate, NoRelation}
    <3>1. \A q \in C : q \in Seq(1..Len(p.edges))
      BY <2>3, <2>4, PathsProperties DEF ArePathsOf
    <3> QED
      BY <2>1, <2>5, <3>1, CoherentPaths
  <2>7. /\ c.open <=> Round(p) \/ K # C
        /\ c.tokens = {End(p.edges, p.term, q) : q \in K}
    BY <2>2, <2>5, RoundIsCircular DEF ClosesOver
  <2>8. ASSUME p.table = NoAlgebra, NEW v \in LeadsTo(Links(p.edges), p.term), v # p.term
        PROVE  v \in c.tokens
    <3>1. PICK q \in P : End(p.edges, p.term, q) = v
      BY <2>1, <2>3, PathsReach
    <3>2. q # <<>>
      BY <2>8, <3>1, EmptyPath
    <3> QED
      BY <2>4, <2>6, <2>7, <2>8, <3>1, <3>2
  <2>9. ASSUME p.table # NoAlgebra, ~Round(p), NEW x \in Composed(p)
        PROVE  \E q \in C : x = Tip(p, q)
    <3>1. ~Circular(Links(p.edges), p.term)
      BY <2>9, RoundIsCircular
    <3>2. Defines(p)
      BY <2>1, <2>9 DEF Closable, Defines
    <3>3. IsTip(p, P, x)
      BY <2>1, <2>3, <2>9, <3>1, <3>2, ComposedArePaths
    <3> QED
      BY <2>4, <3>3 DEF IsTip
  <2>10. ASSUME p.table # NoAlgebra
         PROVE  \A q \in C : q \in K <=> Tip(p, q)[2] \notin {Escalate, NoRelation}
    BY <2>6, <2>10 DEF Closable
  <2>11. ASSUME p.table # NoAlgebra, Doubtful(p) PROVE c.open
    <3>1. CASE Round(p)
      BY <2>7, <3>1
    <3>2. CASE ~Round(p)
      <4>1. PICK x \in Composed(p) : x[2] \in {Escalate, NoRelation}
        BY <2>11 DEF Doubtful
      <4>2. PICK q \in C : x = Tip(p, q)
        BY <2>9, <2>11, <3>2
      <4>3. q \notin K
        BY <2>10, <2>11, <4>1, <4>2
      <4> QED
        BY <2>7, <4>2, <4>3
    <3> QED
      BY <3>1, <3>2
  <2>12. ASSUME p.table # NoAlgebra, ~Round(p), NEW v \in Sure(p) PROVE v \in c.tokens
    <3>1. PICK x \in Composed(p) : x[2] \notin {Escalate, NoRelation} /\ v = x[1]
      BY <2>12 DEF Sure
    <3>2. PICK q \in C : x = Tip(p, q)
      BY <2>9, <2>12
    <3>3. q \in K
      BY <2>10, <2>12, <3>1, <3>2
    <3>4. v = End(p.edges, p.term, q)
      BY <3>1, <3>2 DEF Tip
    <3> QED
      BY <2>7, <3>3, <3>4
  <2> QED
    BY <2>8, <2>11, <2>12 DEF Whole
<1> QED
  BY <1>1, <1>2

(* What the closure of a definition claims holds: what is substituted for   *)
(* the term is what an uncontested chain defines it by, a cycle leaves the  *)
(* definition open, and it is open for nothing but a cycle or a contested   *)
(* chain.                                                                   *)
ClosureNeverOverreaches ==
    built # NoResult /\ proposal.harness = "definition" => Warranted(proposal.content, built)

(* compose_paths drops no path of a definition: it has at most 64 edges and *)
(* at most 1000 paths from the term.                                        *)
NoChainIsDropped ==
    built # NoResult /\ proposal.harness = "definition" => Spelt(proposal.content)

(* What was built for a definition is its closure, from edges fit for one.  *)
LEMMA BuiltDefinition ==
    ASSUME IInv, built # NoResult, proposal.harness = "definition"
    PROVE  LET p == proposal.content
           IN  built = CloseDefinition(p.term, p.edges, p.table) /\ Closable(p)
<1>1. PICK harness \in DOMAIN Proposals : proposal \in Proposals[harness]
  BY DEF IInv, Origin
<1>2. built = Result(proposal)
  BY DEF IInv, Origin
<1>3. PICK p : p = proposal.content
  OBVIOUS
<1>4. built = CloseDefinition(p.term, p.edges, p.table)
  BY <1>2, <1>3 DEF Result
<1>5. IsSeq(p.edges)
  BY <1>1, <1>3, ProposalsAssumption
<1>6. /\ \A e \in Range(p.edges) : e.predicate # Escalate
      /\ p.table # NoAlgebra => \A q \in DOMAIN p.table : NoRelation \notin Range(q)
  BY <1>1, <1>3, AlgebrasAssumption
<1>7. \A i \in 1..Len(p.edges) : p.edges[i].predicate # Escalate
  BY <1>5, <1>6, EdgesAre
<1> QED
  BY <1>3, <1>4, <1>5, <1>6, <1>7 DEF Closable, Unmarked

(* The answers that compositions support, for every proposal and whatever   *)
(* compose_paths (reasoning.py) drops: a contested chain is never answered, *)
(* every other by its composition, and the closure of a definition          *)
(* (definition_closure.py) claims nothing that its chains do not show.      *)
THEOREM AlwaysChainsAreAnswered == Spec => [](RelationsAnswered /\ ClosureNeverOverreaches)
<1>1. IInv => ClosureNeverOverreaches
  BY BuiltDefinition, ClosureIsSound DEF ClosureNeverOverreaches
<1> QED
  BY <1>1, AlwaysIInv, RelationsAre, PTL

(* A contested chain stays open, for every proposal whose definitions lose  *)
(* no path to the bounds of compose_paths: nothing is read from a contested *)
(* composition or from an algebra that was not extracted, and a definition  *)
(* is open exactly for a cycle or a contested chain.                        *)
THEOREM AlwaysContestedStaysOpen == Spec => [](NoChainIsDropped => ContestedStaysOpen)
<1>1. ASSUME IInv, NoChainIsDropped PROVE ContestedStaysOpen
  <2>1. ASSUME built # NoResult, proposal.harness = "definition"
        PROVE  ClosureIsHonest(proposal.content)
    <3>1. PICK p : p = proposal.content
      OBVIOUS
    <3>2. built = CloseDefinition(p.term, p.edges, p.table) /\ Closable(p) /\ Spelt(p)
      BY <1>1, <2>1, <3>1, BuiltDefinition DEF NoChainIsDropped
    <3>3. Warranted(p, built) /\ Whole(p, built)
      BY <3>2, ClosureIsSound, ClosureIsWhole
    <3>4. built.open \in BOOLEAN
      BY <3>3 DEF Warranted
    <3> QED
      BY <3>1, <3>3, <3>4 DEF ClosureIsHonest, Warranted, Whole, Round, Doubtful, Sure
  <2>2. RelationsAnswered
    BY <1>1, RelationsAre
  <2> QED
    BY <2>1, <2>2 DEF ContestedStaysOpen, RelationsAnswered
<1> QED
  BY <1>1, AlwaysIInv, PTL
=============================================================================
