# Loomground Solver: specification, model checking and proofs

This directory holds TLA+ models of `loomground_solver`
(`src/src/loomground_solver`): its decision core, the harnesses that turn a
proposed reading of a text into facts, and the evaluation panel that grades what
is concluded from them. The TLC configurations beside the models check them on
small instances; TLAPS proofs establish, for every instance, all but one of the
safety properties that the runs check, two of them as long as the code's search
for paths drops none. Every definition is translated from the
source; `PROJECT.json` gives, for each definition, the file and the lines it
stands for.

Run one model with `tlc -config <M>.cfg <M>.tla` (for instance
`tlc -config MCAssessment.cfg MCAssessment.tla`), the proofs with
`tlapm <M>Proofs.tla`, for `M` one of `Operator`, `Grounded`, `DecisionSpace`,
`Handler`, `Reason`, `RootCauses`, `Metacognition` and `Assessment`. The first
check of `Assessment` takes some nine minutes, of the others one to three.

Contents: [1 Inventory](#1-inventory) · [2 Plan](#2-plan) ·
[3 The modules](#3-the-modules) · [4 The runs](#4-the-runs) ·
[5 Fairness](#5-fairness) · [6 What is proved](#6-what-is-proved) ·
[7 Disagreements found](#7-where-code-and-documentation-disagree) ·
[8 Not modelled](#8-what-is-not-modelled)

## 1. Inventory

The package takes questions that have already been formalised (candidates with
evidence, policy graphs with activations, rules with facts, premises with
statuses) and answers them without choosing where nothing decides. Almost all of
it is pure functions over immutable values; state lives in the loops inside
those functions, in injected providers, and in two append-only files.

| Component (source) | State | Operations | What makes it correct |
|---|---|---|---|
| **Decision engine** (`decision.py`) | labels written in place during a scan; lists of valid and rejected candidates | `grounded_labels`, `decision_space` | the answer is the grounded labelling whatever the order of the list; the parts partition the submitted ids; invalid candidates move nobody's verdict; no winner is made up |
| **Request route** (`service.py`, `handler.py`, `validation.py`, `result.py`, `structural.py`, `configuration.py`) | locals of one request | capability negotiation, validation, preflight, verification per candidate, compilation, decision, result check | contract gaps are not held against candidates; every request is answered or raises; a failed candidate leaves nothing behind |
| **Evidence providers** (`evidence.py`, `ports.py`) | the inline entries; an injected store and its `graph_version` | `verify(ref)`, `resolve(ref)` | what was verified is what was resolved and recorded |
| **Policy language** (`loomground.py`) | the patch; worklist, in-degrees and effective verdicts of a walk; the partitions | `parse`, `validate`/`apply`, `_evaluate_with_log`, `reason`, `to_netlist`, `project` | the strictest verdict of a path wins; release needs every terminal; delegation, transfer and a token's claims confer nothing |
| **Governed risk** (`prom001.py`) | the risk table | `lookup`, `govern_token` | host-observed facts decide; a declared risk may only raise |
| **Governed improvement** (`addons/metacognition`) | proposal values at the host, two JSONL files per scope | draft, evaluate, authorize, promote, roll back, append, load | promotion rests on the evaluation that was authorized; no acknowledged record is lost in silence |
| **Status propagation** (`epistemic_status.py`) | colours, stack and path of a search | the folds, `root_causes` | the report orders the fold and does not contradict it; cycles are reported |
| **Issue aggregation** (`issue_aggregation.py`) | the prefix reached | ordered and unordered fold | OPEN dominates; only what was reached is carried |
| **Rule reasoning** (`subsumption.py`, `cross_subsumption.py`, `interpret.py`, `nested_exceptions.py`, `closure.py`, `principles.py`) | derived facts, rounds; the fact space | forward chaining, audit of a rule set, conditions in six dimensions | nothing is concluded that no rule gives; a silent fact space is not a denial where it is flagged |
| **Scenario and replay** (`scenario.py`, `rulepacks.py`, `replay.py`) | norms firing, survivors | resolve an act, turn the resolution into a case, verify a trace by deriving it again | one verdict or an escalation, decided by the highest norms |
| **Paths and closure** (`reasoning.py`, `relation.py`, `definition_closure.py`, `graph.py`, `topology.py`) | paths found, bounds; colours of a search | compose paths, compose relations, close a term | complete inside the bounds, a contested composition is never answered |
| **Reasoning contracts** (`contract.py`, `norm_contract.py`, `grading.py`, `burden.py`, `phases.py`, `case.py`) | none | RC-1 to RC-8, the gate, the five dimensions of a grade, the harvest | what is fabricated, unsourced or beyond its oversight does not pass |
| **Construction harnesses** (`causal_`, `structural_`, `temporal_`, `relational_`, `norm_`, `renewal_construction.py`, `precedent_ratio.py`, `gap_fork.py`, `auslegung.py`, `standard_eval.py`) | the proposal, the gate reached | decode, gate after gate, extract, reject or escalate | what comes out rests on the text; what does not is surfaced, not settled |
| **Evaluation panel** (`eval/panel`) | outcomes of a run's stages, its conclusion, probes, results, scorecard | run, tempt, probe, judge, score | an open case is not answered, a fabricated answer is caught |
| **Predicates, quantities, time** (`quantitative.py`, `canons.py`, `predicate.py`, `temporal.py`, `structural.py`) | none | thresholds in units, canon sets; pure evaluation | incommensurable is open, not false |
| **Measurement and screening** | none | numeric scores | out of scope (floating point) |
| **Harvest and corpus** (`datapump.py`, `corpus.py`) | records seen | filter, de-duplicate, pair | nothing unverified is emitted |
| **Add-on runtime, advisor, world model** | activated add-ons; beliefs | load, snapshot | only what is configured is active |
| **Adapters, methods, API, command line** | none | translation and reporting | - |

How they interact: the request route calls the provider once or twice per
reference and hands the valid candidates to `decision_space`, which calls
`grounded_labels`; scenario resolution calls the same `grounded_labels`. A
request with a policy program goes to `reason` instead and comes back through
the same result check. The metacognition functions never call the solver: they
meet it only through a host. `root_causes` calls the fold of
`issue_aggregation`, which calls `fold_verdicts`.

The other half of the package is a pipeline of values. A model proposes what a
text says; a **harness** puts the proposal through its gates and yields edges, a
rule, a term or a reading; from these a host builds a **fact space**; the
**stages** of a case ask it questions; the panel folds the verdicts, **concludes**
with a terminal, writes a record, **grades** it by the reasoning contracts and by
replaying the derivation, **harvests** it when the grade passes, **probes** the
case and **scores** the panel. Each link hands on less than it knew: an escalated
construction hands on no edges, and a fact space without edges denies what it
does not contain. Most of the properties of this half are about what survives
the whole way.

Behaviour that is hard to test: in-place writes during a scan whose order is the
caller's (decision engine); two provider calls with a live store between them
(request route); a worklist shared by all activations of a batch, and lists kept
in step by position (policy language); stale copies, crashes inside a write and
line separators inside a record (governed improvement); cycles in declared
dependencies (status propagation); a cascade of gates in which the first failure
decides between rejection and escalation, searches that stop at a bound without
saying so, and a run that is graded on its own claims (harnesses and panel).
`PROJECT.json` lists each such hazard at its
line with the properties that cover it, or the reason why none does.

## 2. Plan

Order: what every other part rests on first.

1. **Done.** `Argumentation`, `Grounded`, `Adjudication`, `GroundedProofs`: the
   labelling engine, its abstract specification, and the proofs.
2. **Done.** `DecisionSpace` over `Grounded`; `Handler` with a moving store.
3. **Done.** `PolicyGraph` and `Reason`: the policy language with governed risk.
4. **Done.** `JsonlLog` and `Metacognition`; `RootCauses`.
5. **Done.** `Chaining`, `CrossSubsumption`, `Paths`, `Scenario` over `Grounded`'s
   labelling, `Contracts`: what the pipeline rests on, as pure operators.
6. **Done.** `Gates` and the harnesses (`GraphHarness`, `RuleHarness`,
   `ReadingHarness`, `Standards`); `Stages`, `Panel` with the shipped cases; and
   `Assessment`, which composes them; `AssessmentProofs`.
7. **Done.** The safety properties of every machine, proved: `OperatorProofs`,
   then `DecisionSpaceProofs`, `HandlerProofs`, `MetacognitionProofs`,
   `ReasonProofs`, `RootCausesProofs`, and the harnesses in `AssessmentProofs`
   with the correctness of the three-colour search, of the search for paths and
   of the composition of chains.
8. **Open, proofs.** Nothing that the prover can reach: section 6 says what stays
   with TLC, and why.
9. **Open, models.** The pump over many records; nested exceptions; burden of
   proof and phases; the ordered aggregation. Section 8 says why they come last.

## 3. The modules

**Argumentation** is the vocabulary: labellings, the two tests the engine
evaluates (`AllOut`, `SomeIn`), and the reference definitions (`Complete`,
`IsGrounded`) that do not look at the code.

**Reachability** is what can be reached along the edges of a finite graph and
what it is to have no cycle: the reach of an activation and `_has_cycle` in
`loomground.py`, and the vocabulary in which the other searches are judged.

**Grounded** is `grounded_labels`, one visit of the inner loop per step. The
list of nodes is part of the input because labels are written in place: `order`,
`pos` and `changed` are the loop's own variables. `Skip`, `Accept`, `Defeat` and
`Leave` are the four outcomes of a visit, `NextPass` and `Return` those of the
`while`. `Abstract` maps it to **Adjudication**: one question, one grounded
answer, no order in sight.

**DecisionSpace** is `decision_space`: `Pass`/`Fail` per candidate,
`KeepAttacks`, `OrderPairs` (the pairwise `defeat`), the scan of `Grounded`
through `INSTANCE`, `Collect`. What `verify` and `defeat` answer is chosen in
`Init`, as both are functions of their arguments in one call.

**Handler** follows one candidate request: the service's capability answer,
`validate_request` and its exceptions, the preflight (`_request_errors`), then
per reference `VerifyRef` and `ResolveRef` as two steps, the structural
compiler, the decision and the result check. `StoreMoves` is the owner of an
injected provider: it may write the store and advance `graph_version` between
any two steps. Texts, spans and digests are members of `Text`; a source that is
absent is `Missing`. What `Compile` adds for a candidate, its pair and its
attacks, is added there and nowhere else; `payloads` is history, what each
`resolve` returned. The decision step is the grounded labelling of the valid
candidates, which the runs of `DecisionSpace` and the proofs justify. Requests
carry no `defeat`: the handler passes none.

**PolicyGraph** is the static part of `loomground.py`: the parsed patch, every
well-formedness rule of `validate` that bears on evaluation (`Valid`) and one
gate's own verdict (`GradedVerdict`), with guards over risk, reversibility,
uncertainty, kind, party and tags. Risks and grades are ranks on their ladders.

**Reason** is `reason()`: `Apply`, then with a risk table one step per
activation (`PassThrough`, `Null`, `Govern`), then two passes over the batch,
one for the trace and one for the verdicts. `Enter` computes reach and
in-degrees, `Visit` pops one gate of the worklist, and `AcceptAct`, `LeaveAct`,
`RejectAct` answer one activation. `CheckResult` is `validate_result`, run when
the batch came as a request through the handler; a call with a risk table
returns directly.

**JsonlLog** is one JSONL file as lines: appends continue a torn line, a record
whose text holds a Unicode line separator splits, and a load fails on a line
that does not parse. **Metacognition** puts the proposal's life and the two
stores over it on top, with a host whose variables may hold stale copies, that
may die in any append and read back what is on disk. `acked` and `granted` are
history variables: what was acknowledged, and what was authorized.

**RootCauses** is `root_causes`: the search frame by frame (`Pass`,
`CloseCycle`, `Descend`, `Finish`), then the classification, with the inner
search of `rests_on_open` dependency by dependency.

The pipeline from a proposal to a scorecard:

**Chaining** is `forward_chain` in list order with its exceptions, and `Sound`,
the audit of a rule set (`interpret.audit`: consistency, entailment of the
candidate, no falsified rule). **Paths** is `compose_paths` as the set of simple
paths within its depth, of which the result bound keeps the cheapest and of
equally cheap ones the first a depth-first walk finds (`Earlier`, `KeepBest`);
composition along a chain under a relation algebra with contested pairs
(`Escalate`); the three-colour cycle search; and `close_definition`. **CrossSubsumption** evaluates a condition in its dimension
over a fact space, with `_reachable` on top of `compose_paths`, and folds
verdicts. **Scenario** resolves an act: orderings of the pack to attacks, the
grounded labelling, the verdict off the survivors; and verifies a trace by
deriving it again. **Contracts** is RC-1 to RC-8 and their gate, with the three
norm checks the harnesses call. **Quantities** is a threshold put to a money, a
duration or a number. **Grading** is a run's terminal, its five graded dimensions
and the harvest.

**Gates** is what all harnesses share: `FirstFailing` gate of a sequence, and
whether it rejects or escalates. **GraphHarness** (causal, structural, temporal,
relational), **RuleHarness** (norm, ratio, renewal), **ReadingHarness** (gap,
canons) and **Standards** are the ten harnesses, each a sequence of gate names in
the order of the code and one predicate per gate. A span is reduced to whether it
grounds, a date or duration to whether it parses, a confidence to hundredths.

**Stages** is what a panel case is made of and what each kind of stage computes.
**Panel** is the runner and the scorecard as a state machine: `EvaluateStage`,
`ConcludeRun` (fold, record, grade, datum), `RunProbe`, `JudgeRun`, `ScorePanel`;
`queue` holds the honest runs and then the tempted ones. **PanelCases** and
**PanelPolicies** transcribe the fifteen shipped cases with what their stages
compute over. **Assessment** puts it together: `Construct` runs a harness on a
proposal, `Hand` builds the fact space the proposal's case asks, and the panel
takes it from there; a panel of cases may also start at once.

Each **…Proofs** module extends the module it is about; `OperatorProofs` holds
the lemmas about operators that several of them cite.

Definitions whose comment begins with "Mutant:" are deliberate faults. They
are never part of a specification; each is a plausible bug of the code that
some property must catch (`PROJECT.json`, "mutants").

## 4. The runs

All properties hold for every input of the instance; states and times are of
one run with two workers.

| Run | Instance | Size |
|---|---|---|
| `grounded` | every list of at most three distinct nodes, every attack relation | 22 100 states, 10 s |
| `decision_space` | lists of two and three candidates, every outcome of `verify`, every subset of five declared attacks, every answer of `defeat` or none | 83 000 states, 10 s |
| `handler` | two and three candidates; one or two references each; stores of two sources; one move; envelopes with each field good and bad | 150 000 states, 20 s |
| `reason` | about 1 600 patches times eight batches, five plain and three under a risk table | 94 000 states, 70 s |
| `root_causes` | every dependency graph on three premises, settled and not; repeated names; a dependency that names nothing | 89 000 states, 12 s |
| `metacognition` | two proposals, two host variables, two records in memory, two appends | 451 000 states, 65 s |
| `assessment` | every proposal of the instance to nine harnesses and the definitional closure, the shipped panel, 1 260 small cases, policy variants, the norm conflicts of one act, standards that are met or not and one with an empty verdict | 225 000 states, 25 s |
| `reason_duplicate`, `reason_alien`, `root_causes_cyclic`, `metacognition_scopes`, `truncated_paths` | the same modules; each violates one documented statement (section 7) | seconds; `truncated_paths` a minute |

What each shows:

- **`grounded`**: `Justified` and `Skeptical` at every step, not only at the
  end; `QuietPrefixStable`, the reason one quiet pass suffices;
  `ReturnsGrounded`; and `ImplementsAdjudication`, the refinement with its
  liveness.
- **`decision_space`**: the labels are the grounded labelling of the valid
  candidates alone, and the rejected are exactly the failed and the defeated,
  with their reasons (`AnswersForTheValid`); where the host cannot separate two
  candidates, neither is accepted unless a third accepted candidate beats the
  other (`NoFabricatedWinner`).
- **`handler`**: an answer that is no decision names nobody and read no
  evidence, and a decision is made only over references to the snapshot seen at
  the preflight (`GapsPrecedeVerdicts`); on a store that did not move grounding
  is independent of the number and order of references
  (`GroundedOnStillStore`); on a moving one, nobody is accepted or left
  undecided without a receipt for each reference and a payload, among those
  resolved for it, that carries its claim (`ReceiptForEveryReference`); failed
  candidates leave neither pair nor attack behind, and each valid one has its
  pair in the decision once (`FailedAreInert`);
  `EveryRequestEnds`.
- **`reason`**: every logged verdict is the strictest on any path from the
  source (`StrictestOnEveryPath`); the log is a topological order
  (`LogIsTopological`); release needs every reached gate and every obligation
  (`MediationIsComplete`); each activation is answered once by its own
  terminals (`AnsweredOnItsOwn`); link-by-link checks at apply stage add up along
  the whole chain (`DelegationConfersNothing`, `OnwardAsMandated`); with a risk
  table no declared kind or risk can release what the host's observation alone
  withholds (`ClaimBuysNothing`); the log shows each activation's own declared
  token (`DualRecord`); `EveryBatchEnds`.
- **`root_causes`**: only premises on cycles are reported and none of the cycles
  survives without them (`CyclesAreBroken`); derived premises are those that
  rest on an unsettled one (`DerivedRestsOnOpen`); the report never contradicts
  the fold, even with repeated names (`OrdersTheFold`); `Terminates`.
- **`metacognition`**: whichever stale copy the host uses and however often it
  dies, an authorized or promoted proposal carries the evaluation that was
  authorized (`PromotionIsEarned`), and a load returns every acknowledged record
  in order or fails (`NoSilentLoss`).
- **`assessment`**, the panel: a case with an open stage is neither answered nor
  harvested as answered (`OpenIsNeverAnswered`); the fabricated answer to a case
  that expects none fails and is not harvested (`TemptationIsCaught`); from a
  case about a person only an open end reached at the manual level is harvested
  (`HumanOriginates`); a scorecard that hits high means what the definition of
  done says, run by run (`HitHighIsHonest`), and the shipped panel does hit high
  (`ShippedPanelHitsHigh`), which also holds every transcribed case to the
  expectation its author wrote.
- **`assessment`**, the derivation: the highest norms of an act decide it,
  whatever the lower ones say and however they attack one another
  (`HighestNormsDecide`).
- **`assessment`**, the harnesses, each judged by what a case concludes in the
  end: a yes about causes or kinds follows from stated, grounded, confident
  links, and no no is given about a link found presupposed or a term found
  undefined (`GraphAnswersFollowTheText`); an extracted taxonomy or ordering has
  no cycle, wherever the search starts (`OrderedIsAcyclic`); a contested
  composition anywhere along a chain leaves chain and term open
  (`ContestedStaysOpen`); a rule's conclusion rests on grounded elements that all
  stand among the facts, a precedent's on what its holding needed
  (`RulesRestOnTheText`); and no reading goes beyond the wording it is capped by
  (`WordingIsTheLimit`).

Preconditions inside the properties. `MediationIsComplete`, `AnsweredOnItsOwn`,
`OnwardAsMandated` and `ClaimBuysNothing` speak of an activation through its id,
so they hold where ids are distinct; what happens otherwise is the run
`reason_duplicate`. `ClaimBuysNothing` also asks for grants and clauses that are
monotone in risk (`Monotone`): a grant for the strictest tier only, or a clause
`risk = medium`, makes a raised risk an advantage by the policy's own words, and
the `reason` run includes such policies for the other properties.
`TemptationIsCaught` speaks
of cases that do not expect a determinate answer (section 7 says what happens to
the others), `OpenIsNeverAnswered` of runs that are not the deliberate
temptation. `GraphAnswersFollowTheText` denies a no about a presupposed link
only short of a rejection: a rejected construction surfaces nothing.

Why the bounds are enough. The engine's order effects need a node whose
attackers come later in the list and a second pass: three nodes have both, odd
cycles, self-attacks and reinstatement (beyond that, the proofs). A path
property of a policy graph needs a fork, a join and a terminal in the middle:
the four-gate diamond has them, and all three-gate graphs are enumerated.
Delegation is checked along a chain of three, which is what tells link-by-link
from end-to-end. The risk table has a key at each level of the lookup but the
one without a context, and batches have a rejected activation before and after a
governed one. One move of the store is enough to fall between any two
calls of a request. Two appends allow a torn line to be continued, which is the
shortest loss. A second cycle through a finished premise needs three premises.
For the harnesses, every gate must be the first to fail: two causal claims and
three edges give a clash of a literal with its negation, a loop, a cycle off the
first node, a diamond and an undefined term, and the confidences 84, 85 and 100
stand on either side of the floor. Two relation names give every algebra over
them, with contested pairs, and chains of three tell one composition from two.
Answers of the canons agree, differ, fail each of the four tests and reach past
their cap. Two norms with two ranks, two specificities and three modalities give
each ordering of a pack its say, and a third gives reinstatement. Small cases
combine every expectation, five kinds of stage, options, temptation, probes and
oversight; policy variants reach a node that no stage evaluates.

Bounds in guards: `MaxMoves` (moves of a store), `MaxRecords` and `MaxWrites`
(records in memory, appends begun). The bounds of `compose_paths` are the code's
own. Nothing else is cut.

Symmetry is used in the metacognition runs only, over the host's variables,
which no property names; no liveness is checked there.

`CHECK_DEADLOCK FALSE`: each of these systems stops when its call has returned;
the host of `Metacognition` stops when the bounds are used up. That
calls do not stop early is what the liveness properties say.

The two theorems that suppose that `compose_paths` drops nothing
(`NoPathIsDropped`, `NoChainIsDropped` in `AssessmentProofs`), and the one about
the stages of a case (`NoTaxonomyIsCut`), are not about a corner: in all states of
the `assessment` instance TLC finds the three hypotheses true. Only the taxonomy
of `truncated_paths` is beyond them.

## 5. Fairness

Every modelled function runs on its caller's thread, holds no lock and waits for
nothing, so `WF_vars(Next)` of its own steps says only that a call in progress
goes on. In `Handler` fairness is on the handler's steps alone: the owner of a
store owes nobody a move. `Metacognition` has none: no host must ever
evaluate, authorize or promote. `Assessment` has none either: its properties are
about what may be concluded, and a panel has no loop whose end is in doubt.

## 6. What is proved

For every value of the constants that meets the named assumptions:

| Module | Properties proved | From |
|---|---|---|
| `GroundedProofs` | `TypeOK`, `Justified`, `Skeptical`, `QuietPrefixStable`, `ReturnsGrounded`, and the safety half of the refinement to `Adjudication` (`EngineAnswersOnce`) | `OrdersAssumption`, `NoAnswerAssumption` |
| `DecisionSpaceProofs` | `AnswersForTheValid`, `NoFabricatedWinner` | `ListsAssumption`, `DeclarableAssumption` |
| `HandlerProofs` | `GapsPrecedeVerdicts`, `GroundedOnStillStore`, `ReceiptForEveryReference`, `FailedAreInert` | `RequestsAssumption`, `StoresAssumption` |
| `ReasonProofs` | `StrictestOnEveryPath`, `LogIsTopological`, `MediationIsComplete`, `AnsweredOnItsOwn`, `DelegationConfersNothing`, `OnwardAsMandated`, `ClaimBuysNothing`, `DualRecord` | `GraphAssumption`, `NoTokenAssumption`, `PatchesAssumption`, `SubmissionsAssumption` |
| `RootCausesProofs` | `CyclesAreBroken`, `DerivedRestsOnOpen`, `OrdersTheFold` | `ListsAssumption` |
| `MetacognitionProofs` | `PromotionIsEarned`, `NoSilentLoss` | `OutcomesAssumption`, `NamesAssumption` |
| `AssessmentProofs` | `TypeOK`, `OpenIsNeverAnswered`, `TemptationIsCaught`, `HumanOriginates`, `HitHighIsHonest`, `HighestNormsDecide`, `WordingIsTheLimit`, `RulesRestOnTheText`, `OrderedIsAcyclic`; `GraphAnswersFollowTheText` and `ContestedStaysOpen` as long as no path is dropped, and what is left of them when some are | `PanelsAssumption`, `CasesAssumption`, `ProposalsAssumption`, `AlgebrasAssumption`, `MarkersAssumption`, `NoProposalAssumption`, `NoDatumAssumption`, `DimensionsAssumption` |

The assumptions say of the inputs what the code's constructors say of them, no
more: lists without repetition, requests, patches, activations, premises and
cases with the fields of their types, finite sets of gates and actors, and
tokens for "nothing yet" that differ from what they stand beside.
`RequestsAssumption` also says that a well-formed request has what
`validate_request` has checked when it is let past (`PassesValidation`).
`PanelsAssumption` leaves out the empty panel, of which everything is true.
`CasesAssumption` asks the taxonomy of a structural stage to be made with `is_a`, as
`stages.py` tells authors to. `AlgebrasAssumption` says that a model's algebra and
chains name relations, not the marker `Escalate` that the code tests for; that a
relational proposal has an algebra; and that a definition's table has entries for
relations only. `MarkersAssumption` says that the two markers differ.
TLC evaluates each of them in the run of its module.

Each proof has the same frame: an inductive invariant `IInv`, of named
parts, that TLC has checked on the instance of the run; one lemma per action that
it is preserved; and for each property of the run a theorem that it follows.
Below, what `IInv` adds and why the properties are not inductive without it.

### Lemmas about operators

The prover has no induction over data. What would be shown by induction is shown
here by a minimal counterexample: among the values of a well-founded set for
which a claim fails, one below which it does not (`MinimalSet`, `SmallestNat`).
From this come the iteration of a step (`IterationExists`) and, for a graph
without cycles, functions defined by recursion along its edges
(`RecursionOnGraph`); so a recursive function of the model can be shown to exist
and then be used by its equation. `ClosureProperties` says that `Closure`, which
iterates a fixed number of times, is the least set closed under the edges. The
rest is about grounded labellings: there is at most one (`GroundedUnique`), and
what it is when all the attackers that matter are known (`OneSideWins`,
`NobodyWins`).

### The labelling engine and the decision space

`ReturnsGrounded` is not inductive: the last step of a scan only knows that the
pass was quiet. The invariant is

    IInv == TypeOK /\ Justified /\ Skeptical /\ QuietPrefixStable /\ DoneQuiet

`Justified` says labels rest on labels; with `Skeptical` a new label agrees with
every complete labelling, because each of these calls for the same label once
the attackers' labels agree (`DecidePreserves`). `QuietPrefixStable` is the
loop's reason to stop: while nothing has changed in this pass, nodes behind the
scan could not be labelled; a step that writes a label sets `changed` and
makes it vacuous, and one that does not extends the prefix (`QuietStep`).
`DoneQuiet` keeps the end of the quiet pass available after the return. A
labelling that is justified and stable everywhere is complete
(`StableIsComplete`), and below every complete one it is grounded
(`QuietIsGrounded`).

`DecisionSpaceProofs` does not prove the scan again: `GP` is `GroundedProofs`
for the valid candidates, and its step lemmas are cited. What is added is the
framework the scan is handed: `Sieved` (`valid` is the list without the failed,
in order), `Rejections` and `Contest` (the attacks built so far), and
`Unfabricated`, that of two candidates attacking each other one is in only when
a third beats the other. That is inductive for the scan but not implied by
the grounded labelling being returned in the end.

### The request route

A verdict on a candidate rests on what the loop has read so far, so `IInv` says
for every position of the loop what has been sorted into `valid` and `failed`
(`Sorted`, with the pairs and attacks of the valid ones), which receipts exist
and which payload carried a claim (`Read`), what the verdicts mean as long as the
store has not moved (`Still`), which snapshot every reference names beyond the
preflight (`Gated`), and what each kind of answer was made from (`Answered`).

### The policy language

`IInv` follows a batch through its two passes: what `apply` and governing have
made of it (`Inputs`, `Aligned`, the lists kept in step by position), the phase
(`Phased`), the worklist (`Walked`: a gate's count of unseen predecessors, and
the verdict joined so far), the log (`Logged`) and the partitions (`Answered`).
That a worklist, which looks at each edge once, computes what the definition says
path by path is `JoinedAlongPaths`; that asking the terminals is asking every
gate reached is `TerminalsSpeakForAll`; both hold because the patch has no cycle
and, a gate being popped when its last predecessor is, none is starved. Along a
chain of delegations the checks of `apply` on each link add up by the same
argument.

### Root causes

The search misses premises that lie on a cycle, so "nothing unreported is on a
cycle" cannot be carried along. What is carried (`Unlooped`) is that every set of
finished, unreported premises has one that none of the set rests on. `Stacked`
says that the path is the stack, and `Followed` where each dependency of a grey
premise is; a premise is finished when all of its dependencies are, so it is the
source of any set it joins. A cycle among what is left would be a set without a
source. `Sorted` and `Rested` follow the classification: what has been seen of a
premise's basis is settled, and the rest of it is still waiting.

### Governed improvement

`PromotionIsEarned` says nothing of copies the host has not used yet. `Typing`
therefore asks of every proposal value in any variable that it was authorized on
the evaluation it carries, and `OnDisk` the same of every line of a file: the
host may read any of them back. `NoSilentLoss` is inductive beside these; its
step is that an append to a torn line garbles that line and no other.

### The panel

`OpenIsNeverAnswered`, `TemptationIsCaught`, `HumanOriginates` and
`HitHighIsHonest` are facts about the step that concludes a run and the ones that
judge and score it: an open verdict dominates the fold (`OpenDominates`,
`ComputedTerminalIsOne`); a tempted run is recorded as determinate, so its
terminal fails wherever something else was expected (`AcceptedIsDeterminate`); a
resolved answer over a person fails the floor, and an open one needs the manual
level (`FloorOverAPerson`); the harvest asks for the overall grade
(`ConcludedRun`); and the bars of a card leave no run out (`CleanBars`). To make
invariants of them, `Origin` says that a panel is what was given or handed over,
`Queued` that each run is either queued or has its one result, `Evaluated` that
the verdicts beside a run are those of its stages, and `Judged` and `Scored` that
results and card keep what was true when they were made.

### The derivation and the harnesses

These are facts about operators; `IInv` ties them to the verdicts recorded
(`Evaluated`) and to the construction (`Origin`). A construction that comes out
passed every gate (`AcceptedPasses`).

- `HighestNormsDecide`: the order of a pack compares the attributes one by one,
  an order with ties (`PrevailsIsOrder`), so every norm is at or below one that
  nothing precedes (`TopOfOrder`). If the highest norms agree, the labelling that
  lets them in and all who contradict them out is grounded, and otherwise the
  highest of both sides stay undecided (`OneSideWins`, `NobodyWins`). By
  `GroundedUnique` that is what the engine returns.
- `WordingIsTheLimit`, `RulesRestOnTheText`: gate by gate. What is chained from a
  single rule is one round of it (`ChainOfOne`), which is all that the harnesses
  hand on.
- `OrderedIsAcyclic`: the three-colour search. Its stack is a trail of the grey
  nodes (`Trailing`); what follows a black node is black, and every set of black
  nodes has one that nothing in the set leads to (`Closed`). `LeavingKeeps`,
  `PassingKeeps` and `EnteringKeeps` preserve both. When no cycle is found every
  start is black, and the nodes on a cycle, all of which have an edge and are
  starts, would be a set without a source (`NoCycleFound`, `CycleHasNoSource`).
  The model runs the search for a number of steps, so that it ends within them is
  part of the proof: each step lowers `Cost`, which counts the white nodes, the
  places on the stack and the successors still to look at (`StepsCost`,
  `SearchEnds`).

- `GraphAnswersFollowTheText`, `ContestedStaysOpen`: next.

### Paths, chains and closures

What the code claims about a graph it reads off the paths of `compose_paths`,
while the properties speak of links and of what they lead to. Three facts connect
them, each for graphs of any size.

*Paths.* The paths within a depth are the least set that holds the empty path
and, with a path, each longer one by an edge to where it has not been
(`PathsProperties`). A path visits no place twice, so it is shorter than the number
of edges (`OnwardIsShort`), and no depth at or above that number cuts anything:
the ends of the paths are exactly what the links lead to (`PathsReach`,
`PathsAreLed`). Keeping the best loses none as long as they are no more than the
cap (`KeepBestKeeps`, `ComposedPaths`), and never adds one. So `Reaches` is
sound whatever is dropped, and complete if nothing is (`ReachesIsReached`).

*Chains.* `FoldLeg` starts again after a contested composition and sets a flag
beside it; the reference `Composition` stays contested for good. Along a chain
the two agree leg by leg (`ChainIsComposed`), as long as the chain's own relations are
not the marker.

*Closures.* The reference collects pairs of a term and what the relations so far
compose to, over chains that may go round. Every path is such a chain
(`PathsAreComposed`), so what a closure substitutes is always warranted by one
(`ClosureIsSound`). As long as no cycle can be reached from the term, every chain
is also the end of a path (`ComposedArePaths`), so nothing is missing
(`ClosureIsWhole`); otherwise the closure is open because the search reports the
cycle. That needs the converse of `OrderedIsAcyclic`: from one start, the search
finds a cycle exactly if one can be reached (`OneStart`, `DefinitionCycles`). Each
node of its stack leads to those above it (`Tracks`), so an edge back to a grey
node closes a cycle.

The theorems, with what `_reachable` and `close_definition` give up to the bounds
of `compose_paths` stated apart:

- Without any hypothesis: `AlwaysAnswersFollow` (a yes about causes or kinds
  follows from what the text states; nothing presupposed or undefined is denied),
  `AlwaysStagesAreHonest` (the same of a structural stage of a case) and
  `AlwaysChainsAreAnswered` (a contested chain is never answered; what a closure
  substitutes is warranted, and it is open for nothing but a cycle or a contested
  chain).
- When no path is dropped, `AlwaysGraphAnswersFollowTheText` and
  `AlwaysReachedUnlessCut`: a no is right too. For taxonomies of no more paths
  than `max(200, n * n)` the docstring that `truncated_paths` refutes is a
  theorem.
- When a definition has at most 64 edges and a thousand paths,
  `AlwaysContestedStaysOpen`: nothing coherent is missing from a closure.

### What is only model-checked

- Liveness (`ImplementsAdjudication` with its fairness, `EveryRequestEnds`,
  `EveryBatchEnds`, `Terminates`): progress under fairness is outside what the
  prover handles.
- A no about kinds, and a closure, beyond the bounds of `compose_paths`: not true
  of every graph (run `truncated_paths`), so no proof can be had.
- `ShippedPanelHitsHigh` speaks of one panel: the run is its proof.
- The five runs that expect a violation, which are counterexamples.

## 7. Where code and documentation disagree

| Run | Statement | What the code does |
|---|---|---|
| `reason_duplicate` | `docs/contracts/reasoning-interop.md:126-129`: a token id is accepted only when every reached terminal acts | answers are per activation and filed per token id: two activations of one token put its id in two partitions |
| `reason_alien` | the same document, 132-134: a non-dict activation is rejected as `invalid` | `reason` does so, but `validate_result` then calls `.get` on it, or on a token that is neither a dict nor empty, and the request fails |
| `root_causes_cyclic` | `epistemic_status.py:318-320` and decision record 003: a premise on a cycle is `cyclic` | a premise whose way back leads through a finished premise is not recorded and is reported by its own status, as root, derived or settled. In the trace n1 rests on n2 and n3, n2 on n1, n3 on n2, and n3 is presupposed: n1 and n2 are cyclic and n3 is a root, though n3-n2-n1-n3 is a cycle |
| `metacognition_scopes` | `lifecycle.py:62`, `docs/guides/addons.md:116-117`: stores are isolated by scope | the file name is the sanitised scope id, and different ids give one name |
| `truncated_paths` | `cross_subsumption.py:274-275`: the depth bound is the edge count, "so any acyclic path is found" | `_reachable` also bounds the number of results (line 285): in a taxonomy of ten layers of two kinds the paths between the layers fill it before a direct link named last is met, and the condition is denied. The truncation is only logged |

Neighbouring facts the models show without a run of their own: a derived
premise may rest on an unsettled premise that is itself cyclic, in which case
the report names no root for it; and the preflight's snapshot check is made
once, so a decision is to be read as one for the snapshot seen there. Nor
does `_verify_candidate` check a digest again on what `resolve` returns: if the
content changes between the two calls, the claim is judged by the new content.
And a proposal copy that was authorized stays promotable after the same proposal
was evaluated anew and failed: `promote` sees the copy it is handed, which carries
the evaluation it was authorized on. `PromotionIsEarned` asks for no more. In the
pipeline:

- a probe that expects a residual can never pass, since a probe's verdict is
  turned into a terminal without options (`eval/panel/runner.py:194-202`), and
  an answer given to it is not counted as a fabrication;
- the fabricated answer to a case that does expect a determinate one passes its
  grade and is harvested; only the third bar notices;
- a policy node that no stage evaluates computes as open, and passes when open is
  what was expected of it;
- a case with several norm conflicts replays the first one only;
- resolving an act without a norm raises (`eval/panel/stages.py:297`);
- `has-part` and `part-of` become the same predicate in the same direction
  (`structural_construction.py:80`), so one of the two reads backwards;
- NT-4 asks a deontic operator of every rule (`norm_contract.py:178-186`), but
  `construct_norm` runs the check only on a norm that has one and takes any other
  as a rule that establishes a fact (`norm_construction.py:390`);
- an escalated structural or causal construction hands on no edges, so a question
  it would have settled is denied downstream unless the host carries the flagged
  terms and presupposed links into the fact space; `Assessment` models the host
  that does.

## 8. What is not modelled

`PROJECT.json` lists every component with its status. In the modelled ones,
these details are abstracted: texts, spans, locators and digests (members of a
small set), wording of reasons, fingerprints, the content of traces other than
the log of `reason`, and the fields of a policy program that evaluation never
reads (reservation quorums, redress, role names, display names). The text form
of a policy program (`parse`, `to_netlist`) and its projection are layout.
Floating-point scores are beyond TLC.

Left out, and why:

- the ordered walk of `issue_aggregation`: no part of the package calls it;
- `datapump` over many records and the corpus files: the panel hands the harvest
  one run at a time, and pairing records is text comparison;
- nested exceptions, principles, and the closure of deontic operators: nothing
  modelled here calls them; burden, phases and the case record's own validation
  are tables and constructors;
- formulas of `predicate.py` and the interval arithmetic of `temporal.py`: pure
  evaluation that no modelled part rests on;
- `max_rounds` of the chain (a thousand): only a list of as many dependent rules
  meets it, where it stops short without notice;
- a confidence that is not a number: no comparison puts it below the floor.
  Confidences here are hundredths;
- the decoding of a model's JSON, prompts, and the skills and tools directories.

Facades, adapters and the command line hold no state of their own. Two processes writing one
JSONL file at the same time are not modelled: the stores take no lock and
promise nothing about it. `evaluate()` called directly on a program that
`apply()` would refuse is outside `Reason`, which begins with `apply()`.
