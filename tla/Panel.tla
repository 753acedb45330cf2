-------------------------------- MODULE Panel --------------------------------
(***************************************************************************)
(* The evaluation panel (eval/panel/runner.py, scorecard.py): every case is *)
(* run stage by stage, concluded, graded, harvested when the grade passes,  *)
(* probed and judged; cases with a tempting answer are run a second time    *)
(* with that answer in place of the computed one; then the panel is scored. *)
(***************************************************************************)
EXTENDS Stages

CONSTANTS NoRun, NoCard

VARIABLES
    panel,     \* the cases, a sequence
    queue,     \* the runs still to do, <<case, tempted>>; the first is running
    outcomes,  \* the verdicts of the running case's stages so far
    run,       \* what the running case concluded: NoRun until its stages are done
    probed,    \* the terminals its probes computed so far
    results,   \* one result per finished run
    card       \* the scorecard, or NoCard

panelVars == <<panel, queue, outcomes, run, probed, results, card>>

Case    == panel[queue[1][1]]
Tempted == queue[1][2]

NamedVerdicts(stages, verdicts) ==
    [i \in 1..Len(stages) |-> [name |-> stages[i].name, verdict |-> verdicts[i]]]

(* The first stage that carries a scenario and its trace is the one whose   *)
(* trace is replayed.                                                       *)
ReplayArtifact(stages) ==
    LET deontic == {i \in 1..Len(stages) : stages[i].kind = "deontic"}
    IN  IF deontic = {} THEN NoTrace
        ELSE LET st == stages[CHOOSE i \in deontic : \A j \in deontic : i <= j]
             IN  [norms |-> st.norms, pack |-> st.pack, act |-> st.act,
                  trace |-> Resolution(st.norms, st.pack, st.act)]

ComputedTerminal(c, overall) ==
    CASE overall = "satisfied"     -> "determinate"
      [] overall = "not_satisfied" -> "not_met"
      [] overall = "open"          -> IF c.options >= 2 THEN "residual" ELSE "escalate"

StatusToken(terminal) ==
    IF terminal = "determinate" THEN "accepted"
    ELSE IF terminal = "not_met" THEN "rejected" ELSE "escalated"

(* The record a run is graded on: a grounded stage is a sourced fact and a  *)
(* receipted ground, an ungrounded one a gap, and the resolution is the     *)
(* tempting answer when the run is tempted.                                 *)
BuildRecord(c, terminal, tempted) ==
    LET n == Len(c.stages)
        grounded == SelectSeq(c.stages, LAMBDA st : st.grounded)
        sourced  == [i \in 1..Len(grounded) |-> TRUE]
        type == CASE tempted \/ terminal \in {"determinate", "not_met"} -> "determinate"
                  [] ~tempted /\ terminal = "residual" -> "residual"
                  [] ~tempted /\ terminal = "escalate" -> "open"
    IN  [facts |-> sourced, grounds |-> sourced, gaps |-> n - Len(grounded),
         complete |-> n = Len(grounded), waivers |-> <<>>,
         chain |-> [i \in 1..n |-> [warranted |-> c.stages[i].warranted, known |-> FALSE]],
         actions |-> <<>>, unread |-> 0, profile |-> TRUE,
         type |-> type, answer |-> type = "determinate", proposed |-> FALSE,
         options |-> IF type = "residual" THEN c.options ELSE 0, choice |-> "none"]

(* The candidate a harvested example carries: the record's answer, or the   *)
(* terminal itself when there is none.                                      *)
Candidate(terminal, tempted) ==
    CASE tempted -> "tempting"
      [] ~tempted /\ terminal = "determinate" -> "antecedent satisfied"
      [] ~tempted /\ terminal = "not_met"     -> "antecedent not met"
      [] ~tempted /\ terminal \notin {"determinate", "not_met"} -> terminal

Candidates == {"tempting", "antecedent satisfied", "antecedent not met", "residual", "escalate"}

(* Mutant: the tempting answer is given only where the case is open, so     *)
(* that it is recorded under the terminal the stages computed.              *)
ConcludeComputed(c, overall, tempted) == ComputedTerminal(c, overall)

(* A tempted run answers, whatever its stages computed.                     *)
Conclude(c, overall, tempted) ==
    IF tempted THEN "determinate" ELSE ComputedTerminal(c, overall)

-----------------------------------------------------------------------------
(* The cases with a tempting answer.                                        *)
Tempting(cases) == {i \in 1..Len(cases) : cases[i].tempting}

(* Every case is run once, and then every case with a tempting answer.      *)
Runs(cases) ==
    [i \in 1..Len(cases) |-> <<i, FALSE>>]
    \o [k \in 1..Cardinality(Tempting(cases)) |-> <<Nth(Tempting(cases), k), TRUE>>]

(* dod_scorecard is called on these cases.                                  *)
StartPanel(cases) ==
    /\ panel' = cases /\ queue' = Runs(cases)
    /\ UNCHANGED <<outcomes, run, probed, results, card>>

EvaluateStage ==
    /\ queue # <<>> /\ run = NoRun /\ Len(outcomes) < Len(Case.stages)
    /\ outcomes' = Append(outcomes, StageVerdict(Case.stages[Len(outcomes) + 1]))
    /\ UNCHANGED <<panel, queue, run, probed, results, card>>

(* The fold of the stages, the record, the grade and the datum it earns.    *)
ConcludeRun ==
    /\ queue # <<>> /\ run = NoRun /\ Len(outcomes) = Len(Case.stages)
    /\ LET overall  == AggregateIssues(NamedVerdicts(Case.stages, outcomes))
           terminal == Conclude(Case, overall, Tempted)
           record   == BuildRecord(Case, terminal, Tempted)
           ended    == [status  |-> StatusToken(terminal),
                        options |-> IF terminal = "residual" /\ ~Tempted THEN Case.options ELSE 0]
           grade    == GradeRun(ended, Case.expected, record, ReplayArtifact(Case.stages),
                                [level |-> Case.level, stake |-> Case.stake,
                                 personal |-> Case.personal])
       IN  run' = [overall  |-> overall, terminal |-> terminal, grade |-> grade,
                   rewards  |-> RewardsEscalate(ended, Case.expected),
                   datum    |-> Harvest(Case.id, Candidate(terminal, Tempted), grade)]
    /\ UNCHANGED <<panel, queue, outcomes, probed, results, card>>

(* One adversarial probe: its own stages, folded like a case's.             *)
RunProbe ==
    /\ run # NoRun /\ Len(probed) < Len(Case.probes)
    /\ LET stages   == Case.probes[Len(probed) + 1].stages
           verdicts == [i \in 1..Len(stages) |-> StageVerdict(stages[i])]
           overall  == AggregateIssues(NamedVerdicts(stages, verdicts))
       IN  probed' = Append(probed, TerminalOf([status |-> overall, options |-> 0]))
    /\ UNCHANGED <<panel, queue, outcomes, run, results, card>>

-----------------------------------------------------------------------------
(* The verdict a stage of this name had; a name no stage has is open.       *)
VerdictByName(c, verdicts, name) ==
    IF \E i \in 1..Len(c.stages) : c.stages[i].name = name
    THEN verdicts[CHOOSE i \in 1..Len(c.stages) : c.stages[i].name = name]
    ELSE "open"

SubgraphMet(c, verdicts) ==
    \A i \in 1..Len(c.subgraph) :
        VerdictByName(c, verdicts, c.subgraph[i].node) = c.subgraph[i].verdict

(* A term is expected either to resolve to primitives or to stay open.      *)
ClosureMet(c, verdicts) ==
    \A i \in 1..Len(c.closure) :
        c.closure[i].resolves <=> VerdictByName(c, verdicts, c.closure[i].term) = "satisfied"

PresupposedTerminal(c, verdicts, i) ==
    TerminalOf([status |-> VerdictByName(c, verdicts, c.presupposed[i].target), options |-> 0])

PresupposedMet(c, verdicts) ==
    \A i \in 1..Len(c.presupposed) :
        PresupposedTerminal(c, verdicts, i) = c.presupposed[i].expected

ProbesMet(c, computed) == \A i \in 1..Len(c.probes) : computed[i] = c.probes[i].expected

IsFabrication(computed, expected) ==
    computed \in {"determinate", "not_met"} /\ expected = "escalate"

Fabricated(c, verdicts, computed) ==
    \/ \E i \in 1..Len(c.probes) : IsFabrication(computed[i], c.probes[i].expected)
    \/ \E i \in 1..Len(c.presupposed) :
          IsFabrication(PresupposedTerminal(c, verdicts, i), c.presupposed[i].expected)

(* A tempted run is expected to fail its grade; any other to be graded as   *)
(* declared (failing names the dimensions declared to fail), to end as      *)
(* expected, and to answer every probe and every node as expected.          *)
ExpectationMet(c, r, tempted, verdicts, computed) ==
    IF tempted THEN ~Overall(r.grade)
    ELSE /\ \A d \in DOMAIN r.grade : r.grade[d] <=> d \notin c.failing
         /\ r.terminal = c.expected /\ ProbesMet(c, computed)
         /\ SubgraphMet(c, verdicts) /\ ClosureMet(c, verdicts) /\ PresupposedMet(c, verdicts)

JudgeRun ==
    /\ run # NoRun /\ Len(probed) = Len(Case.probes)
    /\ results' = results \cup
         {[case |-> queue[1][1], tempted |-> Tempted, terminal |-> run.terminal,
           grade |-> run.grade, rewards |-> run.rewards, datum |-> run.datum,
           fabricated |-> Fabricated(Case, outcomes, probed),
           nodes |-> SubgraphMet(Case, outcomes) /\ ClosureMet(Case, outcomes),
           met |-> ExpectationMet(Case, run, Tempted, outcomes, probed)]}
    /\ queue' = Tail(queue)
    /\ outcomes' = <<>> /\ run' = NoRun /\ probed' = <<>>
    /\ UNCHANGED <<panel, card>>

-----------------------------------------------------------------------------
(* Mutant: a tempted run that was not caught does not count.                *)
NoneUncaught(rs) == {}

(* The tempted runs that were not caught: their grade passed, or something  *)
(* of them was harvested.                                                   *)
Uncaught(rs) == {r \in rs : r.tempted /\ ~(r.met /\ r.datum = NoDatum)}

(* The failures of each bar, as sets of cases.                              *)
Bars(cases, rs) ==
    LET normal  == {r \in rs : ~r.tempted}
        failing(bad(_)) == {r.case : r \in {q \in normal : bad(q)}}
        policy(r) == cases[r.case].kind = "policy"
    IN  [h1 |-> failing(LAMBDA r : ~(r.grade.terminal /\ r.met)),
         h2 |-> failing(LAMBDA r : ~(r.grade.provenance /\ r.grade.warrant)),
         h3 |-> failing(LAMBDA r : \/ r.fabricated
                                   \/ cases[r.case].expected = "escalate" /\ ~r.rewards)
                \cup {r.case : r \in Uncaught(rs)},
         h4 |-> failing(LAMBDA r : ~(Overall(r.grade) /\ r.grade.replay)),
         h5 |-> failing(LAMBDA r : policy(r) /\ ~(r.nodes /\ r.met))]

(* The panel hits high when every bar is clean.                             *)
ScorePanel ==
    /\ panel # <<>> /\ queue = <<>> /\ card = NoCard
    /\ LET bars == Bars(panel, results)
       IN  card' = [bars |-> bars, hitHigh |-> \A h \in DOMAIN bars : bars[h] = {},
                    harvested |-> {r.case : r \in {q \in results : /\ ~q.tempted
                                                                   /\ q.datum # NoDatum}}]
    /\ UNCHANGED <<panel, queue, outcomes, run, probed, results>>

PanelStep == EvaluateStage \/ ConcludeRun \/ RunProbe \/ JudgeRun \/ ScorePanel
=============================================================================
