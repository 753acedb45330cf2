------------------------------- MODULE Grading -------------------------------
(***************************************************************************)
(* Grading a run against what its case expects, and harvesting training     *)
(* examples from the runs that pass (grading.py, datapump.py).              *)
(*                                                                         *)
(* A run is [status, options]: the token it ended with and the number of    *)
(* options it offers.                                                       *)
(***************************************************************************)
EXTENDS Contracts, Scenario

CONSTANTS NoTerminal, NoTrace, NoDatum

Terminals == {"determinate", "not_met", "escalate", "residual"}

Tokens == [determinate |-> {"accepted", "extracted", "satisfied", "determinate"},
           not_met     |-> {"rejected", "not_satisfied", "not_met", "unsatisfied"},
           escalate    |-> {"escalated", "escalate", "open"},
           residual    |-> {"residual", "choice", "choice_set"}]

(* At least two options make a residual before any token is read.           *)
TerminalOf(run) ==
    IF run.options >= 2 THEN "residual"
    ELSE IF \E t \in Terminals : run.status \in Tokens[t]
         THEN CHOOSE t \in Terminals : run.status \in Tokens[t]
         ELSE NoTerminal

NoViolation(levels) == "violation" \notin levels

TerminalCorrect(run, expected) == TerminalOf(run) = expected

(* The five dimensions.  artifact is the scenario, pack, act and trace of   *)
(* the run, or NoTrace; oversight is [level, stake, personal].              *)
GradeRun(run, expected, record, artifact, oversight) ==
    [terminal   |-> TerminalCorrect(run, expected),
     provenance |-> NoViolation(CheckEvidence(record)),
     warrant    |-> NoViolation(CheckWarrants(record)),
     floor      |-> NoViolation(CheckJudgmentFloor(record, oversight.level, TRUE,
                                                   oversight.stake, oversight.personal)),
     replay     |-> artifact = NoTrace
                    \/ VerifyTrace(artifact.norms, artifact.pack, artifact.act, artifact.trace)]

Overall(grade) == \A d \in DOMAIN grade : grade[d]

RewardsEscalate(run, expected) ==
    expected = "escalate" /\ TerminalOf(run) = "escalate"

(* Mutant: every graded run is training data.                               *)
HarvestAll(question, answer, grade) == [problem |-> question, candidate |-> answer, passed |-> TRUE]

(* Only a run that passed in every dimension becomes a verified record.     *)
Harvest(question, answer, grade) ==
    IF Overall(grade) THEN [problem |-> question, candidate |-> answer, passed |-> TRUE]
    ELSE NoDatum
=============================================================================
