------------------------------ MODULE Contracts ------------------------------
(***************************************************************************)
(* The reasoning contract RC-1..RC-8 over a case record (contract.py) and   *)
(* the three checks of the norm-theory contract the constructions run over  *)
(* an extracted pair (NT-4, NT-5 and NT-9, norm_contract.py).  A check is   *)
(* the set of the levels of its findings, {} when it passes.                *)
(*                                                                         *)
(* A case record:                                                           *)
(*   facts, grounds   whether each carries a source, or a receipt           *)
(*   gaps, complete   the number of gaps; whether coverage claims 1.0       *)
(*   waivers          whether each is owned (actor and rationale)           *)
(*   chain            steps [warranted, known]: a warrant is named, the     *)
(*                    step's name is in the profile's vocabulary            *)
(*   actions          [obligation, norm, held]                              *)
(*   unread           grounds with an exception no step examines            *)
(*   profile          whether the profile is a known one                    *)
(*   type, answer, options, proposed                                        *)
(*                    the resolution's type, whether it names an answer,    *)
(*                    how many options it offers, whether one is proposed   *)
(*   choice           "none", or "owned", "anonymous" (no actor),           *)
(*                    "rubber_stamp" (no rationale), "foreign" (not an      *)
(*                    option)                                               *)
(***************************************************************************)
EXTENDS Integers, Sequences, FiniteSets

Levels == <<"autonomous", "notify", "review", "approve", "supervised", "manual">>

LevelRank(level) == CHOOSE i \in 1..Len(Levels) : Levels[i] = level

RequiredOversight(esc, stake, personal) ==
    IF personal THEN "manual" ELSE IF esc /\ stake THEN "approve" ELSE "autonomous"

IsEsc(c) == c.type \in {"residual", "open"}

Has(seq, x) == \E i \in 1..Len(seq) : seq[i] = x

Raise(condition, level) == IF condition THEN {level} ELSE {}

(* RC-1.                                                                    *)
CheckEvidence(c) ==
    Raise(\/ Has(c.facts, FALSE) \/ Has(c.grounds, FALSE) \/ Has(c.waivers, FALSE)
          \/ c.gaps > 0 /\ c.complete, "violation")

(* RC-2: a step without a warrant asks for a human; it is never a violation.*)
CheckWarrants(c) == Raise(\E i \in 1..Len(c.chain) : ~c.chain[i].warranted, "escalate")

(* RC-3.                                                                    *)
CheckResolution(c) ==
    Raise(\/ c.type \notin {"determinate", "residual", "open"}
          \/ c.type = "determinate" /\ ~c.answer
          \/ c.type = "residual" /\ (c.options < 2 \/ c.choice \in {"foreign", "rubber_stamp"}),
          "violation")
    \cup Raise(c.type = "residual" /\ c.choice = "none", "escalate")

(* Mutant: the floor looks at the configured level only.                    *)
FloorByLevel(c, level, active, stake, personal) ==
    Raise(/\ active
          /\ LevelRank(level) < LevelRank(RequiredOversight(IsEsc(c), stake, personal)),
          "violation")

(* RC-4.                                                                    *)
CheckJudgmentFloor(c, level, active, stake, personal) ==
    LET esc       == IsEsc(c)
        effective == IF active THEN level ELSE "autonomous"
        human     == (esc /\ stake) \/ personal
    IN  Raise(\/ LevelRank(effective) < LevelRank(RequiredOversight(esc, stake, personal))
              \/ human /\ c.type = "determinate"
              \/ human /\ c.type # "determinate" /\ c.choice = "anonymous", "violation")
        \cup Raise(human /\ c.type # "determinate" /\ c.choice = "none", "escalate")

(* RC-5.                                                                    *)
CheckActions(c) ==
    LET resolved == c.type = "determinate" \/ (c.type = "residual" /\ c.choice # "none")
    IN  Raise(\/ c.actions # <<>> /\ ~resolved
              \/ \E i \in 1..Len(c.actions) : ~c.actions[i].obligation \/ ~c.actions[i].norm,
              "violation")
        \cup Raise(\E i \in 1..Len(c.actions) : c.actions[i].norm /\ ~c.actions[i].held,
                   "escalate")

(* RC-8, looked at only when the case closes.                               *)
CheckNormCompleteness(c) ==
    Raise((c.type = "determinate" \/ c.proposed) /\ c.unread > 0, "escalate")

(* RC-7.                                                                    *)
CheckProfile(c) ==
    Raise(~c.profile \/ \E i \in 1..Len(c.chain) : ~c.chain[i].known, "escalate")

CheckCase(c, level, active, stake, personal) ==
    CheckEvidence(c) \cup CheckWarrants(c) \cup CheckResolution(c)
    \cup CheckJudgmentFloor(c, level, active, stake, personal) \cup CheckActions(c)
    \cup CheckNormCompleteness(c) \cup CheckProfile(c)

(* gate: the case goes on when no finding is a violation.                   *)
GateCase(c, level, active, stake, personal) ==
    "violation" \notin CheckCase(c, level, active, stake, personal)
-----------------------------------------------------------------------------
(* An extracted pair: its modal is "binding", "discretionary" or "none";    *)
(* exceptional says its body reads like an exception, flagged that the pair *)
(* declares one; its confidence is in hundredths.                           *)
ConfidenceFloor == 85

(* NT-4, for a rule pair.                                                   *)
CheckDeontic(modal) == Raise(modal = "none", "violation")
                       \cup Raise(modal = "discretionary", "escalate")

(* NT-5.                                                                    *)
CheckException(pair) == Raise(pair.exceptional /\ ~pair.flagged, "violation")

(* NT-9, on a class-C pair.                                                 *)
CheckConfidence(confidence) == Raise(confidence < ConfidenceFloor, "escalate")
=============================================================================
