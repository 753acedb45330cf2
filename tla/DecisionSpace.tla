----------------------------- MODULE DecisionSpace -----------------------------
(***************************************************************************)
(* decision_space (src/src/loomground_solver/decision.py): carve a list of  *)
(* candidates into accepted, undecided and rejected.  Verification looks at *)
(* one candidate at a time; the attacks that survive it are labelled by the *)
(* scan of module Grounded, whose steps are steps of this module.           *)
(***************************************************************************)
EXTENDS Naturals, Sequences, Argumentation

CONSTANTS
    Candidate,
    Lists,        \* list(by_id): the lists of distinct ids submitted
    Declarable,   \* the pairs a caller may declare, unknown ids included
    NoDefeat      \* defeat is None

ASSUME ListsAssumption ==
    \A s \in Lists : /\ s \in Seq(Candidate)
                     /\ \A i, j \in 1..Len(s) : s[i] = s[j] => i = j

ASSUME DeclarableAssumption == Declarable \subseteq Candidate \X Candidate

VARIABLES
    ids, ok, declared, winner,    \* arguments: list, verify, attacks, defeat
    phase,                        \* the statement reached
    k,                            \* candidates verified so far
    valid, rejected, atk,         \* locals of decision_space
    label, changed, pos, done     \* locals of grounded_labels(valid, atk)

inputs == <<ids, ok, declared, winner>>
scan   == <<label, changed, pos, done>>
vars   == <<inputs, phase, k, valid, rejected, atk, scan>>

G == INSTANCE Grounded WITH
         Node <- Candidate, Orders <- Lists, NoAnswer <- NoDefeat,
         order <- valid, attacks <- atk

Members(s) == {s[i] : i \in DOMAIN s}

(* The pairs (valid[i], valid[j]), i < j, on which defeat is asked.         *)
Before(s) == {p \in Members(s) \X Members(s) :
                 \E i, j \in DOMAIN s : i < j /\ p = <<s[i], s[j]>>}

Init == /\ ids \in Lists
        /\ ok \in [Members(ids) -> BOOLEAN]
        /\ declared \in SUBSET Declarable
        /\ winner \in [Before(ids) -> {"a", "b", "none"}] \cup {NoDefeat}
        /\ phase = "verify" /\ k = 0
        /\ valid = <<>> /\ rejected = {} /\ atk = {}
        /\ label = <<>> /\ changed = FALSE /\ pos = 1 /\ done = FALSE

-----------------------------------------------------------------------------

(* for cid in ids: ok, reason = verify(by_id[cid])                          *)
Verifying == phase = "verify" /\ k < Len(ids)

Pass == /\ Verifying
        /\ ok[ids[k + 1]]
        /\ k' = k + 1
        /\ valid' = Append(valid, ids[k + 1])
        /\ UNCHANGED <<inputs, phase, rejected, atk, scan>>

(* Mutant: the failure is recorded, but the candidate stays in the contest. *)
FailSoftly == /\ Verifying
              /\ ~ok[ids[k + 1]]
              /\ k' = k + 1
              /\ valid' = Append(valid, ids[k + 1])
              /\ rejected' = rejected \cup {<<ids[k + 1], "failed verification">>}
              /\ UNCHANGED <<inputs, phase, atk, scan>>

Fail == /\ Verifying
        /\ ~ok[ids[k + 1]]
        /\ k' = k + 1
        /\ rejected' = rejected \cup {<<ids[k + 1], "failed verification">>}
        /\ UNCHANGED <<inputs, phase, valid, atk, scan>>

(* Declared attacks survive only between two valid candidates.              *)
KeepAttacks == /\ phase = "verify" /\ k = Len(ids)
               /\ atk' = {e \in declared : /\ e[1] \in Members(valid)
                                           /\ e[2] \in Members(valid)}
               /\ phase' = "defeat"
               /\ UNCHANGED <<inputs, k, valid, rejected, scan>>

(* Mutant: an inseparable pair is settled for the one listed first.         *)
FirstWins == IF winner = NoDefeat THEN {}
             ELSE {p \in Before(valid) : winner[p] \in {"a", "none"}}
                  \cup {<<p[2], p[1]>> : p \in {q \in Before(valid) : winner[q] = "b"}}

(* Pairwise ordering among the valid: the winner attacks the loser, and two *)
(* candidates that cannot be separated attack each other.                   *)
PairwiseAttacks ==
    IF winner = NoDefeat THEN {}
    ELSE {p \in Before(valid) : winner[p] \in {"a", "none"}}
         \cup {<<p[2], p[1]>> : p \in {q \in Before(valid) : winner[q] \in {"b", "none"}}}

(* grounded_labels(valid, atk) is entered.                                  *)
OrderPairs == /\ phase = "defeat"
              /\ atk' = atk \cup PairwiseAttacks
              /\ label' = [c \in Members(valid) |-> "undec"]
              /\ phase' = "label"
              /\ UNCHANGED <<inputs, k, valid, rejected, changed, pos, done>>

Scan == /\ phase = "label"
        /\ G!Next
        /\ UNCHANGED <<inputs, phase, k, rejected>>

(* Every OUT candidate joins the rejected, with the reason.                 *)
Collect == /\ phase = "label" /\ done
           /\ rejected' = rejected \cup
                  {<<c, "defeated">> : c \in {d \in Members(valid) : label[d] = "out"}}
           /\ phase' = "done"
           /\ UNCHANGED <<inputs, k, valid, atk, scan>>

Next == Pass \/ Fail \/ KeepAttacks \/ OrderPairs \/ Scan \/ Collect

(* A call runs to its return.                                               *)
Spec == Init /\ [][Next]_vars /\ WF_vars(Next)

-----------------------------------------------------------------------------
(* The returned record.                                                     *)
Accepted  == {c \in Members(valid) : label[c] = "in"}

(* Invalidity is not defeat: the answer is the grounded labelling of the    *)
(* valid candidates alone, so neither a failed candidate nor an attack it   *)
(* takes part in moves anyone else's verdict; and each submitted id that is *)
(* neither accepted nor undecided is rejected once, for its own reason.     *)
AnswersForTheValid ==
    phase = "done" =>
        LET sound == {c \in Members(ids) : ok[c]}
            duel  == IF winner = NoDefeat THEN {}
                     ELSE {e \in sound \X sound :
                              \/ e \in Before(ids) /\ winner[e] # "b"
                              \/ <<e[2], e[1]>> \in Before(ids) /\ winner[<<e[2], e[1]>>] # "a"}
        IN  /\ IsGrounded(sound, (declared \cap (sound \X sound)) \cup duel, label)
            /\ rejected = {<<c, "failed verification">> : c \in Members(ids) \ sound}
                          \cup {<<c, "defeated">> : c \in {d \in sound : label[d] = "out"}}

(* No fabricated winner: when the host cannot separate two valid candidates,*)
(* one of them is accepted only if a third accepted candidate, which was    *)
(* ranked above the other or declared to attack it, defeats it.             *)
NoFabricatedWinner ==
    phase = "done" /\ winner # NoDefeat =>
        \A p \in Before(valid) : winner[p] = "none" =>
            \A c \in {p[1], p[2]} \cap Accepted :
                \E d \in Accepted \ {c}, o \in {p[1], p[2]} \ {c} :
                    <<d, o>> \in atk
=============================================================================
