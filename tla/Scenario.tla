------------------------------- MODULE Scenario -------------------------------
(***************************************************************************)
(* Deontic resolution of one act (scenario.py, rulepacks.py, replay.py):    *)
(* contradicting norms attack each other in the direction a rule pack gives *)
(* them, the shared grounded engine labels them, and the verdict is read    *)
(* off the survivors unless contradicting norms stay undecided.             *)
(*                                                                         *)
(* Norms are a sequence of [act, modality, rank, specificity, time], and a  *)
(* norm's position stands for its source.  A pack is the sequence of the    *)
(* attributes it compares, first difference deciding: <<>> is GENERIC_PACK. *)
(***************************************************************************)
EXTENDS Argumentation, Integers, Sequences, FiniteSets, SequencesExt

LexPack     == <<"rank", "specificity", "time">>
GenericPack == <<>>

Norm(act, modality, rank, specificity) ==
    [act |-> act, modality |-> modality, rank |-> rank, specificity |-> specificity,
     time |-> 0]

IsNorm(n) == /\ n.modality \in {"obligatory", "prohibited", "permitted"}
             /\ n.rank \in Int /\ n.specificity \in Int /\ n.time \in Int

Contradicts(m, n) == {m, n} \in {{"obligatory", "prohibited"}, {"permitted", "prohibited"}}

(* Mutant: only the attribute compared last decides.                        *)
PrevailsLast(pack, a, b) ==
    pack # <<>> /\ a[pack[Len(pack)]] > b[pack[Len(pack)]]

Prevails(pack, a, b) ==
    \E k \in 1..Len(pack) : /\ a[pack[k]] > b[pack[k]]
                            /\ \A j \in 1..k - 1 : a[pack[j]] = b[pack[j]]

Separated(norms, pack, i, j) ==
    Prevails(pack, norms[i], norms[j]) \/ Prevails(pack, norms[j], norms[i])

(* The winner attacks; two norms the pack cannot separate attack each other.*)
NormAttacks(norms, pack) ==
    {e \in (1..Len(norms)) \X (1..Len(norms)) :
        /\ Contradicts(norms[e[1]].modality, norms[e[2]].modality)
        /\ ~Prevails(pack, norms[e[2]], norms[e[1]])}

(* The grounded labelling, which is what the engine returns (GroundedProofs).*)
NormLabels(norms, pack) ==
    CHOOSE L \in Labellings(1..Len(norms)) :
        IsGrounded(1..Len(norms), NormAttacks(norms, pack), L)

Collisions(norms, L) ==
    {e \in (1..Len(norms)) \X (1..Len(norms)) :
        /\ e[1] < e[2] /\ Contradicts(norms[e[1]].modality, norms[e[2]].modality)
        /\ L[e[1]] = "undec" /\ L[e[2]] = "undec"}

VerdictOf(modalities) ==
    IF "obligatory" \in modalities THEN "obligatory"
    ELSE IF "prohibited" \in modalities THEN "prohibited"
    ELSE IF "permitted" \in modalities THEN "permitted" ELSE "none"

ResolveAct(norms, pack) ==
    LET L == NormLabels(norms, pack)
        survivors  == {i \in 1..Len(norms) : L[i] = "in"}
        collisions == Collisions(norms, L)
        verdict == IF collisions # {} THEN "none"
                   ELSE VerdictOf({norms[i].modality : i \in survivors})
    IN  [status     |-> IF verdict = "none" THEN "open" ELSE "determinate",
         verdict    |-> verdict,
         survivors  |-> survivors,
         defeats    |-> {e \in NormAttacks(norms, pack) :
                           /\ L[e[1]] = "in" /\ L[e[2]] = "out"
                           /\ Separated(norms, pack, e[1], e[2])},
         collisions |-> collisions]

(* The norms of an act, in the scenario's order.                            *)
OfAct(norms, act) == SelectSeq(norms, LAMBDA n : n.act = act)

(* derive, for one act of the scenario: the trace a run is graded against.  *)
Resolution(norms, pack, act) == ResolveAct(OfAct(norms, act), pack)

(* verify_trace: replaying the scenario under the pack gives the trace.     *)
VerifyTrace(norms, pack, act, trace) == Resolution(norms, pack, act) = trace

-----------------------------------------------------------------------------
(* to_case: the resolution as a case record (Contracts.tla says what its    *)
(* fields mean).  An open act offers its colliding sources, at least two    *)
(* options, and no choice among them.                                       *)
ToCase(resolution) ==
    LET colliding == UNION {{e[1], e[2]} : e \in resolution.collisions}
        determinate == resolution.status = "determinate"
        chain == IF resolution.defeats = {} THEN 1 ELSE Cardinality(resolution.defeats)
        grounds == IF resolution.survivors = {} THEN 1 ELSE Cardinality(resolution.survivors)
    IN  [facts |-> <<>>, grounds |-> [i \in 1..grounds |-> TRUE], gaps |-> 0,
         complete |-> TRUE, waivers |-> <<>>,
         chain |-> [i \in 1..chain |-> [warranted |-> TRUE, known |-> TRUE]],
         actions |-> <<>>, unread |-> 0, profile |-> TRUE,
         type    |-> IF determinate THEN "determinate" ELSE "residual",
         answer  |-> determinate, proposed |-> FALSE,
         options |-> IF determinate THEN 0
                     ELSE IF Cardinality(colliding) < 2 THEN 2 ELSE Cardinality(colliding),
         choice  |-> "none"]
=============================================================================
