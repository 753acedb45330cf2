-------------------------------- MODULE Gates --------------------------------
(***************************************************************************)
(* What the construction harnesses share: a proposal a model made is put    *)
(* through a fixed sequence of gates, and the first gate it does not pass   *)
(* decides whether the construction is rejected (the proposal is malformed  *)
(* or rests on an invented span) or escalated to a human.                   *)
(*                                                                         *)
(* An element of a proposal says whether its span occurs in the text, and   *)
(* the model's confidence in it, in hundredths.                             *)
(***************************************************************************)
EXTENDS Chaining, Contracts

CONSTANT NoElement      \* a part the proposal does not have

Element(literal, grounded, confidence) ==
    [literal |-> literal, grounded |-> grounded, confidence |-> confidence]

AllGrounded(elements) == \A e \in elements : e.grounded

(* The least confidence, 0 when there is no element, against the floor.     *)
Confident(elements) ==
    elements # {} /\ \A e \in elements : CheckConfidence(e.confidence) = {}

(* The position of the first gate that fails, or one past the last.         *)
FirstFailing(gates, ok) ==
    IF \A k \in 1..Len(gates) : ok[gates[k]] THEN Len(gates) + 1
    ELSE CHOOSE k \in 1..Len(gates) : ~ok[gates[k]] /\ \A j \in 1..k - 1 : ok[gates[j]]

(* The outcome of a gate sequence; rejecting are the gates that reject.     *)
Outcome(gates, rejecting, ok) ==
    LET k == FirstFailing(gates, ok)
    IN  CASE k > Len(gates) -> "accepted"
          [] k <= Len(gates) -> IF gates[k] \in rejecting THEN "rejected" ELSE "escalated"
=============================================================================
