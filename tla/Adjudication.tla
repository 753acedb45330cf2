----------------------------- MODULE Adjudication -----------------------------
(***************************************************************************)
(* What the grounded engine promises its callers: given a framework, one    *)
(* answer, and that answer is the grounded labelling of the framework.  The *)
(* order in which the nodes were listed does not appear here at all.        *)
(***************************************************************************)
EXTENDS Argumentation

CONSTANTS
    Node,
    NoAnswer   \* not yet answered

VARIABLES
    nodes, attacks,   \* the question, fixed for the life of the call
    answer

avars == <<nodes, attacks, answer>>

Init == /\ nodes \in SUBSET Node
        /\ attacks \in SUBSET (nodes \X nodes)
        /\ answer = NoAnswer

Answer == /\ answer = NoAnswer
          /\ answer' \in {L \in Labellings(nodes) : IsGrounded(nodes, attacks, L)}
          /\ UNCHANGED <<nodes, attacks>>

Spec == Init /\ [][Answer]_avars /\ WF_avars(Answer)
=============================================================================
