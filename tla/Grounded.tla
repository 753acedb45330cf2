------------------------------- MODULE Grounded -------------------------------
(***************************************************************************)
(* grounded_labels (src/src/loomground_solver/decision.py), the one engine  *)
(* shared by the scenario resolver and the decision space, one visit of the *)
(* inner loop per step.  Labels are written in place, so a node visited     *)
(* late in a pass already sees the labels the same pass wrote before it;    *)
(* the order of the nodes is therefore part of the input.                   *)
(***************************************************************************)
EXTENDS Naturals, Sequences, Argumentation

CONSTANTS
    Node,     \* the ids that may be passed in
    Orders,   \* the node lists the engine is run on
    NoAnswer  \* refinement mapping only: grounded_labels has not returned yet

(* "nodes: iterable of hashable ids" that become the keys of a dict.        *)
IsOrder(s) == /\ s \in Seq(Node)
              /\ \A i, j \in 1..Len(s) : s[i] = s[j] => i = j

ASSUME OrdersAssumption == \A s \in Orders : IsOrder(s)

ASSUME NoAnswerAssumption ==
    \A nodes \in SUBSET Node : NoAnswer \notin Labellings(nodes)

VARIABLES
    order,     \* nodes = list(nodes)
    attacks,   \* atkset = set(attacks)
    label,
    changed,
    pos,       \* the index of the node the for loop visits next
    done       \* the function has returned label

vars == <<order, attacks, label, changed, pos, done>>

Nodes == {order[i] : i \in 1..Len(order)}

Init == /\ order \in Orders
        /\ attacks \in SUBSET (Nodes \X Nodes)
        /\ label = [n \in Nodes |-> "undec"]
        /\ changed = FALSE
        /\ pos = 1
        /\ done = FALSE

(* The for loop has a node left in this pass.                               *)
Visiting == ~done /\ pos <= Len(order)

Advance == pos' = pos + 1 /\ UNCHANGED <<order, attacks, done>>

(* if label[k] != UNDEC: continue                                           *)
Skip == /\ Visiting
        /\ label[order[pos]] # "undec"
        /\ Advance
        /\ UNCHANGED <<label, changed>>

(* Mutant: accept whatever no accepted node attacks.                        *)
AcceptOnCredit == /\ Visiting
                  /\ label[order[pos]] = "undec"
                  /\ ~SomeIn(attacks, label, order[pos])
                  /\ label' = [label EXCEPT ![order[pos]] = "in"]
                  /\ changed' = TRUE
                  /\ Advance

(* Mutant: label[k] = IN without changed = True.                            *)
AcceptUnmarked == /\ Visiting
                  /\ label[order[pos]] = "undec"
                  /\ AllOut(attacks, label, order[pos])
                  /\ label' = [label EXCEPT ![order[pos]] = "in"]
                  /\ Advance
                  /\ UNCHANGED changed

(* if all attackers are OUT: label[k] = IN; changed = True                  *)
Accept == /\ Visiting
          /\ label[order[pos]] = "undec"
          /\ AllOut(attacks, label, order[pos])
          /\ label' = [label EXCEPT ![order[pos]] = "in"]
          /\ changed' = TRUE
          /\ Advance

(* elif any attacker is IN: label[k] = OUT                                  *)
Defeat == /\ Visiting
          /\ label[order[pos]] = "undec"
          /\ ~AllOut(attacks, label, order[pos])
          /\ SomeIn(attacks, label, order[pos])
          /\ label' = [label EXCEPT ![order[pos]] = "out"]
          /\ changed' = TRUE
          /\ Advance

(* Neither branch applies: the node stays undecided in this pass.           *)
Leave == /\ Visiting
         /\ label[order[pos]] = "undec"
         /\ ~AllOut(attacks, label, order[pos])
         /\ ~SomeIn(attacks, label, order[pos])
         /\ Advance
         /\ UNCHANGED <<label, changed>>

(* Mutant: the next pass starts one position early.                         *)
NextPassOffByOne == /\ ~done /\ pos > Len(order) /\ changed
                    /\ pos' = 0
                    /\ changed' = FALSE
                    /\ UNCHANGED <<order, attacks, label, done>>

(* Mutant: the flag is not cleared for the next pass.                       *)
NextPassUncleared == /\ ~done /\ pos > Len(order) /\ changed
                     /\ pos' = 1
                     /\ UNCHANGED <<order, attacks, label, changed, done>>

(* while changed: changed = False, and the for loop starts over.            *)
NextPass == /\ ~done /\ pos > Len(order) /\ changed
            /\ pos' = 1
            /\ changed' = FALSE
            /\ UNCHANGED <<order, attacks, label, done>>

(* Mutant: one pass is taken to be enough.                                  *)
ReturnAfterOnePass == /\ ~done /\ pos > Len(order)
                      /\ done' = TRUE
                      /\ UNCHANGED <<order, attacks, label, changed, pos>>

(* A pass changed nothing: return label.                                    *)
Return == /\ ~done /\ pos > Len(order) /\ ~changed
          /\ done' = TRUE
          /\ UNCHANGED <<order, attacks, label, changed, pos>>

Next == Skip \/ Accept \/ Defeat \/ Leave \/ NextPass \/ Return

(* The function runs to its return: nothing it calls can block.             *)
Spec == Init /\ [][Next]_vars /\ WF_vars(Next)

-----------------------------------------------------------------------------
(* Type invariant of the loop's variables.                                  *)
TypeOK == /\ order \in Orders
          /\ attacks \in SUBSET (Nodes \X Nodes)
          /\ label \in Labellings(Nodes)
          /\ changed \in BOOLEAN
          /\ pos \in 1..(Len(order) + 1)
          /\ done \in BOOLEAN

(* No label is ever written on credit: at every moment of the scan, not     *)
(* only at the end, IN means that every attacker is OUT and OUT that one is *)
(* IN, although the attackers' labels go on being written in place.         *)
Justified == \A n \in Nodes : JustifiedAt(attacks, label, n)

(* The engine never decides more than any complete labelling must decide:   *)
(* its partial answer lies below every complete labelling at every step.    *)
Skeptical == \A M \in Labellings(Nodes) :
                 Complete(attacks, M) => Below(label, M)

(* Neither branch of the loop body applies to a stable node.                *)
Stable(n) == label[n] = "undec" => ~AllOut(attacks, label, n)
                                   /\ ~SomeIn(attacks, label, n)

(* While a pass has changed nothing, the nodes behind the scan are stable:  *)
(* this is why one quiet pass is enough to stop.                            *)
QuietPrefixStable == ~changed => \A i \in 1..(pos - 1) : Stable(order[i])

(* What is returned is the grounded labelling, whatever the order and the   *)
(* attack relation (self-attacks, odd cycles, reinstatement included).      *)
ReturnsGrounded == done => IsGrounded(Nodes, attacks, label)

-----------------------------------------------------------------------------
(* Refinement: the caller sees one question and one answer.                 *)
Abstract == INSTANCE Adjudication WITH
                nodes  <- Nodes,
                answer <- IF done THEN label ELSE NoAnswer

(* Every run of the scan is one answer of the abstract adjudicator: the     *)
(* engine implements "answer the grounded labelling", and does answer.      *)
ImplementsAdjudication == Abstract!Spec

(* The safety half of the same refinement.                                  *)
AnswersOnce == Abstract!Init /\ [][Abstract!Answer]_(Abstract!avars)
=============================================================================
