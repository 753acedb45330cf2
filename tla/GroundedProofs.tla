---------------------------- MODULE GroundedProofs ----------------------------
(***************************************************************************)
(* Proofs about the grounded engine, for every set of nodes, every list of  *)
(* them and every attack relation.                                          *)
(*                                                                         *)
(* The inductive invariant is TypeOK, Justified, Skeptical and              *)
(* QuietPrefixStable together with DoneQuiet: each part is preserved only   *)
(* because the others hold in the state before.                             *)
(***************************************************************************)
EXTENDS Grounded, OperatorProofs

(* The function returns only at the end of a pass that changed nothing.     *)
DoneQuiet == done => ~changed /\ pos = Len(order) + 1

IInv == TypeOK /\ Justified /\ Skeptical /\ QuietPrefixStable /\ DoneQuiet

(* A list of nodes visits nodes only, and each of them at one position.     *)
LEMMA OrderFacts ==
    ASSUME order \in Orders
    PROVE  /\ order \in Seq(Node)
           /\ Len(order) \in Nat
           /\ \A i \in 1..Len(order) : order[i] \in Nodes
           /\ Nodes \subseteq Node
           /\ \A i, j \in 1..Len(order) : order[i] = order[j] => i = j
<1>1. IsOrder(order)
  BY OrdersAssumption
<1>2. order \in Seq(Node) /\ Len(order) \in Nat
  BY <1>1 DEF IsOrder
<1>3. \A i \in 1..Len(order) : order[i] \in Node
  BY <1>2
<1> QED
  BY <1>1, <1>2, <1>3 DEF IsOrder, Nodes

-----------------------------------------------------------------------------
(* The inductive invariant.                                                 *)

(* Before the first visit every label is UNDEC, which rests on nothing and    *)
(* decides nothing.                                                         *)
LEMMA InitInvariant == Init => IInv
<1> SUFFICES ASSUME Init PROVE IInv
  OBVIOUS
<1>1. Len(order) \in Nat
  BY OrderFacts DEF Init
<1>2. label \in Labellings(Nodes) /\ DOMAIN label = Nodes
  BY DEF Init, Labellings, Label
<1>3. \A n \in Nodes : label[n] = "undec"
  BY DEF Init
<1>4. TypeOK
  <2>1. 1 \in 1..(Len(order) + 1)
    BY <1>1
  <2> QED
    BY <1>2, <2>1 DEF Init, TypeOK
<1>5. Justified
  BY <1>3 DEF Justified, JustifiedAt
<1>6. Skeptical
  BY <1>2, <1>3 DEF Skeptical, Below
<1>7. QuietPrefixStable
  BY DEF Init, QuietPrefixStable
<1>8. DoneQuiet
  BY DEF Init, DoneQuiet
<1> QED
  BY <1>4, <1>5, <1>6, <1>7, <1>8 DEF IInv

(* A step that writes no label leaves the two properties of labellings.     *)
LEMMA QuietStep ==
    ASSUME Justified, Skeptical, UNCHANGED <<order, attacks, label>>
    PROVE  Justified' /\ Skeptical'
<1>1. Nodes' = Nodes
  BY DEF Nodes
<1> QED
  BY <1>1 DEF Justified, Skeptical

(* Accept and Defeat write one label: an instance of DecidePreserves.       *)
LEMMA DecideStep ==
    ASSUME IInv, Accept \/ Defeat
    PROVE  IInv'
<1>1. /\ order \in Seq(Node) /\ Len(order) \in Nat /\ pos \in 1..Len(order)
      /\ order[pos] \in Nodes
  BY OrderFacts DEF IInv, TypeOK, Accept, Defeat, Visiting
<1>2. Nodes' = Nodes /\ order' = order /\ attacks' = attacks /\ done' = done
  BY DEF Accept, Defeat, Advance, Nodes
<1>3. PICK v \in {"in", "out"} :
          /\ label' = [label EXCEPT ![order[pos]] = v]
          /\ v = "in"  => AllOut(attacks, label, order[pos])
          /\ v = "out" => SomeIn(attacks, label, order[pos])
  BY DEF Accept, Defeat
<1>4. /\ label \in Labellings(Nodes)
      /\ label[order[pos]] = "undec"
      /\ \A n \in Nodes : JustifiedAt(attacks, label, n)
      /\ \A M \in Labellings(Nodes) : Complete(attacks, M) => Below(label, M)
  BY DEF IInv, TypeOK, Justified, Skeptical, Accept, Defeat
<1>5. /\ label' \in Labellings(Nodes)
      /\ \A n \in Nodes : JustifiedAt(attacks, label', n)
      /\ \A M \in Labellings(Nodes) : Complete(attacks, M) => Below(label', M)
  BY <1>1, <1>3, <1>4, DecidePreserves
<1>6. changed' = TRUE /\ pos' = pos + 1 /\ ~done
  BY DEF Accept, Defeat, Advance, Visiting
<1>7. TypeOK'
  BY <1>1, <1>2, <1>5, <1>6 DEF IInv, TypeOK
<1>8. Justified' /\ Skeptical'
  BY <1>2, <1>5 DEF Justified, Skeptical
<1>9. QuietPrefixStable' /\ DoneQuiet'
  BY <1>2, <1>6 DEF QuietPrefixStable, DoneQuiet
<1> QED
  BY <1>7, <1>8, <1>9 DEF IInv

(* Every visit, every new pass and the return preserve it.                    *)
LEMMA NextInvariant == IInv /\ [Next]_vars => IInv'
<1> SUFFICES ASSUME IInv, [Next]_vars PROVE IInv'
  OBVIOUS
<1>1. order \in Seq(Node) /\ Len(order) \in Nat
  BY OrderFacts DEF IInv, TypeOK
<1>2. CASE Accept \/ Defeat
  BY <1>2, DecideStep
<1>3. CASE Skip \/ Leave
  <2>1. /\ UNCHANGED <<order, attacks, label, changed, done>>
        /\ pos' = pos + 1 /\ pos \in 1..Len(order) /\ ~done
    BY <1>1, <1>3 DEF Skip, Leave, Advance, Visiting, IInv, TypeOK
  <2>2. Nodes' = Nodes
    BY <2>1 DEF Nodes
  <2>3. TypeOK'
    BY <1>1, <2>1, <2>2 DEF IInv, TypeOK
  <2>4. Justified' /\ Skeptical'
    BY <2>1, QuietStep DEF IInv
  <2>5. QuietPrefixStable'
    <3>1. Stable(order[pos])
      BY <1>3 DEF Skip, Leave, Stable
    <3> SUFFICES ASSUME ~changed', NEW i \in 1..(pos' - 1) PROVE Stable(order[i])'
      BY DEF QuietPrefixStable
    <3>2. i \in 1..(pos - 1) \/ i = pos
      BY <2>1
    <3>3. Stable(order[i])
      BY <2>1, <3>1, <3>2 DEF IInv, QuietPrefixStable
    <3> QED
      BY <2>1, <3>3 DEF Stable
  <2>6. DoneQuiet'
    BY <2>1 DEF DoneQuiet
  <2> QED
    BY <2>3, <2>4, <2>5, <2>6 DEF IInv
<1>4. CASE NextPass
  <2>1. UNCHANGED <<order, attacks, label, done>> /\ pos' = 1 /\ changed' = FALSE /\ ~done
    BY <1>4 DEF NextPass
  <2>2. Nodes' = Nodes
    BY <2>1 DEF Nodes
  <2>3. TypeOK'
    <3>1. 1 \in 1..(Len(order) + 1)
      BY <1>1
    <3> QED
      BY <2>1, <2>2, <3>1 DEF IInv, TypeOK
  <2>4. Justified' /\ Skeptical'
    BY <2>1, QuietStep DEF IInv
  <2>5. QuietPrefixStable' /\ DoneQuiet'
    BY <2>1 DEF QuietPrefixStable, DoneQuiet
  <2> QED
    BY <2>3, <2>4, <2>5 DEF IInv
<1>5. CASE Return
  <2>1. /\ UNCHANGED <<order, attacks, label, changed, pos>> /\ done' = TRUE
        /\ pos > Len(order) /\ ~changed
    BY <1>5 DEF Return
  <2>2. Nodes' = Nodes
    BY <2>1 DEF Nodes
  <2>3. TypeOK'
    BY <2>1, <2>2 DEF IInv, TypeOK
  <2>4. Justified' /\ Skeptical'
    BY <2>1, QuietStep DEF IInv
  <2>5. QuietPrefixStable'
    BY <2>1 DEF IInv, QuietPrefixStable, Stable
  <2>6. DoneQuiet'
    BY <1>1, <2>1 DEF DoneQuiet, IInv, TypeOK
  <2> QED
    BY <2>3, <2>4, <2>5, <2>6 DEF IInv
<1>6. CASE UNCHANGED vars
  <2>1. UNCHANGED <<order, attacks, label, changed, pos, done>> /\ Nodes' = Nodes
    BY <1>6 DEF vars, Nodes
  <2>2. Justified' /\ Skeptical'
    BY <2>1, QuietStep DEF IInv
  <2> QED
    BY <2>1, <2>2 DEF IInv, TypeOK, QuietPrefixStable, Stable, DoneQuiet
<1> QED
  BY <1>2, <1>3, <1>4, <1>5, <1>6 DEF Next

-----------------------------------------------------------------------------
(* The theorems.                                                            *)

(* The inductive invariant holds in every reachable state.                  *)
THEOREM Invariance == Spec => []IInv
<1> QED
  BY InitInvariant, NextInvariant, PTL DEF Spec

(* Type correctness of the engine's variables, for every input.             *)
THEOREM TypeCorrect == Spec => []TypeOK
<1>1. IInv => TypeOK
  BY DEF IInv
<1> QED
  BY <1>1, Invariance, PTL

(* No candidate is ever labelled on credit.                                 *)
THEOREM AlwaysJustified == Spec => []Justified
<1>1. IInv => Justified
  BY DEF IInv
<1> QED
  BY <1>1, Invariance, PTL

(* The engine never commits to more than every complete labelling commits   *)
(* to: it is skeptical at every step.                                       *)
THEOREM AlwaysSkeptical == Spec => []Skeptical
<1>1. IInv => Skeptical
  BY DEF IInv
<1> QED
  BY <1>1, Invariance, PTL

(* A quiet prefix is a stable one, so one quiet pass is enough to stop.     *)
THEOREM QuietPass == Spec => []QuietPrefixStable
<1>1. IInv => QuietPrefixStable
  BY DEF IInv
<1> QED
  BY <1>1, Invariance, PTL

(* At the end of a quiet pass the labels already are the grounded ones.     *)
LEMMA QuietIsGrounded ==
    ASSUME IInv, ~changed, pos = Len(order) + 1
    PROVE  IsGrounded(Nodes, attacks, label)
<1>1. Len(order) \in Nat
  BY OrderFacts DEF IInv, TypeOK
<1>2. \A n \in Nodes : Stable(n)
  <2>1. \A i \in 1..Len(order) : Stable(order[i])
    BY <1>1 DEF IInv, QuietPrefixStable
  <2> QED
    BY <2>1 DEF Nodes
<1>3. label \in Labellings(Nodes)
  BY DEF IInv, TypeOK
<1>4. Complete(attacks, label)
  BY <1>2, <1>3, StableIsComplete DEF IInv, Justified, Stable
<1> QED
  BY <1>3, <1>4 DEF IsGrounded, IInv, Skeptical

(* Whatever is returned is the grounded labelling of the framework.         *)
THEOREM EngineReturnsGrounded == Spec => []ReturnsGrounded
<1>1. IInv => ReturnsGrounded
  BY QuietIsGrounded DEF IInv, DoneQuiet, ReturnsGrounded
<1> QED
  BY <1>1, Invariance, PTL

(* The abstract module speaks of the same labellings.                       *)
LEMMA SameSemantics ==
    ASSUME NEW nodes, NEW atk, NEW L, IsGrounded(nodes, atk, L)
    PROVE  L \in Abstract!Labellings(nodes) /\ Abstract!IsGrounded(nodes, atk, L)
<1>1. Abstract!Labellings(nodes) = Labellings(nodes)
  BY DEF Abstract!Labellings, Labellings, Abstract!Label, Label
<1>2. \A M : Abstract!Complete(atk, M) <=> Complete(atk, M)
  BY DEF Abstract!Complete, Complete, Abstract!CompleteAt, CompleteAt,
         Abstract!AllOut, AllOut, Abstract!SomeIn, SomeIn
<1>3. \A M : Abstract!Below(L, M) <=> Below(L, M)
  BY DEF Abstract!Below, Below
<1> QED
  BY <1>1, <1>2, <1>3 DEF IsGrounded, Abstract!IsGrounded

(* The engine implements the one-answer adjudicator: initial states map to  *)
(* initial states and every step to an answer or a stutter.                 *)
THEOREM EngineAnswersOnce == Spec => AnswersOnce
<1>1. Init => Abstract!Init
  <2> SUFFICES ASSUME Init PROVE Abstract!Init
    OBVIOUS
  <2>1. Nodes \in SUBSET Node
    BY OrderFacts DEF Init
  <2> QED
    BY <2>1 DEF Init, Abstract!Init
<1>2. IInv /\ IInv' /\ [Next]_vars => [Abstract!Answer]_(Abstract!avars)
  <2> SUFFICES ASSUME IInv, IInv', [Next]_vars
               PROVE  [Abstract!Answer]_(Abstract!avars)
    OBVIOUS
  <2>1. CASE Return
    <3>1. done' = TRUE /\ done = FALSE /\ UNCHANGED <<order, attacks, label>> /\ Nodes' = Nodes
      BY <2>1 DEF Return, IInv, TypeOK, Nodes
    <3>2. pos = Len(order) + 1 /\ ~changed
      BY <2>1, OrderFacts DEF Return, IInv, TypeOK
    <3>3. label \in Labellings(Nodes) /\ IsGrounded(Nodes, attacks, label)
      BY <3>2, QuietIsGrounded DEF IsGrounded
    <3>4. label \in {L \in Abstract!Labellings(Nodes) :
                         Abstract!IsGrounded(Nodes, attacks, L)}
      BY <3>3, SameSemantics
    <3> QED
      BY <3>1, <3>4 DEF Abstract!Answer
  <2>2. CASE Skip \/ Accept \/ Defeat \/ Leave \/ NextPass
    <3>1. ~done /\ done' = done /\ UNCHANGED <<order, attacks>> /\ Nodes' = Nodes
      BY <2>2 DEF Skip, Accept, Defeat, Leave, NextPass, Visiting, Advance, Nodes
    <3> QED
      BY <3>1 DEF Abstract!avars
  <2>3. CASE UNCHANGED vars
    BY <2>3 DEF vars, Nodes, Abstract!avars
  <2> QED
    BY <2>1, <2>2, <2>3 DEF Next
<1> QED
  BY <1>1, <1>2, Invariance, PTL DEF Spec, AnswersOnce
=============================================================================
