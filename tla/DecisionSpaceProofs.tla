-------------------------- MODULE DecisionSpaceProofs --------------------------
(***************************************************************************)
(* Proofs about decision_space, for every list of candidates, every outcome *)
(* of their verification, every declared attack and every answer of defeat. *)
(*                                                                         *)
(* The scan is the one module Grounded models, so its invariant is not      *)
(* proved a second time: GP is that module with the valid candidates for    *)
(* nodes, run on any list of distinct candidates.  What is added here is    *)
(* how verification and the two sources of attacks build the framework the  *)
(* scan is handed, and why no winner comes out of a tie.                    *)
(***************************************************************************)
EXTENDS DecisionSpace, TLAPS

(* The lists the engine may be run on, whichever candidates are left out.   *)
Distinct == {s \in Seq(Candidate) : \A i, j \in 1..Len(s) : s[i] = s[j] => i = j}

(* Something that is no labelling of any candidates.                        *)
NoLabelling == CHOOSE x : x \notin UNION {Labellings(n) : n \in SUBSET Candidate}

GP == INSTANCE GroundedProofs WITH
          Node <- Candidate, Orders <- Distinct, NoAnswer <- NoLabelling,
          order <- valid, attacks <- atk

Typing ==
    /\ ids \in Lists
    /\ ok \in [Members(ids) -> BOOLEAN]
    /\ declared \in SUBSET Declarable
    /\ winner \in [Before(ids) -> {"a", "b", "none"}] \cup {NoDefeat}
    /\ phase \in {"verify", "defeat", "label", "done"}
    /\ k \in 0..Len(ids)
    /\ phase # "verify" => k = Len(ids)

(* The positions verified so far whose candidate passed.                    *)
Kept == {i \in 1..k : ok[ids[i]]}

(* The candidates at two of the positions in K, the earlier one first.      *)
Pairs(K) == {<<ids[p[1]], ids[p[2]]>> : p \in {q \in K \X K : q[1] < q[2]}}

(* valid is the list with the failed ones left out: the same candidates in  *)
(* the same order, none of them twice.                                      *)
Sieved ==
    /\ valid \in Distinct
    /\ Members(valid) = {ids[i] : i \in Kept}
    /\ Before(valid) = Pairs(Kept)

Failures == {<<ids[i], "failed verification">> : i \in (1..k) \ Kept}
Defeats  == {<<c, "defeated">> : c \in {d \in Members(valid) : label[d] = "out"}}

Rejections == rejected = IF phase = "done" THEN Failures \cup Defeats ELSE Failures

Kernel == {e \in declared : e[1] \in Members(valid) /\ e[2] \in Members(valid)}

(* The framework, as far as it has been built.                              *)
Contest == atk = CASE phase = "verify" -> {}
                   [] phase = "defeat" -> Kernel
                   [] OTHER -> Kernel \cup PairwiseAttacks

(* Somebody other than c, who is in, attacks o.                             *)
Rescued(c, o) == \E d \in Members(valid) \ {c} : <<d, o>> \in atk /\ label[d] = "in"

(* Of two candidates that attack each other, one is in only when somebody   *)
(* else who is in attacks the other.                                        *)
Unfabricated ==
    \A c, o \in Members(valid) :
        c # o /\ <<c, o>> \in atk /\ <<o, c>> \in atk /\ label[c] = "in" => Rescued(c, o)

Scanning ==
    /\ phase \in {"verify", "defeat"} => changed = FALSE /\ pos = 1 /\ done = FALSE
    /\ phase \in {"label", "done"} => GP!IInv /\ Unfabricated
    /\ phase = "done" => done

IInv == Typing /\ Sieved /\ Rejections /\ Contest /\ Scanning

-----------------------------------------------------------------------------
(* Module Grounded's assumptions hold of this instance, and its nodes and   *)
(* steps are the ones decision_space sees.                                  *)

(* Lists of distinct candidates are orders the engine may be run on.        *)
LEMMA OrdersInstance == GP!OrdersAssumption
BY DEF GP!OrdersAssumption, GP!IsOrder, Distinct

(* The engine needs a value that is no labelling; there is one.             *)
LEMMA NoAnswerInstance == GP!NoAnswerAssumption
<1>1. NoLabelling \notin UNION {Labellings(n) : n \in SUBSET Candidate}
  BY NoSetContainsEverything DEF NoLabelling
<1>2. \A n : GP!Labellings(n) = Labellings(n)
  BY DEF GP!Labellings, Labellings, GP!Label, Label
<1> QED
  BY <1>1, <1>2 DEF GP!NoAnswerAssumption

(* An iteration seen from here is one of the instance.                      *)
LEMMA SameSteps == G!Next => GP!Next
BY DEF G!Next, GP!Next, G!Skip, GP!Skip, G!Accept, GP!Accept, G!Defeat, GP!Defeat,
       G!Leave, GP!Leave, G!NextPass, GP!NextPass, G!Return, GP!Return,
       G!Visiting, GP!Visiting, G!Advance, GP!Advance,
       G!AllOut, GP!AllOut, G!SomeIn, GP!SomeIn

(* An iteration of the engine keeps the engine's invariant.                 *)
LEMMA ScanKeeps == GP!IInv /\ G!Next => GP!IInv'
BY OrdersInstance, NoAnswerInstance, SameSteps, GP!NextInvariant

(* The nodes of the engine are the valid candidates.                        *)
LEMMA SameNodes ==
    ASSUME valid \in Distinct
    PROVE  /\ GP!Nodes = Members(valid)
           /\ Members(valid) \subseteq Candidate
           /\ DOMAIN valid = 1..Len(valid) /\ Len(valid) \in Nat
BY DEF GP!Nodes, Members, Distinct

(* What is known of the submitted list and the position in it.              *)
LEMMA ListFacts ==
    ASSUME Typing
    PROVE  /\ ids \in Seq(Candidate) /\ Len(ids) \in Nat /\ DOMAIN ids = 1..Len(ids)
           /\ \A i \in 1..Len(ids) : ids[i] \in Candidate
           /\ \A i, j \in 1..Len(ids) : ids[i] = ids[j] => i = j
           /\ k \in Nat /\ k <= Len(ids)
           /\ Kept \subseteq 1..Len(ids)
<1>1. ids \in Seq(Candidate) /\ \A i, j \in 1..Len(ids) : ids[i] = ids[j] => i = j
  BY ListsAssumption DEF Typing
<1>2. k \in Nat /\ k <= Len(ids) /\ Len(ids) \in Nat
  BY <1>1 DEF Typing
<1> QED
  BY <1>1, <1>2 DEF Kept

(* Read over its indices, a list runs its candidates in pairs.              *)
LEMMA BeforeByIndex ==
    ASSUME NEW s \in Seq(Candidate)
    PROVE  \A p : p \in Before(s) <=> \E i, j \in 1..Len(s) : i < j /\ p = <<s[i], s[j]>>
<1> SUFFICES ASSUME NEW p
             PROVE  p \in Before(s) <=> \E i, j \in 1..Len(s) : i < j /\ p = <<s[i], s[j]>>
  OBVIOUS
<1>1. ASSUME NEW i \in 1..Len(s), NEW j \in 1..Len(s)
      PROVE  <<s[i], s[j]>> \in Members(s) \X Members(s)
  BY DEF Members
<1> QED
  BY <1>1 DEF Before

-----------------------------------------------------------------------------
(* The steps.                                                               *)

(* Nobody has been looked at.                                               *)
LEMMA InitInvariant == Init => IInv
<1> SUFFICES ASSUME Init PROVE IInv
  OBVIOUS
<1>1. ids \in Seq(Candidate) /\ Len(ids) \in Nat
  BY ListsAssumption DEF Init
<1>2. Typing
  BY <1>1 DEF Init, Typing
<1>3. Kept = {} /\ Failures = {}
  BY DEF Init, Kept, Failures
<1>4. Members(valid) = {} /\ Before(valid) = {} /\ valid \in Distinct
  BY DEF Init, Members, Before, Distinct
<1>5. Sieved
  BY <1>3, <1>4 DEF Sieved, Pairs
<1>6. Rejections /\ Contest /\ Scanning
  BY <1>3 DEF Init, Rejections, Contest, Scanning
<1> QED
  BY <1>2, <1>5, <1>6 DEF IInv

(* A candidate that passed goes to the end of valid.                        *)
LEMMA PassStep == ASSUME IInv, Pass PROVE IInv'
<1>1. /\ UNCHANGED <<inputs, phase, rejected, atk, scan>>
      /\ phase = "verify" /\ k < Len(ids) /\ k' = k + 1 /\ ok[ids[k + 1]]
      /\ valid' = Append(valid, ids[k + 1])
  BY DEF Pass, Verifying
<1>2. UNCHANGED <<ids, ok, declared, winner, label, changed, pos, done>>
  BY <1>1 DEF inputs, scan
<1>3. /\ ids \in Seq(Candidate) /\ Len(ids) \in Nat
      /\ \A i \in 1..Len(ids) : ids[i] \in Candidate
      /\ \A i, j \in 1..Len(ids) : ids[i] = ids[j] => i = j
      /\ k \in Nat /\ k + 1 \in 1..Len(ids) /\ Kept \subseteq 1..k
  BY <1>1, ListFacts DEF IInv, Kept
<1>4. Kept' = Kept \cup {k + 1} /\ 1..k' = 1..k \cup {k + 1} /\ k + 1 \notin 1..k
  BY <1>1, <1>2, <1>3 DEF Kept
<1>5. /\ valid \in Seq(Candidate) /\ Len(valid) \in Nat
      /\ \A i, j \in 1..Len(valid) : valid[i] = valid[j] => i = j
      /\ Members(valid) = {ids[i] : i \in Kept}
  BY DEF IInv, Sieved, Distinct
<1>6. /\ valid' \in Seq(Candidate) /\ Len(valid') = Len(valid) + 1
      /\ \A i \in 1..Len(valid) : valid'[i] = valid[i]
      /\ valid'[Len(valid) + 1] = ids[k + 1]
      /\ DOMAIN valid = 1..Len(valid) /\ DOMAIN valid' = 1..(Len(valid) + 1)
  BY <1>1, <1>3, <1>5
<1>7. \A i \in 1..Len(valid) : valid[i] # ids[k + 1]
  <2>1. \A i \in 1..Len(valid) : \E j \in Kept : valid[i] = ids[j]
    BY <1>5, <1>6 DEF Members
  <2> QED
    BY <1>3, <1>4, <2>1
<1>8. valid' \in Distinct
  <2> SUFFICES ASSUME NEW i \in 1..(Len(valid) + 1), NEW j \in 1..(Len(valid) + 1),
                      valid'[i] = valid'[j]
               PROVE  i = j
    BY <1>6 DEF Distinct
  <2>1. (i \in 1..Len(valid) \/ i = Len(valid) + 1) /\ (j \in 1..Len(valid) \/ j = Len(valid) + 1)
    BY <1>5
  <2> QED
    BY <1>5, <1>6, <1>7, <2>1
<1>9. Members(valid') = Members(valid) \cup {ids[k + 1]}
  <2>1. 1..(Len(valid) + 1) = 1..Len(valid) \cup {Len(valid) + 1}
    BY <1>5
  <2> QED
    BY <1>6, <2>1 DEF Members
<1>10. Members(valid') = {ids[i] : i \in Kept'}
  BY <1>4, <1>5, <1>9
<1>11. Before(valid') = Pairs(Kept')
  <2>1. Before(valid') = Before(valid) \cup (Members(valid) \X {ids[k + 1]})
    <3>0. valid \in Seq(Candidate) /\ valid' \in Seq(Candidate) /\ Len(valid') = Len(valid) + 1
      BY <1>5, <1>6
    <3>1. \A p : p \in Before(valid') <=>
                 \E i, j \in 1..(Len(valid) + 1) : i < j /\ p = <<valid'[i], valid'[j]>>
      BY <3>0, BeforeByIndex
    <3>2. \A p : p \in Before(valid) <=>
                 \E i, j \in 1..Len(valid) : i < j /\ p = <<valid[i], valid[j]>>
      BY <3>0, BeforeByIndex
    <3>3. ASSUME NEW p \in Before(valid') PROVE p \in Before(valid) \cup (Members(valid) \X {ids[k + 1]})
      <4>1. PICK i, j \in 1..(Len(valid) + 1) : i < j /\ p = <<valid'[i], valid'[j]>>
        BY <3>1, <3>3
      <4>2. i \in 1..Len(valid) /\ (j \in 1..Len(valid) \/ j = Len(valid) + 1)
        BY <1>5, <4>1
      <4> QED
        BY <1>6, <3>2, <4>1, <4>2 DEF Members
    <3>4. ASSUME NEW p \in Before(valid) PROVE p \in Before(valid')
      <4>1. PICK i, j \in 1..Len(valid) : i < j /\ p = <<valid[i], valid[j]>>
        BY <3>2, <3>4
      <4>2. i \in 1..(Len(valid) + 1) /\ j \in 1..(Len(valid) + 1)
        BY <1>5
      <4> QED
        BY <1>6, <3>1, <4>1, <4>2
    <3>5. ASSUME NEW c \in Members(valid) PROVE <<c, ids[k + 1]>> \in Before(valid')
      <4>1. PICK i \in 1..Len(valid) : c = valid[i]
        BY <1>6, <3>5 DEF Members
      <4>2. i \in 1..(Len(valid) + 1) /\ Len(valid) + 1 \in 1..(Len(valid) + 1) /\ i < Len(valid) + 1
        BY <1>5
      <4> QED
        BY <1>6, <3>1, <4>1, <4>2
    <3> QED
      BY <3>3, <3>4, <3>5
  <2>2. Pairs(Kept') = Pairs(Kept) \cup ({ids[i] : i \in Kept} \X {ids[k + 1]})
    <3>1. \A i \in Kept : i < k + 1 /\ i \in Nat /\ k + 1 \in Nat
      BY <1>3
    <3>2. ASSUME NEW x \in Pairs(Kept')
          PROVE  x \in Pairs(Kept) \cup ({ids[i] : i \in Kept} \X {ids[k + 1]})
      <4>1. PICK i, j \in Kept' : i < j /\ x = <<ids[i], ids[j]>>
        BY <3>2 DEF Pairs
      <4>2. i \in Kept
        BY <1>4, <3>1, <4>1
      <4>3. CASE j = k + 1
        BY <4>1, <4>2, <4>3
      <4>4. CASE j \in Kept
        <5>1. <<i, j>> \in {q \in Kept \X Kept : q[1] < q[2]}
          BY <4>1, <4>2, <4>4
        <5> QED
          BY <4>1, <5>1 DEF Pairs
      <4> QED
        BY <1>4, <4>1, <4>3, <4>4
    <3>3. ASSUME NEW x \in Pairs(Kept) PROVE x \in Pairs(Kept')
      BY <1>4, <3>3 DEF Pairs
    <3>4. ASSUME NEW i \in Kept PROVE <<ids[i], ids[k + 1]>> \in Pairs(Kept')
      <4>1. <<i, k + 1>> \in {q \in Kept' \X Kept' : q[1] < q[2]}
        BY <1>4, <3>1
      <4> QED
        BY <4>1 DEF Pairs
    <3> QED
      BY <3>2, <3>3, <3>4
  <2>3. Before(valid) = Pairs(Kept)
    BY DEF IInv, Sieved
  <2> QED
    BY <1>5, <2>1, <2>2, <2>3
<1>12. Sieved'
  BY <1>2, <1>8, <1>10, <1>11 DEF Sieved, Pairs
<1>13. Typing'
  BY <1>1, <1>2, <1>3 DEF IInv, Typing
<1>14. Rejections'
  <2>1. (1..k') \ Kept' = (1..k) \ Kept
    BY <1>3, <1>4
  <2> QED
    BY <1>1, <1>2, <2>1 DEF IInv, Rejections, Failures
<1>15. Contest' /\ Scanning'
  BY <1>1, <1>2 DEF IInv, Contest, Scanning
<1> QED
  BY <1>12, <1>13, <1>14, <1>15 DEF IInv

(* A candidate that failed leaves valid as it is.                           *)
LEMMA FailStep == ASSUME IInv, Fail PROVE IInv'
<1>1. /\ UNCHANGED <<inputs, phase, valid, atk, scan>>
      /\ phase = "verify" /\ k < Len(ids) /\ k' = k + 1 /\ ~ok[ids[k + 1]]
      /\ rejected' = rejected \cup {<<ids[k + 1], "failed verification">>}
  BY DEF Fail, Verifying
<1>2. UNCHANGED <<ids, ok, declared, winner, label, changed, pos, done>>
  BY <1>1 DEF inputs, scan
<1>3. Len(ids) \in Nat /\ k \in Nat /\ Kept \subseteq 1..k
  BY ListFacts DEF IInv, Kept
<1>4. 1..k' = (1..k) \cup {k + 1} /\ k + 1 \notin 1..k /\ k' \in 0..Len(ids)
  <2>1. k' = k + 1 /\ k < Len(ids)
    BY <1>1
  <2>2. 1..(k + 1) = (1..k) \cup {k + 1}
    BY <1>3
  <2>3. k + 1 \in 0..Len(ids) /\ k + 1 \notin 1..k
    BY <1>3, <2>1
  <2> QED
    BY <2>1, <2>2, <2>3
<1>5. Kept' = Kept
  BY <1>1, <1>2, <1>4 DEF Kept
<1>6. (1..k') \ Kept' = ((1..k) \ Kept) \cup {k + 1}
  BY <1>3, <1>4, <1>5
<1>7. Typing'
  BY <1>1, <1>2, <1>4 DEF IInv, Typing
<1>8. Sieved'
  BY <1>1, <1>2, <1>5 DEF IInv, Sieved, Pairs
<1>9. Rejections'
  BY <1>1, <1>2, <1>6 DEF IInv, Rejections, Failures
<1>10. Contest' /\ Scanning'
  BY <1>1, <1>2 DEF IInv, Contest, Scanning
<1> QED
  BY <1>7, <1>8, <1>9, <1>10 DEF IInv

(* Verification is over: the declared attacks between valid candidates.     *)
LEMMA KeepStep == ASSUME IInv, KeepAttacks PROVE IInv'
<1>1. /\ UNCHANGED <<ids, ok, declared, winner, k, valid, rejected, label, changed, pos, done>>
      /\ phase = "verify" /\ phase' = "defeat" /\ k = Len(ids) /\ atk' = Kernel
  BY DEF KeepAttacks, inputs, scan, Kernel
<1>2. Kept' = Kept /\ Failures' = Failures /\ Kernel' = Kernel
  BY <1>1 DEF Kept, Failures, Kernel
<1>3. Typing'
  BY <1>1 DEF IInv, Typing
<1>4. Sieved'
  BY <1>1, <1>2 DEF IInv, Sieved, Pairs
<1>5. Rejections'
  BY <1>1, <1>2 DEF IInv, Rejections
<1>6. Contest' /\ Scanning'
  BY <1>1, <1>2 DEF IInv, Contest, Scanning
<1> QED
  BY <1>3, <1>4, <1>5, <1>6 DEF IInv

(* Both sources of attacks speak of valid candidates only.                  *)
LEMMA AttacksAmongValid ==
    ASSUME IInv
    PROVE  /\ Kernel \subseteq Members(valid) \X Members(valid)
           /\ PairwiseAttacks \subseteq Members(valid) \X Members(valid)
<1>1. Kernel \subseteq Members(valid) \X Members(valid)
  <2> SUFFICES ASSUME NEW e \in Kernel PROVE e \in Members(valid) \X Members(valid)
    OBVIOUS
  <2>1. e \in Candidate \X Candidate
    BY DeclarableAssumption DEF Kernel, IInv, Typing
  <2> QED
    BY <2>1 DEF Kernel
<1>2. Before(valid) \subseteq Members(valid) \X Members(valid)
  BY DEF Before
<1> QED
  BY <1>1, <1>2 DEF PairwiseAttacks

(* The engine is entered with every label undecided.                        *)
LEMMA OrderStep == ASSUME IInv, OrderPairs PROVE IInv'
<1>1. /\ UNCHANGED <<ids, ok, declared, winner, k, valid, rejected, changed, pos, done>>
      /\ phase = "defeat" /\ phase' = "label"
      /\ atk' = atk \cup PairwiseAttacks
      /\ label' = [c \in Members(valid) |-> "undec"]
  BY DEF OrderPairs, inputs
<1>2. /\ Kept' = Kept /\ Failures' = Failures /\ Kernel' = Kernel
      /\ PairwiseAttacks' = PairwiseAttacks /\ Members(valid)' = Members(valid)
  BY <1>1 DEF Kept, Failures, Kernel, PairwiseAttacks, Members, Before
<1>3. Typing'
  BY <1>1 DEF IInv, Typing
<1>4. Sieved'
  BY <1>1, <1>2 DEF IInv, Sieved, Pairs
<1>5. Rejections'
  BY <1>1, <1>2 DEF IInv, Rejections
<1>6. Contest'
  BY <1>1, <1>2 DEF IInv, Contest
<1>7. /\ valid' \in Distinct /\ GP!Nodes' = Members(valid) /\ Len(valid) \in Nat
      /\ GP!Nodes = Members(valid)
      /\ atk' \in SUBSET (Members(valid) \X Members(valid))
  <2>1. valid \in Distinct
    BY DEF IInv, Sieved
  <2>2. GP!Nodes' = GP!Nodes
    BY <1>1 DEF GP!Nodes
  <2>3. atk = Kernel
    BY <1>1 DEF IInv, Contest
  <2> QED
    BY <1>1, <2>1, <2>2, <2>3, SameNodes, AttacksAmongValid
<1>8. \A n \in Members(valid) : label'[n] = "undec"
  BY <1>1
<1>9. changed' = FALSE /\ pos' = 1 /\ done' = FALSE
  BY <1>1 DEF IInv, Scanning
<1>10. GP!IInv'
  <2>1. GP!TypeOK'
    <3>1. label' \in GP!Labellings(Members(valid))
      BY <1>1 DEF GP!Labellings, GP!Label
    <3>2. 1 \in 1..(Len(valid) + 1)
      BY <1>7
    <3> QED
      BY <1>1, <1>7, <1>9, <3>1, <3>2 DEF GP!TypeOK
  <2>2. GP!Justified'
    BY <1>7, <1>8 DEF GP!Justified, GP!JustifiedAt
  <2>3. GP!Skeptical'
    BY <1>1, <1>7, <1>8 DEF GP!Skeptical, GP!Below
  <2>4. GP!QuietPrefixStable' /\ GP!DoneQuiet'
    BY <1>9 DEF GP!QuietPrefixStable, GP!DoneQuiet
  <2> QED
    BY <2>1, <2>2, <2>3, <2>4 DEF GP!IInv
<1>11. Unfabricated'
  BY <1>2, <1>8 DEF Unfabricated
<1>12. Scanning'
  BY <1>1, <1>10, <1>11 DEF Scanning
<1> QED
  BY <1>3, <1>4, <1>5, <1>6, <1>12 DEF IInv

(* Who is in and who attacks whom is all that Unfabricated looks at.        *)
LEMMA TieUnchanged ==
    ASSUME Unfabricated, valid' = valid, atk' = atk, label' = label
    PROVE  Unfabricated'
<1>1. \A c, o : Rescued(c, o)' <=> Rescued(c, o)
  BY DEF Rescued
<1> QED
  BY <1>1 DEF Unfabricated

(* A tie is broken only from outside: when a node enters, all its attackers *)
(* are out, and one that it attacks back was put out by somebody else,      *)
(* because the node itself was undecided until now.                         *)
LEMMA ScanStaysUnfabricated ==
    ASSUME valid \in Distinct, GP!IInv, Unfabricated, G!Next
    PROVE  Unfabricated'
<1>1. GP!Nodes = Members(valid) /\ valid' = valid /\ atk' = atk
  BY SameNodes DEF G!Next, G!Skip, G!Accept, G!Defeat, G!Leave, G!NextPass, G!Return,
                   G!Advance
<1>2. label \in [Members(valid) -> {"in", "out", "undec"}]
  BY <1>1 DEF GP!IInv, GP!TypeOK, GP!Labellings, GP!Label
<1>3. Members(valid)' = Members(valid)
  BY <1>1 DEF Members
<1>4. CASE UNCHANGED label
  BY <1>1, <1>4, TieUnchanged
<1>5. ASSUME NEW n, NEW v \in {"in", "out"},
             label[n] = "undec", label' = [label EXCEPT ![n] = v],
             v = "in" => G!AllOut(atk, label, n)
      PROVE  Unfabricated'
  <2>1. \A x \in Members(valid) : label[x] # "undec" => label'[x] = label[x]
    BY <1>2, <1>5
  <2> SUFFICES ASSUME NEW c \in Members(valid), NEW o \in Members(valid),
                      c # o, <<c, o>> \in atk, <<o, c>> \in atk, label'[c] = "in"
               PROVE  \E d \in Members(valid) \ {c} : <<d, o>> \in atk /\ label'[d] = "in"
    <3>1. \A c, o : Rescued(c, o)' <=> \E d \in Members(valid) \ {c} :
                                          <<d, o>> \in atk /\ label'[d] = "in"
      BY <1>1, <1>3 DEF Rescued
    <3> QED
      BY <1>1, <1>3, <3>1 DEF Unfabricated
  <2>2. CASE label[c] = "in"
    <3>1. PICK d \in Members(valid) \ {c} : <<d, o>> \in atk /\ label[d] = "in"
      BY <2>2 DEF Unfabricated, Rescued
    <3> QED
      BY <2>1, <3>1
  <2>3. CASE label[c] # "in"
    <3>1. c = n /\ v = "in" /\ label[c] = "undec"
      BY <1>2, <1>5, <2>3
    <3>2. label[o] = "out"
      BY <1>2, <1>5, <3>1 DEF G!AllOut
    <3>3. GP!SomeIn(atk, label, o)
      BY <1>1, <3>2 DEF GP!IInv, GP!Justified, GP!JustifiedAt
    <3>4. PICK d \in Members(valid) : <<d, o>> \in atk /\ label[d] = "in"
      BY <1>2, <3>3 DEF GP!SomeIn
    <3> QED
      BY <2>1, <3>1, <3>4
  <2> QED
    BY <2>2, <2>3
<1> QED
  BY <1>4, <1>5 DEF G!Next, G!Skip, G!Accept, G!Defeat, G!Leave, G!NextPass, G!Return

(* One iteration of the engine.                                             *)
LEMMA ScanStep == ASSUME IInv, Scan PROVE IInv'
<1>1. /\ UNCHANGED <<ids, ok, declared, winner, phase, k, rejected>>
      /\ phase = "label" /\ G!Next
  BY DEF Scan, inputs
<1>2. valid' = valid /\ atk' = atk
  BY <1>1 DEF G!Next, G!Skip, G!Accept, G!Defeat, G!Leave, G!NextPass, G!Return, G!Advance
<1>3. /\ Kept' = Kept /\ Failures' = Failures /\ Kernel' = Kernel
      /\ PairwiseAttacks' = PairwiseAttacks /\ Members(valid)' = Members(valid)
  BY <1>1, <1>2 DEF Kept, Failures, Kernel, PairwiseAttacks, Members, Before
<1>4. Typing'
  BY <1>1 DEF IInv, Typing
<1>5. Sieved'
  BY <1>1, <1>2, <1>3 DEF IInv, Sieved, Pairs
<1>6. Rejections' /\ Contest'
  BY <1>1, <1>2, <1>3 DEF IInv, Rejections, Contest
<1>7. GP!IInv' /\ Unfabricated'
  BY <1>1, ScanKeeps, ScanStaysUnfabricated DEF IInv, Scanning, Sieved
<1>8. Scanning'
  BY <1>1, <1>7 DEF Scanning
<1> QED
  BY <1>4, <1>5, <1>6, <1>8 DEF IInv

(* The defeated join the rejected.                                          *)
LEMMA CollectStep == ASSUME IInv, Collect PROVE IInv'
<1>1. /\ UNCHANGED <<ids, ok, declared, winner, k, valid, atk, label, changed, pos, done>>
      /\ phase = "label" /\ phase' = "done" /\ done
      /\ rejected' = rejected \cup Defeats
  BY DEF Collect, inputs, scan, Defeats
<1>2. /\ Kept' = Kept /\ Failures' = Failures /\ Kernel' = Kernel /\ Defeats' = Defeats
      /\ PairwiseAttacks' = PairwiseAttacks /\ Members(valid)' = Members(valid)
  BY <1>1 DEF Kept, Failures, Kernel, PairwiseAttacks, Members, Before, Defeats
<1>3. Typing'
  BY <1>1 DEF IInv, Typing
<1>4. Sieved'
  BY <1>1, <1>2 DEF IInv, Sieved, Pairs
<1>5. Rejections' /\ Contest'
  BY <1>1, <1>2 DEF IInv, Rejections, Contest
<1>6. GP!IInv' <=> GP!IInv
  BY <1>1 DEF GP!IInv, GP!TypeOK, GP!Justified, GP!Skeptical, GP!QuietPrefixStable,
              GP!DoneQuiet, GP!Nodes, GP!Stable
<1>7. Unfabricated'
  BY <1>1, TieUnchanged DEF IInv, Scanning
<1>8. Scanning'
  BY <1>1, <1>6, <1>7 DEF IInv, Scanning
<1> QED
  BY <1>3, <1>4, <1>5, <1>8 DEF IInv

(* Every statement of decision_space keeps the invariant.                   *)
LEMMA NextInvariant == IInv /\ [Next]_vars => IInv'
<1> SUFFICES ASSUME IInv, [Next]_vars PROVE IInv'
  OBVIOUS
<1>1. CASE UNCHANGED vars
  <2>1. UNCHANGED <<ids, ok, declared, winner, phase, k, valid, rejected, atk, label,
                    changed, pos, done>>
    BY <1>1 DEF vars, inputs, scan
  <2>2. /\ Kept' = Kept /\ Failures' = Failures /\ Kernel' = Kernel /\ Defeats' = Defeats
        /\ PairwiseAttacks' = PairwiseAttacks
    BY <2>1 DEF Kept, Failures, Kernel, PairwiseAttacks, Members, Before, Defeats
  <2>3. Typing' /\ Rejections' /\ Contest'
    BY <2>1, <2>2 DEF IInv, Typing, Rejections, Contest
  <2>4. Sieved'
    BY <2>1, <2>2 DEF IInv, Sieved, Pairs
  <2>5. GP!IInv' <=> GP!IInv
    BY <2>1 DEF GP!IInv, GP!TypeOK, GP!Justified, GP!Skeptical, GP!QuietPrefixStable,
                GP!DoneQuiet, GP!Nodes, GP!Stable
  <2>6. Scanning'
    BY <2>1, <2>5, TieUnchanged DEF IInv, Scanning
  <2> QED
    BY <2>3, <2>4, <2>6 DEF IInv
<1> QED
  BY <1>1, PassStep, FailStep, KeepStep, OrderStep, ScanStep, CollectStep DEF Next

-----------------------------------------------------------------------------
(* The theorems.                                                            *)

(* The inductive invariant holds in every reachable state.                  *)
THEOREM Invariance == Spec => []IInv
<1> QED
  BY InitInvariant, NextInvariant, PTL DEF Spec

(* What is collected is what a quiet engine holds: the grounded labelling   *)
(* of the framework that was built.                                         *)
LEMMA CollectedIsGrounded ==
    ASSUME IInv, phase = "done"
    PROVE  /\ IsGrounded(Members(valid), atk, label)
           /\ label \in Labellings(Members(valid))
<1>1. GP!IInv /\ done /\ valid \in Distinct /\ GP!Nodes = Members(valid)
  BY SameNodes DEF IInv, Scanning, Sieved
<1>2. ~changed /\ pos = Len(valid) + 1
  BY <1>1 DEF GP!IInv, GP!DoneQuiet
<1>3. GP!IsGrounded(Members(valid), atk, label)
  BY <1>1, <1>2, OrdersInstance, NoAnswerInstance, GP!QuietIsGrounded
<1>4. \A n : GP!Labellings(n) = Labellings(n)
  BY DEF GP!Labellings, Labellings, GP!Label, Label
<1>5. \A M : GP!Complete(atk, M) <=> Complete(atk, M)
  BY DEF GP!Complete, Complete, GP!CompleteAt, CompleteAt, GP!AllOut, AllOut,
         GP!SomeIn, SomeIn
<1>6. \A M : GP!Below(label, M) <=> Below(label, M)
  BY DEF GP!Below, Below
<1> QED
  BY <1>3, <1>4, <1>5, <1>6 DEF GP!IsGrounded, IsGrounded

(* Invalidity is not defeat: the answer is the grounded labelling of the    *)
(* candidates that passed, under the attacks declared between them and the  *)
(* pairs defeat ordered, and everyone else is rejected for his own reason.  *)
THEOREM AlwaysAnswersForTheValid == Spec => []AnswersForTheValid
<1>1. IInv => AnswersForTheValid
  <2> SUFFICES ASSUME IInv, phase = "done" PROVE AnswersForTheValid
    BY DEF AnswersForTheValid
  <2> DEFINE sound == {c \in Members(ids) : ok[c]}
             duel  == IF winner = NoDefeat THEN {}
                      ELSE {e \in sound \X sound :
                              \/ e \in Before(ids) /\ winner[e] # "b"
                              \/ <<e[2], e[1]>> \in Before(ids) /\ winner[<<e[2], e[1]>>] # "a"}
  <2>1. /\ k = Len(ids) /\ DOMAIN ids = 1..Len(ids) /\ Len(ids) \in Nat
        /\ \A i, j \in 1..Len(ids) : ids[i] = ids[j] => i = j
    BY ListFacts DEF IInv, Typing
  <2>2. sound = Members(valid)
    <3>1. Members(valid) = {ids[i] : i \in Kept}
      BY DEF IInv, Sieved
    <3>2. Kept = {i \in 1..Len(ids) : ok[ids[i]]}
      BY <2>1 DEF Kept
    <3>3. sound = {c \in {ids[i] : i \in 1..Len(ids)} : ok[c]}
      BY <2>1 DEF Members
    <3> QED
      BY <3>1, <3>2, <3>3
  <2>3. Failures = {<<c, "failed verification">> : c \in Members(ids) \ sound}
    <3>1. ASSUME NEW i \in (1..k) \ Kept PROVE ids[i] \in Members(ids) \ sound
      BY <2>1, <3>1 DEF Kept, Members
    <3>2. ASSUME NEW c \in Members(ids) \ sound PROVE \E i \in (1..k) \ Kept : c = ids[i]
      <4>1. PICK i \in 1..k : c = ids[i] /\ ~ok[c]
        BY <2>1, <3>2 DEF Members
      <4> QED
        BY <4>1 DEF Kept
    <3> HIDE DEF sound
    <3> QED
      BY <3>1, <3>2 DEF Failures
  <2>4. Before(valid) = Before(ids) \cap (sound \X sound)
    <3>1. ASSUME NEW p \in Before(valid) PROVE p \in Before(ids) /\ p \in sound \X sound
      <4>1. PICK i, j \in Kept : i < j /\ p = <<ids[i], ids[j]>>
        BY <3>1 DEF IInv, Sieved, Pairs
      <4>2. i \in 1..Len(ids) /\ j \in 1..Len(ids) /\ ok[ids[i]] /\ ok[ids[j]]
        BY <2>1 DEF Kept
      <4> QED
        BY <2>1, <4>1, <4>2 DEF Before, Members
    <3>2. ASSUME NEW p \in Before(ids), p \in sound \X sound PROVE p \in Before(valid)
      <4>1. PICK i, j \in 1..Len(ids) : i < j /\ p = <<ids[i], ids[j]>>
        BY <2>1 DEF Before
      <4>2. i \in Kept /\ j \in Kept
        BY <2>1, <3>2, <4>1 DEF Kept
      <4>3. <<i, j>> \in {q \in Kept \X Kept : q[1] < q[2]}
        BY <4>1, <4>2
      <4>4. p \in Pairs(Kept)
        BY <4>1, <4>3 DEF Pairs
      <4> QED
        BY <4>4 DEF IInv, Sieved
    <3> QED
      BY <3>1, <3>2
  <2>5. Kernel = declared \cap (sound \X sound)
    <3>1. \A e \in declared : e \in Candidate \X Candidate
      BY DeclarableAssumption DEF IInv, Typing
    <3> QED
      BY <2>2, <3>1 DEF Kernel
  <2>6. PairwiseAttacks = duel
    <3>1. CASE winner = NoDefeat
      BY <3>1 DEF PairwiseAttacks
    <3>2. CASE winner # NoDefeat
      <4>1. \A p \in Before(ids) : winner[p] \in {"a", "b", "none"}
        BY <3>2 DEF IInv, Typing
      <4>2. \A p \in Before(ids) : /\ winner[p] \in {"a", "none"} <=> winner[p] # "b"
                                   /\ winner[p] \in {"b", "none"} <=> winner[p] # "a"
        BY <4>1
      <4>3. \A p \in Before(ids) : p = <<p[1], p[2]>>
        BY DEF Before
      <4>4. ASSUME NEW e \in PairwiseAttacks PROVE e \in duel
        <5>1. CASE \E p \in Before(valid) : winner[p] \in {"a", "none"} /\ e = p
          BY <2>4, <3>2, <4>2, <5>1
        <5>2. CASE \E p \in Before(valid) : winner[p] \in {"b", "none"} /\ e = <<p[2], p[1]>>
          <6>1. PICK p \in Before(valid) : winner[p] \in {"b", "none"} /\ e = <<p[2], p[1]>>
            BY <5>2
          <6>2. <<e[2], e[1]>> = p /\ e \in sound \X sound
            BY <2>4, <4>3, <6>1
          <6> QED
            BY <2>4, <3>2, <4>2, <6>1, <6>2
        <5> QED
          BY <3>2, <5>1, <5>2 DEF PairwiseAttacks
      <4>5. ASSUME NEW e \in duel PROVE e \in PairwiseAttacks
        <5>1. e \in sound \X sound /\ e = <<e[1], e[2]>>
          BY <3>2
        <5>2. CASE e \in Before(ids) /\ winner[e] # "b"
          BY <2>4, <3>2, <4>2, <5>1, <5>2 DEF PairwiseAttacks
        <5>3. CASE <<e[2], e[1]>> \in Before(ids) /\ winner[<<e[2], e[1]>>] # "a"
          <6> DEFINE p == <<e[2], e[1]>>
          <6>1. p \in Before(valid) /\ winner[p] \in {"b", "none"} /\ e = <<p[2], p[1]>>
            BY <2>4, <4>2, <5>1, <5>3
          <6> QED
            BY <3>2, <6>1 DEF PairwiseAttacks
        <5> QED
          BY <3>2, <5>2, <5>3
      <4> QED
        BY <4>4, <4>5
    <3> QED
      BY <3>1, <3>2
  <2>7. atk = (declared \cap (sound \X sound)) \cup duel
    BY <2>5, <2>6 DEF IInv, Contest
  <2>8. IsGrounded(sound, (declared \cap (sound \X sound)) \cup duel, label)
    BY <2>2, <2>7, CollectedIsGrounded
  <2>9. rejected = {<<c, "failed verification">> : c \in Members(ids) \ sound}
                   \cup {<<c, "defeated">> : c \in {d \in sound : label[d] = "out"}}
    BY <2>2, <2>3 DEF IInv, Rejections, Defeats
  <2> HIDE DEF sound, duel
  <2> QED
    BY <2>8, <2>9 DEF AnswersForTheValid, sound, duel
<1> QED
  BY <1>1, Invariance, PTL

(* No winner comes out of a tie: of two candidates defeat cannot separate,  *)
(* one is accepted only when a third accepted one defeats the other.        *)
THEOREM AlwaysNoFabricatedWinner == Spec => []NoFabricatedWinner
<1>1. IInv => NoFabricatedWinner
  <2> SUFFICES ASSUME IInv, phase = "done", winner # NoDefeat,
                      NEW p \in Before(valid), winner[p] = "none",
                      NEW c \in {p[1], p[2]} \cap Accepted
               PROVE  \E d \in Accepted \ {c}, o \in {p[1], p[2]} \ {c} : <<d, o>> \in atk
    BY DEF NoFabricatedWinner
  <2>1. PICK i, j \in 1..Len(valid) : i < j /\ p = <<valid[i], valid[j]>>
    BY SameNodes DEF Before, IInv, Sieved
  <2>2. p[1] \in Members(valid) /\ p[2] \in Members(valid) /\ p[1] # p[2]
    <3>1. valid[i] # valid[j]
      BY <2>1 DEF IInv, Sieved, Distinct
    <3> QED
      BY <2>1, <3>1, SameNodes DEF Members, IInv, Sieved
  <2>3. p \in PairwiseAttacks /\ <<p[2], p[1]>> \in PairwiseAttacks
    BY DEF PairwiseAttacks
  <2>4. PairwiseAttacks \subseteq atk
    BY DEF IInv, Contest
  <2>5. <<p[1], p[2]>> \in atk /\ <<p[2], p[1]>> \in atk
    BY <2>1, <2>3, <2>4
  <2>6. PICK o \in {p[1], p[2]} : o # c
    BY <2>2
  <2>7. <<c, o>> \in atk /\ <<o, c>> \in atk /\ o \in Members(valid) /\ c \in Members(valid)
    BY <2>2, <2>5, <2>6
  <2>8. label[c] = "in"
    BY DEF Accepted
  <2>9. PICK d \in Members(valid) \ {c} : <<d, o>> \in atk /\ label[d] = "in"
    BY <2>6, <2>7, <2>8 DEF IInv, Scanning, Unfabricated, Rescued
  <2> QED
    BY <2>6, <2>9 DEF Accepted
<1> QED
  BY <1>1, Invariance, PTL
=============================================================================
