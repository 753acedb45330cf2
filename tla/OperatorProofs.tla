--------------------------- MODULE OperatorProofs ---------------------------
(***************************************************************************)
(* Lemmas about the operators that several components share, for every      *)
(* value of their arguments: labellings of argumentation frameworks, orders *)
(* with ties, sets of finite sets, and reachability in finite graphs.  They *)
(* speak of no program state.  Induction over data is replaced throughout by*)
(* the choice of a minimal counterexample in a well-founded set             *)
(* (MinimalSet).                                                            *)
(***************************************************************************)
EXTENDS Argumentation, Reachability, Integers, WellFoundedInduction, FiniteSetTheorems, TLAPS

(* Two labellings each of which is grounded in the same framework are one:  *)
(* the order in which decision_space lists its candidates cannot change     *)
(* what is accepted.                                                        *)
THEOREM GroundedUnique ==
    ASSUME NEW nodes, NEW atk, NEW L, NEW M,
           IsGrounded(nodes, atk, L), IsGrounded(nodes, atk, M)
    PROVE  L = M
<1>1. L \in Labellings(nodes) /\ M \in Labellings(nodes)
  BY DEF IsGrounded
<1>2. Below(L, M) /\ Below(M, L)
  BY DEF IsGrounded
<1>3. ASSUME NEW n \in nodes PROVE L[n] = M[n]
  <2>1. CASE L[n] # "undec"
    BY <1>1, <1>2, <2>1 DEF Below, Labellings
  <2>2. CASE L[n] = "undec" /\ M[n] # "undec"
    BY <1>1, <1>2, <2>2 DEF Below, Labellings
  <2>3. CASE L[n] = "undec" /\ M[n] = "undec"
    BY <2>3
  <2> QED
    BY <2>1, <2>2, <2>3
<1> QED
  BY <1>1, <1>3 DEF Labellings

(* A justified labelling that leaves no node with a reason to be decided is *)
(* complete.                                                                *)
LEMMA StableIsComplete ==
    ASSUME NEW nodes, NEW atk, NEW L \in Labellings(nodes),
           \A n \in nodes : JustifiedAt(atk, L, n),
           \A n \in nodes : L[n] = "undec" => ~AllOut(atk, L, n) /\ ~SomeIn(atk, L, n)
    PROVE  Complete(atk, L)
<1>1. DOMAIN L = nodes
  BY DEF Labellings
<1>2. ASSUME NEW n \in nodes PROVE CompleteAt(atk, L, n)
  <2>1. L[n] \in Label
    BY DEF Labellings
  <2>2. ~(AllOut(atk, L, n) /\ SomeIn(atk, L, n))
    BY DEF AllOut, SomeIn
  <2>3. CASE L[n] = "in"
    BY <2>2, <2>3 DEF JustifiedAt, CompleteAt
  <2>4. CASE L[n] = "out"
    BY <2>2, <2>4 DEF JustifiedAt, CompleteAt
  <2>5. CASE L[n] = "undec"
    BY <2>5 DEF CompleteAt
  <2> QED
    BY <2>1, <2>3, <2>4, <2>5 DEF Label
<1> QED
  BY <1>1, <1>2 DEF Complete

-----------------------------------------------------------------------------
(* Writing one justified label keeps all three properties of the labelling. *)

(* Deciding an undecided node disturbs no label that rests on others: the   *)
(* labels it could rest on were decided before and stay as they were.       *)
LEMMA DecidePreserves ==
    ASSUME NEW nodes, NEW atk, NEW L \in Labellings(nodes),
           NEW k \in nodes, NEW v \in {"in", "out"},
           L[k] = "undec",
           v = "in"  => AllOut(atk, L, k),
           v = "out" => SomeIn(atk, L, k),
           \A n \in nodes : JustifiedAt(atk, L, n),
           \A M \in Labellings(nodes) : Complete(atk, M) => Below(L, M),
           NEW L2, L2 = [L EXCEPT ![k] = v]
    PROVE  /\ L2 \in Labellings(nodes)
           /\ \A n \in nodes : JustifiedAt(atk, L2, n)
           /\ \A M \in Labellings(nodes) : Complete(atk, M) => Below(L2, M)
<1>1. L2 \in Labellings(nodes)
  BY DEF Labellings, Label
<1>2. DOMAIN L = nodes /\ DOMAIN L2 = nodes
  BY <1>1 DEF Labellings
<1>3. L2[k] = v /\ \A n \in nodes : n # k => L2[n] = L[n]
  BY DEF Labellings
<1>4. \A n \in nodes : /\ AllOut(atk, L, n) => AllOut(atk, L2, n)
                       /\ SomeIn(atk, L, n) => SomeIn(atk, L2, n)
  <2>1. ASSUME NEW n \in nodes, AllOut(atk, L, n) PROVE AllOut(atk, L2, n)
    <3>1. ASSUME NEW a \in nodes, <<a, n>> \in atk PROVE L2[a] = "out"
      <4>1. L[a] = "out"
        BY <1>2, <2>1, <3>1 DEF AllOut
      <4>2. a # k
        BY <4>1
      <4> QED
        BY <1>3, <4>1, <4>2
    <3> QED
      BY <1>2, <3>1 DEF AllOut
  <2>2. ASSUME NEW n \in nodes, SomeIn(atk, L, n) PROVE SomeIn(atk, L2, n)
    <3>1. PICK a \in nodes : <<a, n>> \in atk /\ L[a] = "in"
      BY <1>2, <2>2 DEF SomeIn
    <3>2. L2[a] = "in"
      <4>1. a # k
        BY <3>1
      <4> QED
        BY <1>3, <3>1, <4>1
    <3> QED
      BY <1>2, <3>1, <3>2 DEF SomeIn
  <2> QED
    BY <2>1, <2>2
<1>5. ASSUME NEW n \in nodes PROVE JustifiedAt(atk, L2, n)
  <2>1. CASE n = k
    BY <1>3, <1>4, <2>1 DEF JustifiedAt
  <2>2. CASE n # k
    BY <1>3, <1>4, <2>2 DEF JustifiedAt
  <2> QED
    BY <2>1, <2>2
<1>6. ASSUME NEW M \in Labellings(nodes), Complete(atk, M) PROVE Below(L2, M)
  <2>1. DOMAIN M = nodes
    BY DEF Labellings
  <2>2. \A n \in nodes : L[n] # "undec" => M[n] = L[n]
    BY <1>2, <1>6 DEF Below
  <2>3. CompleteAt(atk, M, k)
    BY <1>6, <2>1 DEF Complete
  <2>4. CASE v = "in"
    <3>1. AllOut(atk, M, k)
      <4>1. ASSUME NEW a \in nodes, <<a, k>> \in atk PROVE M[a] = "out"
        <5>1. L[a] = "out"
          BY <1>2, <2>4, <4>1 DEF AllOut
        <5> QED
          BY <2>2, <5>1
      <4> QED
        BY <2>1, <4>1 DEF AllOut
    <3>2. M[k] = "in"
      BY <2>3, <3>1 DEF CompleteAt
    <3> QED
      BY <1>2, <1>3, <2>2, <2>4, <3>2 DEF Below
  <2>5. CASE v = "out"
    <3>1. PICK a \in nodes : <<a, k>> \in atk /\ L[a] = "in"
      BY <1>2, <2>5 DEF SomeIn
    <3>2. M[a] = "in"
      BY <2>2, <3>1
    <3>3. SomeIn(atk, M, k)
      BY <2>1, <3>1, <3>2 DEF SomeIn
    <3>4. M[k] = "out"
      BY <2>3, <3>3 DEF CompleteAt
    <3> QED
      BY <1>2, <1>3, <2>2, <2>5, <3>4 DEF Below
  <2> QED
    BY <2>4, <2>5
<1> QED
  BY <1>1, <1>5, <1>6

-----------------------------------------------------------------------------
(* Well-founded choice.                                                     *)

(* A family of finite sets has a member that includes no other.             *)
LEMMA MinimalSet ==
    ASSUME NEW F, F # {}, \A T \in F : IsFiniteSet(T)
    PROVE  \E T \in F : \A U \in F : U \subseteq T => U = T
<1> DEFINE S == UNION F
<1>1. IsWellFoundedOn(StrictSubsetOrdering(S), FiniteSubsetsOf(S))
  BY FS_StrictSubsetOrderingWellFounded
<1>2. F \subseteq FiniteSubsetsOf(S)
  BY DEF FiniteSubsetsOf
<1> HIDE DEF S
<1>3. \E T \in F : \A U \in F : ~ (<<U, T>> \in StrictSubsetOrdering(S))
  BY <1>1, <1>2, WFMin
<1>4. \A T, U \in F : U \subseteq T /\ U # T => <<U, T>> \in StrictSubsetOrdering(S)
  BY DEF StrictSubsetOrdering, S
<1> QED
  BY <1>3, <1>4

(* A set of natural numbers has a least member.                             *)
LEMMA SmallestNat ==
    ASSUME NEW T \in SUBSET Nat, T # {}
    PROVE  \E n \in T : \A m \in T : n <= m
<1> DEFINE F == {0..n : n \in T}
<1>1. \A U \in F : IsFiniteSet(U)
  <2>1. \A n \in Nat : IsFiniteSet(0..n)
    BY FS_Interval
  <2> QED
    BY <2>1
<1>2. F # {}
  OBVIOUS
<1>3. PICK U \in F : \A V \in F : V \subseteq U => V = U
  <2> HIDE DEF F
  <2> QED
    BY <1>1, <1>2, MinimalSet
<1>4. PICK n \in T : U = 0..n
  OBVIOUS
<1>5. ASSUME NEW m \in T, m < n PROVE FALSE
  <2>1. 0..m \in F /\ 0..m \subseteq 0..n
    BY <1>5
  <2>2. n \notin 0..m /\ n \in 0..n
    BY <1>5
  <2> QED
    BY <2>1, <2>2, <1>3, <1>4
<1> QED
  BY <1>5

(* Induction over the natural numbers, for a set.                           *)
LEMMA AllNats ==
    ASSUME NEW S, 0 \in S, \A n \in Nat : n \in S => n + 1 \in S
    PROVE  \A n \in Nat : n \in S
<1> DEFINE Bad == {n \in Nat : n \notin S}
<1> SUFFICES ASSUME Bad # {} PROVE FALSE
  OBVIOUS
<1>1. PICK n \in Bad : \A m \in Bad : n <= m
  <2>1. Bad \in SUBSET Nat
    OBVIOUS
  <2> HIDE DEF Bad
  <2> QED
    BY <2>1, SmallestNat
<1>2. n # 0
  BY <1>1
<1>3. n - 1 \in Nat /\ n - 1 \notin Bad /\ (n - 1) + 1 = n
  BY <1>1, <1>2
<1> QED
  BY <1>1, <1>3

(* A function of a set can be iterated from any point of it.                *)
LEMMA IterationExists ==
    ASSUME NEW D, NEW d \in D, NEW G \in [D -> D]
    PROVE  \E f \in [Nat -> D] : f[0] = d /\ \A n \in Nat : f[n + 1] = G[f[n]]
<1> DEFINE P(n, h) == h \in [0..n -> D] /\ h[0] = d /\ \A i \in 0..(n - 1) : h[i + 1] = G[h[i]]
           Bad == {n \in Nat : ~ \E h : P(n, h)}
<1>1. P(0, [i \in 0..0 |-> d])
  OBVIOUS
<1>2. ASSUME NEW n \in Nat, NEW h, P(n, h)
      PROVE P(n + 1, [i \in 0..(n+1) |-> IF i = n + 1 THEN G[h[n]] ELSE h[i]])
  BY <1>2
<1>3. \A n \in Nat : \E h : P(n, h)
  <2> SUFFICES ASSUME Bad # {} PROVE FALSE
    OBVIOUS
  <2>1. PICK n \in Bad : \A m \in Bad : n <= m
    <3>1. Bad \in SUBSET Nat
      OBVIOUS
    <3> HIDE DEF Bad
    <3> QED
      BY <3>1, SmallestNat
  <2>2. n \in Nat /\ ~ \E h : P(n, h)
    <3> HIDE DEF P
    <3> QED
      BY <2>1
  <2>3. n # 0
    <3> HIDE DEF P
    <3> QED
      BY <1>1, <2>2
  <2>4. n - 1 \in Nat /\ (n - 1) + 1 = n /\ ~(n <= n - 1)
    BY <2>2, <2>3
  <2>5. PICK h : P(n - 1, h)
    <3> HIDE DEF P
    <3> QED
      BY <2>1, <2>4
  <2>6. \E k : P(n, k)
    <3> HIDE DEF P
    <3>1. PICK m \in Nat : m = n - 1 /\ m + 1 = n
      BY <2>4
    <3>2. P(m, h)
      BY <2>5, <3>1
    <3>3. \E k : P(m + 1, k)
      BY <1>2, <3>2
    <3> QED
      BY <3>1, <3>3
  <2> QED
    BY <2>2, <2>6
<1> DEFINE h(n) == CHOOSE k : P(n, k)
<1>4. \A n \in Nat : P(n, h(n))
  <2> HIDE DEF P
  <2> QED
    BY <1>3
<1>5. \A n \in Nat : \A i \in 0..n : h(n)[i] = h(n + 1)[i]
  <2> SUFFICES ASSUME NEW n \in Nat, NEW a, NEW b, P(n, a), P(n + 1, b)
               PROVE  \A i \in 0..n : a[i] = b[i]
    <3>1. \A n \in Nat : n + 1 \in Nat
      OBVIOUS
    <3> HIDE DEF P, h
    <3> QED
      BY <1>4, <3>1
  <2> DEFINE Diff == {i \in 0..n : a[i] # b[i]}
  <2> HIDE DEF h
  <2> SUFFICES ASSUME Diff # {} PROVE FALSE
    OBVIOUS
  <2>2. PICK i \in Diff : \A j \in Diff : i <= j
    <3>1. Diff \in SUBSET Nat
      OBVIOUS
    <3> HIDE DEF Diff
    <3> QED
      BY <3>1, SmallestNat
  <2>3. i # 0
    BY <2>2
  <2>4. a[i - 1] = b[i - 1]
    BY <2>2, <2>3
  <2>5. i - 1 \in 0..(n - 1) /\ i - 1 \in 0..n /\ (i - 1) + 1 = i
    BY <2>2, <2>3
  <2>6. a[i] = G[a[i - 1]] /\ b[i] = G[b[i - 1]]
    BY <2>5
  <2> QED
    BY <2>2, <2>4, <2>6
<1> DEFINE f == [n \in Nat |-> h(n)[n]]
<1> HIDE DEF h
<1>6. f \in [Nat -> D]
  BY <1>4
<1>7. f[0] = d
  BY <1>4
<1>8. ASSUME NEW n \in Nat PROVE f[n + 1] = G[f[n]]
  <2>1. h(n + 1)[n + 1] = G[h(n + 1)[n]]
    BY <1>4
  <2>2. h(n + 1)[n] = h(n)[n]
    BY <1>5
  <2> QED
    BY <2>1, <2>2
<1> QED
  BY <1>6, <1>7, <1>8

-----------------------------------------------------------------------------
(* Reachability.                                                            *)

(* One round of the iteration.                                              *)
Grow(S, edges, b) == b \cup {z \in S : \E y \in b : <<y, z>> \in edges}

AreStages(S, edges, x, f) ==
    f[0] = {x} /\ \A n \in Nat : f[n + 1] = Grow(S, edges, f[n])

(* The recursive function inside Closure is defined by its equation.        *)
LEMMA ClosureSteps ==
    ASSUME NEW S, NEW edges, NEW x
    PROVE  \E f : AreStages(S, edges, x, f) /\ Closure(S, edges, x) = f[Cardinality(S)]
<1> DEFINE step[n \in Nat] ==
            IF n = 0 THEN {x}
            ELSE LET before == step[n - 1]
                 IN  before \cup {z \in S : \E y \in before : <<y, z>> \in edges}
<1>1. Closure(S, edges, x) = step[Cardinality(S)]
  BY DEF Closure
<1>2. \E g : g = [n \in Nat |-> IF n = 0 THEN {x}
                   ELSE LET before == g[n - 1]
                        IN  before \cup {z \in S : \E y \in before : <<y, z>> \in edges}]
  <2> DEFINE D == SUBSET (S \cup {x})
             G == [b \in D |-> b \cup {z \in S : \E y \in b : <<y, z>> \in edges}]
  <2>1. {x} \in D /\ G \in [D -> D]
    OBVIOUS
  <2>2. PICK f \in [Nat -> D] : f[0] = {x} /\ \A n \in Nat : f[n + 1] = G[f[n]]
    <3> HIDE DEF D, G
    <3> QED
      BY <2>1, IterationExists
  <2>3. \A n \in Nat : n # 0 => f[n] = f[n - 1] \cup {z \in S : \E y \in f[n - 1] : <<y, z>> \in edges}
    <3> TAKE n \in Nat
    <3> HAVE n # 0
    <3>1. n - 1 \in Nat /\ (n - 1) + 1 = n
      OBVIOUS
    <3>2. f[n] = G[f[n - 1]] /\ f[n - 1] \in D
      <4> HIDE DEF G, D
      <4> QED
        BY <2>2, <3>1
    <3> QED
      BY <3>2
  <2>4. f = [n \in Nat |-> IF n = 0 THEN {x}
                   ELSE LET before == f[n - 1]
                        IN  before \cup {z \in S : \E y \in before : <<y, z>> \in edges}]
    <3> HIDE DEF G, D
    <3> QED
      BY <2>2, <2>3
  <2> QED
    BY <2>4
<1>3. step = [n \in Nat |-> IF n = 0 THEN {x}
                   ELSE LET before == step[n - 1]
                        IN  before \cup {z \in S : \E y \in before : <<y, z>> \in edges}]
  BY <1>2
<1> HIDE DEF step
<1>4. step[0] = {x}
  BY <1>3
<1>5. ASSUME NEW n \in Nat
      PROVE  step[n + 1] = Grow(S, edges, step[n])
  <2>1. n + 1 \in Nat /\ n + 1 # 0 /\ (n + 1) - 1 = n
    OBVIOUS
  <2> QED
    BY <1>3, <2>1 DEF Grow
<1>6. AreStages(S, edges, x, step)
  BY <1>4, <1>5 DEF AreStages
<1> QED
  BY <1>1, <1>6

(* The closure holds x, is closed under the edges into S, and is the least  *)
(* such set: the iteration stops growing before it runs out of elements.    *)
LEMMA ClosureProperties ==
    ASSUME NEW S, IsFiniteSet(S), NEW edges, NEW x
    PROVE  /\ x \in Closure(S, edges, x)
           /\ Closure(S, edges, x) \subseteq S \cup {x}
           /\ \A y \in Closure(S, edges, x), z \in S :
                 <<y, z>> \in edges => z \in Closure(S, edges, x)
           /\ \A T : x \in T /\ (\A y \in T, z \in S : <<y, z>> \in edges => z \in T)
                 => Closure(S, edges, x) \subseteq T
<1>0. PICK f : AreStages(S, edges, x, f) /\ Closure(S, edges, x) = f[Cardinality(S)]
  BY ClosureSteps
<1> DEFINE Next1(b) == Grow(S, edges, b)
           C == Closure(S, edges, x)
<1>1. C = f[Cardinality(S)] /\ f[0] = {x} /\ \A n \in Nat : f[n + 1] = Next1(f[n])
  BY <1>0 DEF AreStages
<1>2. Cardinality(S) \in Nat
  BY FS_CardinalityType
<1> USE DEF Grow
<1> HIDE DEF C
(* Whatever the start and the step preserve holds of every stage.           *)
<1>3. ASSUME NEW T, x \in T, \A b \in SUBSET T : Next1(b) \subseteq T
      PROVE  \A n \in Nat : f[n] \subseteq T
  <2> DEFINE Bad == {n \in Nat : ~(f[n] \subseteq T)}
  <2> SUFFICES ASSUME Bad # {} PROVE FALSE
    OBVIOUS
  <2>1. PICK n \in Bad : \A m \in Bad : n <= m
    <3>1. Bad \in SUBSET Nat
      OBVIOUS
    <3> HIDE DEF Bad
    <3> QED
      BY <3>1, SmallestNat
  <2>2. n # 0
    BY <1>1, <1>3, <2>1
  <2>3. n - 1 \in Nat /\ n - 1 \notin Bad /\ (n - 1) + 1 = n
    BY <2>1, <2>2
  <2>4. f[n - 1] \in SUBSET T
    BY <2>3
  <2>5. f[n] = Next1(f[n - 1])
    <3> HIDE DEF Next1
    <3> QED
      BY <1>1, <2>3
  <2> HIDE DEF Next1
  <2>6. f[n] \subseteq T
    BY <1>3, <2>4, <2>5
  <2> QED
    BY <2>1, <2>6
<1>4. \A n \in Nat : x \in f[n]
  <2> DEFINE Bad == {n \in Nat : x \notin f[n]}
  <2> SUFFICES ASSUME Bad # {} PROVE FALSE
    OBVIOUS
  <2>1. PICK n \in Bad : \A m \in Bad : n <= m
    <3>1. Bad \in SUBSET Nat
      OBVIOUS
    <3> HIDE DEF Bad
    <3> QED
      BY <3>1, SmallestNat
  <2>2. n # 0
    BY <1>1, <2>1
  <2>3. n - 1 \in Nat /\ n - 1 \notin Bad /\ (n - 1) + 1 = n
    BY <2>1, <2>2
  <2>4. x \in f[n - 1] /\ f[n] = Next1(f[n - 1])
    BY <1>1, <2>3
  <2> QED
    BY <2>1, <2>4
<1>5. \A n \in Nat : f[n] \subseteq S \cup {x}
  BY <1>3
(* While the stages grow, each adds an element of S.                        *)
<1>6. ASSUME NEW k \in Nat, \A n \in 0..k : Next1(f[n]) # f[n]
      PROVE  \A n \in 0..k : Cardinality(f[n] \cap S) >= n
  <2> DEFINE Bad == {n \in 0..k : ~(Cardinality(f[n] \cap S) >= n)}
  <2> SUFFICES ASSUME Bad # {} PROVE FALSE
    OBVIOUS
  <2>1. \A n \in Nat : IsFiniteSet(f[n] \cap S) /\ Cardinality(f[n] \cap S) \in Nat
    BY FS_Intersection, FS_CardinalityType
  <2>2. PICK n \in Bad : \A m \in Bad : n <= m
    <3>1. Bad \in SUBSET Nat
      OBVIOUS
    <3> HIDE DEF Bad
    <3> QED
      BY <3>1, SmallestNat
  <2>3. n # 0
    BY <2>1, <2>2
  <2>4. n - 1 \in 0..k /\ n - 1 \in Nat /\ n - 1 \notin Bad /\ (n - 1) + 1 = n /\ n \in Nat
    BY <2>2, <2>3
  <2>5. Cardinality(f[n - 1] \cap S) >= n - 1
    BY <2>4
  <2>6. f[n] = Next1(f[n - 1])
    <3> HIDE DEF Next1
    <3> QED
      BY <1>1, <2>4
  <2>7. Next1(f[n - 1]) # f[n - 1]
    BY <1>6, <2>4
  <2>8. f[n - 1] \cap S \subseteq f[n] \cap S /\ f[n - 1] \cap S # f[n] \cap S
    BY <2>6, <2>7
  <2>9. Cardinality(f[n - 1] \cap S) <= Cardinality(f[n] \cap S)
        /\ Cardinality(f[n - 1] \cap S) # Cardinality(f[n] \cap S)
    <3>1. PICK A, B : A = f[n - 1] \cap S /\ B = f[n] \cap S
      OBVIOUS
    <3>2. IsFiniteSet(B) /\ A \subseteq B /\ A # B
      BY <2>1, <2>4, <2>8, <3>1
    <3>3. Cardinality(A) <= Cardinality(B) /\ Cardinality(A) # Cardinality(B)
      BY <3>2, FS_Subset
    <3> QED
      BY <3>1, <3>3
  <2>10. Cardinality(f[n] \cap S) >= n
    <3>1. PICK a \in Nat, b \in Nat : /\ a = Cardinality(f[n - 1] \cap S)
                                      /\ b = Cardinality(f[n] \cap S)
      BY <2>1, <2>4
    <3>2. a >= n - 1 /\ a <= b /\ a # b
      BY <2>5, <2>9, <3>1
    <3>3. b >= n
      BY <2>4, <3>2
    <3> QED
      BY <3>1, <3>3
  <2> QED
    BY <2>2, <2>10
(* So the last stage has stopped growing, or holds all of S.                *)
<1>7. ASSUME NEW y \in C, NEW z \in S, <<y, z>> \in edges
      PROVE  z \in C
  <2> DEFINE N == Cardinality(S)
  <2>1. CASE \A n \in 0..N : Next1(f[n]) # f[n]
    <3>1. Cardinality(f[N] \cap S) >= N
      <4> HIDE DEF Next1
      <4> QED
        BY <1>2, <1>6, <2>1
    <3>2. f[N] \cap S \in SUBSET S
      OBVIOUS
    <3>3. Cardinality(f[N] \cap S) <= N /\ (N = Cardinality(f[N] \cap S) => S = f[N] \cap S)
      BY <3>2, FS_Subset
    <3>4. Cardinality(f[N] \cap S) \in Nat
      BY <3>2, FS_Subset, FS_CardinalityType
    <3>5. S = f[N] \cap S
      BY <1>2, <3>1, <3>3, <3>4
    <3> QED
      BY <1>1, <1>7, <3>5
  <2>2. CASE \E n \in 0..N : Next1(f[n]) = f[n]
    <3>1. PICK n \in 0..N : Next1(f[n]) = f[n]
      BY <2>2
    <3> DEFINE Bad == {m \in Nat : m >= n /\ f[m] # f[n]}
    <3>2. Bad = {}
      <4> SUFFICES ASSUME Bad # {} PROVE FALSE
        OBVIOUS
      <4>1. PICK m \in Bad : \A i \in Bad : m <= i
        <5>1. Bad \in SUBSET Nat
          OBVIOUS
        <5> HIDE DEF Bad
        <5> QED
          BY <5>1, SmallestNat
      <4>2. n \in Nat /\ m # n
        BY <1>2, <4>1
      <4>3. m - 1 \in Nat /\ m - 1 \notin Bad /\ (m - 1) + 1 = m /\ m - 1 >= n
        BY <4>1, <4>2
      <4>4. f[m - 1] = f[n]
        BY <4>3
      <4>5. f[m] = Next1(f[m - 1])
        <5> HIDE DEF Next1
        <5> QED
          BY <1>1, <4>3
      <4> HIDE DEF Next1
      <4> QED
        BY <3>1, <4>1, <4>4, <4>5
    <3>3. f[N] = f[n]
      BY <1>2, <3>2
    <3> QED
      BY <1>1, <1>7, <3>1, <3>3
  <2> QED
    BY <2>1, <2>2
<1>8. ASSUME NEW T, x \in T, \A a \in T, b \in S : <<a, b>> \in edges => b \in T
      PROVE  C \subseteq T
  <2>1. \A b \in SUBSET T : Next1(b) \subseteq T
    BY <1>8
  <2> HIDE DEF Next1
  <2> QED
    BY <1>1, <1>2, <1>3, <1>8, <2>1
<1>9. x \in C /\ C \subseteq S \cup {x}
  BY <1>1, <1>2, <1>4, <1>5
<1> QED
  BY <1>7, <1>8, <1>9 DEF C

(* What is reached from something reached is reached.                       *)
LEMMA ClosureTransitive ==
    ASSUME NEW S, IsFiniteSet(S), NEW edges, NEW x, NEW y \in Closure(S, edges, x)
    PROVE  Closure(S, edges, y) \subseteq Closure(S, edges, x)
<1> DEFINE C == Closure(S, edges, x)
<1>1. \A a \in C, b \in S : <<a, b>> \in edges => b \in C
  BY ClosureProperties
<1>2. \A T : y \in T /\ (\A a \in T, b \in S : <<a, b>> \in edges => b \in T)
                => Closure(S, edges, y) \subseteq T
  BY ClosureProperties
<1> HIDE DEF C
<1>3. y \in C => Closure(S, edges, y) \subseteq C
  BY <1>1, <1>2
<1> QED
  BY <1>3 DEF C

(* Whatever is reached and is not the start is reached by a last edge.      *)
LEMMA ClosureLastEdge ==
    ASSUME NEW S, IsFiniteSet(S), NEW edges, NEW x, NEW z \in Closure(S, edges, x), z # x
    PROVE  z \in S /\ \E y \in Closure(S, edges, x) : <<y, z>> \in edges
<1> DEFINE C == Closure(S, edges, x)
           T == {x} \cup {b \in S : \E a \in C : <<a, b>> \in edges}
<1>1. x \in C /\ \A a \in C, b \in S : <<a, b>> \in edges => b \in C
  BY ClosureProperties
<1>2. \A U : x \in U /\ (\A a \in U, b \in S : <<a, b>> \in edges => b \in U) => C \subseteq U
  BY ClosureProperties
<1> HIDE DEF C
<1>3. x \in T /\ \A a \in T, b \in S : <<a, b>> \in edges => b \in T
  BY <1>1
<1>4. C \subseteq T
  <2> HIDE DEF T
  <2> QED
    BY <1>2, <1>3
<1> QED
  BY <1>4 DEF C

(* In a graph without a cycle every non-empty set has an element that no    *)
(* other of the set leads to: one that reaches the most.                    *)
LEMMA AcyclicSource ==
    ASSUME NEW S, IsFiniteSet(S), NEW edges \in SUBSET (S \X S), Acyclic(S, edges),
           NEW X \in SUBSET S, X # {}
    PROVE  \E x \in X : \A y \in X : <<y, x>> \notin edges
<1> DEFINE F == {S \ Closure(S, edges, x) : x \in X}
<1>1. \A T \in F : IsFiniteSet(T)
  BY FS_Difference
<1>2. PICK T \in F : \A U \in F : U \subseteq T => U = T
  <2>1. F # {}
    OBVIOUS
  <2> HIDE DEF F
  <2> QED
    BY <1>1, <2>1, MinimalSet
<1>3. PICK x \in X : T = S \ Closure(S, edges, x)
  BY <1>2
<1>4. ASSUME NEW y \in X, <<y, x>> \in edges PROVE FALSE
  <2>1. x \in Closure(S, edges, y)
    <3>1. y \in Closure(S, edges, y)
      BY ClosureProperties
    <3> QED
      BY <1>4, <3>1, ClosureProperties
  <2>2. Closure(S, edges, x) \subseteq Closure(S, edges, y)
    BY <2>1, ClosureTransitive
  <2>3. y \notin Closure(S, edges, x)
    BY <1>4 DEF Acyclic
  <2>4. y \in Closure(S, edges, y)
    BY ClosureProperties
  <2>5. S \ Closure(S, edges, y) \in F
    OBVIOUS
  <2>6. S \ Closure(S, edges, y) = S \ Closure(S, edges, x)
    <3> HIDE DEF F
    <3> QED
      BY <1>2, <1>3, <2>2, <2>5
  <2> QED
    BY <2>3, <2>4, <2>6
<1> QED
  BY <1>4

(* f joins to each node's own value what f gives for its predecessors.      *)
JoinsUp(R, edges, own, join, f) ==
    \A g \in R : f[g] = join[{own[g]} \cup {f[h] : h \in {k \in R : <<k, g>> \in edges}}]

(* A definition that computes a node's value from those of its predecessors *)
(* defines a value for every node, when every non-empty set of nodes has    *)
(* one without predecessors in it.                                          *)
LEMMA RecursionOnGraph ==
    ASSUME NEW R, IsFiniteSet(R), NEW edges,
           NEW V, NEW own \in [R -> V], NEW join \in [SUBSET V -> V],
           \A X \in SUBSET R : X # {} => \E x \in X : \A y \in X : <<y, x>> \notin edges
    PROVE  \E f \in [R -> V] : JoinsUp(R, edges, own, join, f)
<1> DEFINE Up(g) == {k \in R : <<k, g>> \in edges}
           Partial(D, f) == /\ D \subseteq R /\ f \in [D -> V]
                            /\ \A g \in D : /\ Up(g) \subseteq D
                                            /\ f[g] = join[{own[g]} \cup {f[h] : h \in Up(g)}]
           F == {T \in SUBSET R : \E f : Partial(R \ T, f)}
<1>1. R \in F
  <2>1. Partial({}, [g \in {} |-> g])
    OBVIOUS
  <2>2. R \ R = {}
    OBVIOUS
  <2> HIDE DEF Partial
  <2> QED
    BY <2>1, <2>2
<1>2. PICK T \in F : \A U \in F : U \subseteq T => U = T
  <2>1. F # {} /\ \A U \in F : IsFiniteSet(U)
    BY <1>1, FS_Subset
  <2> HIDE DEF F
  <2> QED
    BY <2>1, MinimalSet
<1>3. T \subseteq R
  BY <1>2
<1>4. PICK f : Partial(R \ T, f)
  <2> HIDE DEF Partial
  <2> QED
    BY <1>2
<1>5. ASSUME T # {} PROVE FALSE
  <2>1. PICK g \in T : \A y \in T : <<y, g>> \notin edges
    BY <1>3, <1>5
  <2>2. Up(g) \subseteq R \ T /\ g \notin R \ T /\ g \in R
    BY <1>3, <2>1
  <2> DEFINE D == R \ T
             E == R \ (T \ {g})
             v == join[{own[g]} \cup {f[h] : h \in Up(g)}]
             e == [h \in E |-> IF h = g THEN v ELSE f[h]]
  <2>3. E = D \cup {g} /\ D \subseteq R
    BY <1>3, <2>2
  <2>4. {own[g]} \cup {f[h] : h \in Up(g)} \in SUBSET V
    <3>1. f \in [R \ T -> V]
      BY <1>4
    <3> HIDE DEF Up
    <3> QED
      BY <2>2, <3>1
  <2>5. v \in V
    BY <2>4
  <2>6. f \in [D -> V] /\ \A k \in D : Up(k) \subseteq D
    BY <1>4
  <2>7. \A k \in D : f[k] = join[{own[k]} \cup {f[h] : h \in Up(k)}]
    BY <1>4
  <2> HIDE DEF v
  <2>8. e \in [E -> V] /\ \A k \in D : e[k] = f[k]
    <3> HIDE DEF D, E
    <3> QED
      BY <2>2, <2>3, <2>5, <2>6 DEF D
  <2>9. e[g] = v
    BY <2>3
  <2> HIDE DEF e, E
  <2>10. ASSUME NEW k \in E
         PROVE  Up(k) \subseteq E /\ e[k] = join[{own[k]} \cup {e[h] : h \in Up(k)}]
    <3>1. Up(k) \subseteq D
      BY <2>2, <2>3, <2>6, <2>10
    <3> HIDE DEF D, Up
    <3>2. {e[h] : h \in Up(k)} = {f[h] : h \in Up(k)}
      BY <2>8, <3>1
    <3>3. e[k] = join[{own[k]} \cup {f[h] : h \in Up(k)}]
      <4>1. CASE k = g
        BY <2>9, <4>1 DEF v
      <4>2. CASE k # g
        BY <2>3, <2>7, <2>8, <2>10, <4>2
      <4> QED
        BY <4>1, <4>2
    <3> QED
      BY <2>3, <3>1, <3>2, <3>3
  <2>11. Partial(E, e)
    <3>1. E \subseteq R
      BY DEF E
    <3> HIDE DEF Up
    <3> QED
      BY <2>8, <2>10, <3>1
  <2>12. T \ {g} \in F
    <3> HIDE DEF Partial
    <3> QED
      BY <1>3, <2>11 DEF E
  <2> HIDE DEF F
  <2> QED
    BY <1>2, <2>1, <2>12
<1>6. Partial(R, f)
  <2>1. R \ T = R
    BY <1>5
  <2> HIDE DEF Partial
  <2> QED
    BY <1>4, <2>1
<1>7. f \in [R -> V] /\ \A g \in R : f[g] = join[{own[g]} \cup {f[h] : h \in Up(g)}]
  BY <1>6
<1>8. JoinsUp(R, edges, own, join, f)
  BY <1>7 DEF JoinsUp
<1> QED
  BY <1>7, <1>8
-----------------------------------------------------------------------------
(* What the norms of an act come to: an order with ties, and an attack      *)
(* relation between two sides.                                              *)

(* An order with ties, and what comes first in it.                          *)
OrdersWithTies(N, P) ==
    /\ \A i \in N : <<i, i>> \notin P
    /\ \A i, j, k \in N : <<i, j>> \in P /\ <<j, k>> \in P => <<i, k>> \in P
    /\ \A i, j, k \in N : <<i, k>> \in P => <<i, j>> \in P \/ <<j, k>> \in P

Firsts(N, P) == {i \in N : \A j \in N : <<j, i>> \notin P}

(* In a finite set ordered up to ties, what nothing precedes precedes       *)
(* everything else.                                                         *)
LEMMA TopOfOrder ==
    ASSUME NEW N, IsFiniteSet(N), N # {}, NEW P \in SUBSET (N \X N),
           OrdersWithTies(N, P), NEW H, H = Firsts(N, P)
    PROVE  H # {} /\ \A h \in H : \A i \in N \ H : <<h, i>> \in P
<1> USE DEF OrdersWithTies, Firsts
<1> DEFINE U(i) == {j \in N : <<j, i>> \in P}
<1>1. \A i \in N : IsFiniteSet(U(i))
  <2>1. \A i \in N : U(i) \subseteq N
    OBVIOUS
  <2> HIDE DEF U
  <2> QED
    BY <2>1, FS_Subset
<1>2. ASSUME NEW X \in SUBSET N, X # {}, \A x \in X : U(x) \subseteq X
      PROVE  \E h \in X : h \in H
  <2> DEFINE F == {U(x) : x \in X}
  <2>1. F # {} /\ \A T \in F : IsFiniteSet(T)
    <3> HIDE DEF U
    <3> QED
      BY <1>1, <1>2
  <2>2. PICK T \in F : \A V \in F : V \subseteq T => V = T
    <3> HIDE DEF F
    <3> QED
      BY <2>1, MinimalSet
  <2>3. PICK h \in X : T = U(h)
    OBVIOUS
  <2>4. ASSUME NEW k \in U(h) PROVE FALSE
    <3>1. k \in X /\ k \in N /\ h \in N
      BY <1>2
    <3>2. U(k) \in F /\ U(k) \subseteq U(h)
      BY <3>1
    <3>3. k \in U(k)
      BY <2>2, <2>3, <3>2
    <3> QED
      BY <3>1, <3>3
  <2> QED
    BY <2>4
<1>3. ASSUME NEW h \in H, NEW i \in N \ H PROVE <<h, i>> \in P
  <2>1. U(i) # {} /\ U(i) \in SUBSET N /\ \A x \in U(i) : U(x) \subseteq U(i)
    OBVIOUS
  <2>2. PICK g \in U(i) : g \in H
    <3> HIDE DEF U
    <3> QED
      BY <1>2, <2>1
  <2>3. <<g, i>> \in P /\ <<g, h>> \notin P /\ g \in N /\ h \in N /\ i \in N
    OBVIOUS
  <2> QED
    BY <2>3
<1>4. \E h \in N : h \in H
  <2>1. \A x \in N : U(x) \subseteq N
    OBVIOUS
  <2> HIDE DEF U
  <2> QED
    BY <1>2, <2>1
<1> QED
  BY <1>3, <1>4

(* When every node is attacked, nothing is decided.                         *)
LEMMA NobodyWins ==
    ASSUME NEW N, NEW A, \A i \in N : \E j \in N : <<j, i>> \in A
    PROVE  IsGrounded(N, A, [i \in N |-> "undec"])
<1> DEFINE L == [i \in N |-> "undec"]
<1>1. L \in Labellings(N) /\ DOMAIN L = N /\ \A i \in N : L[i] = "undec"
  BY DEF Labellings, Label
<1> HIDE DEF L
<1>2. Complete(A, L)
  BY <1>1 DEF Complete, CompleteAt, AllOut, SomeIn
<1>3. \A M : Below(L, M)
  BY <1>1 DEF Below
<1> QED
  BY <1>1, <1>2, <1>3 DEF IsGrounded, L

(* When two sides attack each other, none of the heads of one is attacked,  *)
(* and all of the other side is attacked by a head, that side wins.         *)
LEMMA OneSideWins ==
    ASSUME NEW N, NEW S \in SUBSET N, NEW H \in SUBSET S, NEW A,
           \A i, j \in N : <<i, j>> \in A => (i \in S <=> j \notin S),
           \A i \in N, h \in H : <<i, h>> \notin A,
           \A j \in N \ S : \E h \in H : <<h, j>> \in A,
           NEW L \in Labellings(N), \A i \in N : L[i] = IF i \in S THEN "in" ELSE "out"
    PROVE  IsGrounded(N, A, L)
<1>1. DOMAIN L = N
  BY DEF Labellings
<1>2. ASSUME NEW i \in N PROVE CompleteAt(A, L, i)
  <2>1. CASE i \in S
    <3>1. AllOut(A, L, i) /\ ~SomeIn(A, L, i)
      BY <1>1, <2>1 DEF AllOut, SomeIn
    <3> QED
      BY <1>1, <2>1, <3>1 DEF CompleteAt
  <2>2. CASE i \notin S
    <3>1. PICK h \in H : <<h, i>> \in A
      BY <2>2
    <3>2. ~AllOut(A, L, i) /\ SomeIn(A, L, i)
      BY <1>1, <3>1 DEF AllOut, SomeIn
    <3> QED
      BY <1>1, <2>2, <3>2 DEF CompleteAt
  <2> QED
    BY <2>1, <2>2
<1>3. ASSUME NEW M \in Labellings(N), Complete(A, M) PROVE Below(L, M)
  <2>1. DOMAIN M = N /\ \A i \in N : CompleteAt(A, M, i)
    BY <1>3 DEF Labellings, Complete
  <2>2. \A h \in H : M[h] = "in"
    BY <2>1 DEF CompleteAt, AllOut
  <2>3. \A j \in N \ S : M[j] = "out"
    <3> TAKE j \in N \ S
    <3>1. PICK h \in H : <<h, j>> \in A
      OBVIOUS
    <3>2. SomeIn(A, M, j)
      BY <2>1, <2>2, <3>1 DEF SomeIn
    <3> QED
      BY <2>1, <3>2 DEF CompleteAt
  <2>4. \A i \in S : M[i] = "in"
    <3> TAKE i \in S
    <3>1. AllOut(A, M, i)
      BY <2>1, <2>3 DEF AllOut
    <3> QED
      BY <2>1, <3>1 DEF CompleteAt
  <2> QED
    BY <1>1, <2>3, <2>4 DEF Below
<1> QED
  BY <1>1, <1>2, <1>3 DEF IsGrounded, Complete
=============================================================================
