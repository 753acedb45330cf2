---------------------------- MODULE RootCausesProofs ----------------------------
(***************************************************************************)
(* Proofs about root_causes (RootCauses), for every list of premises: the   *)
(* depth-first search leaves no cycle among what it does not report as      *)
(* cyclic, a premise is derived exactly if it rests on an unsettled one,    *)
(* and the parts agree with the fold.  The search is followed with an       *)
(* invariant on its stack, and a cycle it could have missed is refuted by a *)
(* set of finished premises without a source (Unlooped).                    *)
(***************************************************************************)
EXTENDS RootCauses, OperatorProofs, SequenceTheorems

-----------------------------------------------------------------------------
(* The inductive invariant.                                                 *)

Frames == [node : Names, deps : Seq(Name)]
Parts  == {"cyclic", "root", "derived", "settled"}

Typed ==
    /\ IsList(items)
    /\ pc \in {"search", "classify", "rest", "returned"}
    /\ at \in 1..(Len(items) + 1)
    /\ colour \in [Names -> {"white", "grey", "black"}]
    /\ stack \in Seq(Frames) /\ path \in Seq(Names) /\ onCycle \subseteq Names
    /\ frontier \in Seq(Name) /\ seen \subseteq Names
    /\ part \in Seq(Parts)

(* What a frame has still to try.                                           *)
Untried(st, i) == {st[i].deps[j] : j \in 1..Len(st[i].deps)}

Left(i) == Untried(stack, i)

(* The path is the stack: it holds the grey premises, each once, and each   *)
(* rests on the next.                                                       *)
Stacked ==
    /\ Len(path) = Len(stack)
    /\ \A i \in 1..Len(stack) : path[i] = stack[i].node
    /\ \A i, j \in 1..Len(path) : path[i] = path[j] => i = j
    /\ \A n \in Names : colour[n] = "grey" <=> \E i \in 1..Len(path) : path[i] = n
    /\ \A i \in 1..(Len(path) - 1) : RestsOn(path[i], path[i + 1])
    /\ \A i \in 1..Len(path) : \A n \in Left(i) \cap Names : RestsOn(path[i], n)

(* What a premise rests on has been finished, is still to be tried, or is   *)
(* the next on the path, unless the premise itself is known to be cyclic.   *)
Followed ==
    /\ \A i \in 1..Len(path) : \A n \in Names : RestsOn(path[i], n) =>
          \/ n \in Left(i) \/ colour[n] = "black" \/ path[i] \in onCycle
          \/ i < Len(path) /\ n = path[i + 1]
    /\ \A m, n \in Names : colour[m] = "black" /\ m \notin onCycle /\ RestsOn(m, n) =>
          colour[n] = "black"

(* Every premise that the outer loop has passed was searched.               *)
Searching ==
    /\ pc = "search" => \A i \in 1..(at - 1) : colour[items[i].name] # "white"
    /\ pc # "search" => stack = <<>> /\ \A n \in Names : colour[n] = "black"

(* What is reported lies on a cycle, and what is finished and not reported  *)
(* holds none: each set of it has a premise that no other of the set, nor   *)
(* itself, rests on.                                                        *)
Finished == {n \in Names : colour[n] = "black" /\ n \notin onCycle}

Unlooped ==
    /\ \A n \in onCycle : n \in Basis(n, Names)
    /\ \A X \in SUBSET Finished : X # {} => \E x \in X : \A y \in X : ~RestsOn(y, x)

(* The parts so far.                                                        *)
Sorted ==
    /\ Len(part) = IF pc = "search" THEN 0 ELSE IF pc = "returned" THEN Len(items) ELSE at - 1
    /\ pc = "rest" => /\ at <= Len(items)
                      /\ items[at].name \notin onCycle /\ items[at].status \in Settled
    /\ \A i \in 1..Len(part) :
          /\ part[i] = "cyclic" <=> items[i].name \in onCycle
          /\ part[i] = "root" <=> items[i].name \notin onCycle /\ items[i].status \notin Settled
    /\ DerivedRestsOnOpen
    /\ pc = "returned" => overall = Fold

(* What the premise at hand rests on: seen is settled, and whatever seen    *)
(* rests on is seen or still in the frontier.                               *)
Waiting == {frontier[j] : j \in 1..Len(frontier)}

Rested ==
    pc = "rest" =>
        /\ (Waiting \cap Names) \cup seen \subseteq Basis(items[at].name, Names)
        /\ \A n \in seen : ~Unsettled(n)
        /\ \A n \in Names : RestsOn(items[at].name, n) \/ (\E b \in seen : RestsOn(b, n)) =>
              n \in seen \cup Waiting

IInv == Typed /\ Stacked /\ Followed /\ Searching /\ Unlooped /\ Sorted /\ Rested

-----------------------------------------------------------------------------
(* Premises and what they rest on.                                          *)

Item == [name : Name, status : Status, deps : Seq(Name)]

(* A premise's name is looked up among the premises.                        *)
LEMMA Looked ==
    ASSUME IsList(items)
    PROVE  /\ Len(items) \in Nat /\ IsFiniteSet(Names) /\ Names \subseteq Name
           /\ \A i \in 1..Len(items) : items[i] \in Item /\ items[i].name \in Names
           /\ \A n \in Names : ByName(n).deps \in Seq(Name)
<1>1. items \in Seq(Item)
  BY DEF IsList, Item
<1>2. Len(items) \in Nat /\ \A i \in 1..Len(items) : items[i] \in Item
  BY <1>1, LenProperties
<1>3. IsFiniteSet(Names)
  <2> DEFINE D == 1..Len(items)
             f == [i \in D |-> items[i].name]
  <2>1. IsFiniteSet(D)
    BY <1>2, FS_Interval
  <2>2. f \in Surjection(D, Names)
    BY DEF Names, Surjection
  <2> HIDE DEF D, f
  <2> QED
    BY <2>1, <2>2, FS_Surjection
<1>4. Names \subseteq Name /\ \A i \in 1..Len(items) : items[i].name \in Names
  BY <1>2 DEF Names, Item
<1>5. ASSUME NEW n \in Names PROVE ByName(n).deps \in Seq(Name)
  <2> DEFINE Named == {i \in 1..Len(items) : items[i].name = n}
             Behind == {Len(items) - i : i \in Named}
             IsLast(i) == items[i].name = n /\ \A j \in (i + 1)..Len(items) : items[j].name # n
  <2>1. PICK k \in Behind : \A l \in Behind : k <= l
    <3>1. Behind \in SUBSET Nat /\ Behind # {}
      BY <1>2 DEF Names
    <3> HIDE DEF Behind
    <3> QED
      BY <3>1, SmallestNat
  <2>2. PICK i \in Named : k = Len(items) - i
    BY <2>1
  <2>3. IsLast(i)
    <3> SUFFICES ASSUME NEW j \in (i + 1)..Len(items), items[j].name = n PROVE FALSE
      BY <2>2
    <3>1. j \in Named /\ j > i /\ i \in Nat /\ j \in Nat
      BY <1>2, <2>2
    <3>2. k <= Len(items) - j
      BY <2>1, <3>1
    <3> QED
      BY <1>2, <2>2, <3>1, <3>2
  <2>4. \E c \in 1..Len(items) : IsLast(c)
    BY <2>2, <2>3
  <2>5. PICK c \in 1..Len(items) : ByName(n) = items[c]
    BY <2>4 DEF ByName
  <2> QED
    BY <1>2, <2>5 DEF Item
<1> QED
  BY <1>2, <1>3, <1>4, <1>5

(* Basis is what is reached by resting once or more.                        *)
LEMMA BasisProperties ==
    ASSUME IsList(items), NEW m
    PROVE  /\ Basis(m, Names) \subseteq Names
           /\ \A n \in Names : RestsOn(m, n) => n \in Basis(m, Names)
           /\ \A b \in Basis(m, Names), n \in Names : RestsOn(b, n) => n \in Basis(m, Names)
           /\ \A T : /\ \A n \in Names : RestsOn(m, n) => n \in T
                    /\ (\A b \in T \cap Names, n \in Names : RestsOn(b, n) => n \in T)
                 => Basis(m, Names) \subseteq T
<1> DEFINE C(k) == Closure(Names, Dependence, k)
<1>1. \A n : n \in Basis(m, Names) <=> \E k \in Names : RestsOn(m, k) /\ n \in C(k)
  BY DEF Basis
<1>2. \A a, b : <<a, b>> \in Dependence <=> a \in Names /\ b \in Names /\ RestsOn(a, b)
  BY DEF Dependence
<1>3. \A k \in Names : /\ k \in C(k) /\ C(k) \subseteq Names
                       /\ \A y \in C(k), z \in Names : <<y, z>> \in Dependence => z \in C(k)
                       /\ \A T : k \in T /\ (\A y \in T, z \in Names : <<y, z>> \in Dependence => z \in T)
                             => C(k) \subseteq T
  BY Looked, ClosureProperties
<1> HIDE DEF C
<1>4. Basis(m, Names) \subseteq Names
  BY <1>1, <1>3
<1>5. \A n \in Names : RestsOn(m, n) => n \in Basis(m, Names)
  BY <1>1, <1>3
<1>6. ASSUME NEW b \in Basis(m, Names), NEW n \in Names, RestsOn(b, n)
      PROVE  n \in Basis(m, Names)
  <2>1. PICK k \in Names : RestsOn(m, k) /\ b \in C(k)
    BY <1>1
  <2>2. <<b, n>> \in Dependence
    BY <1>2, <1>3, <1>6, <2>1
  <2> QED
    BY <1>1, <1>3, <2>1, <2>2
<1>7. ASSUME NEW T, \A n \in Names : RestsOn(m, n) => n \in T,
             \A b \in T \cap Names, n \in Names : RestsOn(b, n) => n \in T
      PROVE  Basis(m, Names) \subseteq T
  <2>1. \A k \in Names : RestsOn(m, k) => C(k) \subseteq T
    <3> TAKE k \in Names
    <3>1. \A y \in T, z \in Names : <<y, z>> \in Dependence => z \in T
      BY <1>2, <1>7
    <3> QED
      BY <1>3, <1>7, <3>1
  <2> QED
    BY <1>1, <2>1
<1> QED
  BY <1>4, <1>5, <1>6, <1>7

(* The list is never written, and what is read off it stays.                *)
LEMMA ListStays ==
    ASSUME UNCHANGED items
    PROVE  /\ Names' = Names /\ Frames' = Frames /\ Fold' = Fold
           /\ (IsList(items) => IsList(items)')
           /\ \A n : ByName(n)' = ByName(n) /\ (Unsettled(n) <=> Unsettled(n)')
           /\ \A m, n : RestsOn(m, n)' <=> RestsOn(m, n)
           /\ \A m : Basis(m, Names)' = Basis(m, Names)
<1>1. Names' = Names /\ \A n : ByName(n)' = ByName(n)
  BY DEF Names, ByName
<1>2. \A m, n : RestsOn(m, n)' <=> RestsOn(m, n)
  BY <1>1 DEF RestsOn
<1>3. Dependence' = Dependence
  BY <1>1, <1>2 DEF Dependence
<1>4. \A m : Basis(m, Names)' = Basis(m, Names)
  BY <1>1, <1>2, <1>3 DEF Basis
<1>5. \A n : Unsettled(n) <=> Unsettled(n)'
  BY <1>1 DEF Unsettled
<1> QED
  BY <1>1, <1>2, <1>4, <1>5 DEF Frames, Fold, IsList

(* A sequence without its last element.                                     *)
LEMMA FrontProperties ==
    ASSUME NEW S, NEW s \in Seq(S), s # <<>>
    PROVE  /\ Front(s) \in Seq(S) /\ Len(Front(s)) = Len(s) - 1 /\ Len(s) \in Nat \ {0}
           /\ \A i \in 1..(Len(s) - 1) : Front(s)[i] = s[i]
           /\ s[Len(s)] \in S
<1>1. Len(s) \in Nat \ {0} /\ \A i \in 1..Len(s) : s[i] \in S
  BY EmptySeq, LenProperties
<1>2. \A i \in 1..(Len(s) - 1) : s[i] \in S
  BY <1>1
<1>3. PICK k \in Nat : k = Len(s) - 1
  BY <1>1
<1>4. /\ SubSeq(s, 1, k) \in Seq(S) /\ Len(SubSeq(s, 1, k)) = IF 1 <= k THEN k - 1 + 1 ELSE 0
      /\ \A i \in 1..(k - 1 + 1) : SubSeq(s, 1, k)[i] = s[1 + i - 1]
  BY <1>2, <1>3, SubSeqProperties
<1>5. Front(s) = SubSeq(s, 1, k)
  BY <1>3 DEF Front
<1>6. \A i \in 1..k : Front(s)[i] = s[i]
  BY <1>3, <1>4, <1>5
<1>7. Len(Front(s)) = k
  BY <1>3, <1>4, <1>5
<1> QED
  BY <1>1, <1>3, <1>4, <1>5, <1>6, <1>7

-----------------------------------------------------------------------------
(* The search.                                                              *)

(* A new frame holds the premise and all it rests on.                       *)
LEMMA FrameTyped ==
    ASSUME IsList(items), NEW n \in Names
    PROVE  /\ Frame(n) \in Frames /\ Frame(n).node = n
           /\ \A k \in Names : RestsOn(n, k) <=>
                 k \in {Frame(n).deps[j] : j \in 1..Len(Frame(n).deps)}
<1>1. ByName(n).deps \in Seq(Name)
  BY Looked
<1> QED
  BY <1>1 DEF Frame, Frames, RestsOn

(* Trying a dependency takes it from the top frame and nothing else.        *)
LEMMA TriedProperties ==
    ASSUME Typed, Trying
    PROVE  /\ Len(stack) \in Nat \ {0} /\ Dep \in Name
           /\ Tried \in Seq(Frames) /\ Len(Tried) = Len(stack)
           /\ \A i \in 1..Len(stack) : Tried[i].node = stack[i].node
           /\ \A i \in 1..Len(stack) : i # Len(stack) => Tried[i] = stack[i]
           /\ Untried(stack, Len(stack)) = Untried(Tried, Len(stack)) \cup {Dep}
<1> DEFINE L == Len(stack)
<1>1. stack \in Seq(Frames) /\ stack # <<>> /\ Top.deps # <<>>
  BY DEF Typed, Trying
<1>2. L \in Nat \ {0} /\ Top \in Frames
  BY <1>1, FrontProperties DEF Top
<1>3. Top.deps \in Seq(Name) /\ Top.node \in Names
  BY <1>2 DEF Frames
<1>4. /\ Head(Top.deps) \in Name /\ Tail(Top.deps) \in Seq(Name)
      /\ Len(Tail(Top.deps)) = Len(Top.deps) - 1 /\ Len(Top.deps) \in Nat \ {0}
      /\ \A i \in 1..Len(Tail(Top.deps)) : Tail(Top.deps)[i] = Top.deps[i + 1]
      /\ Head(Top.deps) = Top.deps[1]
  <2>1. Len(Top.deps) \in Nat \ {0}
    BY <1>1, <1>3, EmptySeq
  <2> QED
    BY <1>1, <1>3, <2>1, HeadTailProperties
<1> DEFINE new == [node |-> Top.node, deps |-> Tail(Top.deps)]
<1>5. new \in Frames
  BY <1>3, <1>4 DEF Frames
<1>6. Tried = [stack EXCEPT ![L] = new]
  <2>1. \A r \in Frames, d \in Seq(Name) : [r EXCEPT !.deps = d] = [node |-> r.node, deps |-> d]
    BY DEF Frames
  <2>2. [Top EXCEPT !.deps = Tail(Top.deps)] = new
    BY <1>2, <1>4, <2>1
  <2>3. Tried = [stack EXCEPT ![L] = [Top EXCEPT !.deps = Tail(Top.deps)]]
    BY DEF Tried, Top
  <2> QED
    BY <2>2, <2>3
<1>7. L \in 1..Len(stack)
  BY <1>2
<1>8. /\ Tried \in Seq(Frames) /\ Len(Tried) = L
      /\ \A j \in 1..L : Tried[j] = IF j = L THEN new ELSE stack[j]
  <2> HIDE DEF new
  <2> QED
    BY <1>1, <1>5, <1>6, <1>7, ExceptSeq
<1>9. \A i \in 1..L : Tried[i].node = stack[i].node
  BY <1>8 DEF Top
<1>10. \A i \in 1..L : i # L => Tried[i] = stack[i]
  BY <1>8
<1>11. Untried(Tried, L) = {Tail(Top.deps)[j] : j \in 1..Len(Tail(Top.deps))}
  <2>1. Tried[L] = new
    BY <1>7, <1>8
  <2>2. Tried[L].deps = Tail(Top.deps)
    BY <2>1
  <2> QED
    BY <2>2 DEF Untried
<1>12. Untried(stack, L) = {Top.deps[j] : j \in 1..Len(Top.deps)}
  BY DEF Untried, Top
<1>13. {Top.deps[j] : j \in 1..Len(Top.deps)}
          = {Tail(Top.deps)[j] : j \in 1..Len(Tail(Top.deps))} \cup {Head(Top.deps)}
  <2> DEFINE d == Top.deps
             t == Tail(d)
  <2>1. ASSUME NEW j \in 1..Len(d), j # 1 PROVE j - 1 \in 1..Len(t) /\ d[j] = t[j - 1]
    <3>1. Len(d) \in Nat /\ Len(t) = Len(d) - 1 /\ \A i \in 1..Len(t) : t[i] = d[i + 1]
      BY <1>4
    <3> HIDE DEF d, t
    <3>2. j - 1 \in 1..Len(t) /\ (j - 1) + 1 = j
      BY <2>1, <3>1
    <3> QED
      BY <3>1, <3>2
  <2>2. \A j \in 1..Len(t) : j + 1 \in 1..Len(d) /\ d[j + 1] = t[j]
    BY <1>4
  <2>3. 1 \in 1..Len(d) /\ d[1] = Head(d)
    BY <1>4
  <2> HIDE DEF d, t
  <2>4. \A x \in {d[j] : j \in 1..Len(d)} : x \in {t[j] : j \in 1..Len(t)} \cup {Head(d)}
    BY <2>1, <2>3
  <2>5. \A x \in {t[j] : j \in 1..Len(t)} \cup {Head(d)} : x \in {d[j] : j \in 1..Len(d)}
    BY <2>2, <2>3
  <2>6. {d[j] : j \in 1..Len(d)} = {t[j] : j \in 1..Len(t)} \cup {Head(d)}
    BY <2>4, <2>5
  <2> QED
    BY <2>6 DEF d, t
<1>14. Dep = Head(Top.deps)
  BY DEF Dep
<1>15. Untried(stack, L) = Untried(Tried, L) \cup {Dep}
  BY <1>11, <1>12, <1>13, <1>14
<1> QED
  BY <1>2, <1>4, <1>8, <1>9, <1>10, <1>14, <1>15

(* A dependency that leads nowhere new is taken off.                        *)
LEMMA StepTried ==
    ASSUME Typed, Stacked, Followed, Trying, stack' = Tried, UNCHANGED <<items, colour, path>>,
           onCycle \subseteq onCycle',
           Dep \in Names => colour[Dep] = "black" \/ path[Len(path)] \in onCycle'
    PROVE  Stacked' /\ Followed'
<1>1. /\ Len(stack) \in Nat \ {0} /\ Len(Tried) = Len(stack) /\ Len(path) = Len(stack)
      /\ \A i \in 1..Len(stack) : Tried[i].node = stack[i].node
      /\ \A i \in 1..Len(stack) : i # Len(stack) => Tried[i] = stack[i]
      /\ Untried(stack, Len(stack)) = Untried(Tried, Len(stack)) \cup {Dep}
  BY TriedProperties DEF Stacked
<1>2. \A i \in 1..Len(stack) : /\ Left(i)' \subseteq Left(i)
                               /\ Left(i) \subseteq Left(i)' \cup {Dep}
                               /\ i # Len(stack) => Left(i)' = Left(i)
  <2> TAKE i \in 1..Len(stack)
  <2>1. Left(i)' = Untried(Tried, i)
    BY DEF Left, Untried
  <2>2. i # Len(stack) => Untried(Tried, i) = Untried(stack, i)
    BY <1>1 DEF Untried
  <2>3. Left(i) = Untried(stack, i)
    BY DEF Left
  <2>4. CASE i = Len(stack)
    BY <1>1, <2>1, <2>3, <2>4
  <2>5. CASE i # Len(stack)
    BY <2>1, <2>2, <2>3, <2>5
  <2> QED
    BY <2>4, <2>5
<1>3. /\ Names' = Names /\ \A m, n : RestsOn(m, n)' <=> RestsOn(m, n)
  BY ListStays
<1>4. Stacked'
  <2>1. \A i \in 1..Len(path) : \A n \in Left(i)' \cap Names : RestsOn(path[i], n)
    BY <1>1, <1>2 DEF Stacked
  <2> QED
    BY <1>1, <1>3, <2>1 DEF Stacked
<1>5. ASSUME NEW i \in 1..Len(path), NEW n \in Names, RestsOn(path[i], n)
      PROVE  \/ n \in Left(i)' \/ colour[n] = "black" \/ path[i] \in onCycle'
             \/ i < Len(path) /\ n = path[i + 1]
  BY <1>1, <1>2, <1>5 DEF Followed
<1>6. \A m, n \in Names : colour[m] = "black" /\ m \notin onCycle' /\ RestsOn(m, n) =>
          colour[n] = "black"
  BY DEF Followed
<1> QED
  BY <1>3, <1>4, <1>5, <1>6 DEF Followed

(* A first premise is put on the empty stack.                               *)
LEMMA StepStart ==
    ASSUME Typed, Stacked, Followed, Searching, pc = "search", stack = <<>>,
           NEW n \in Names, colour[n] = "white",
           colour' = [colour EXCEPT ![n] = "grey"], stack' = <<Frame(n)>>, path' = <<n>>,
           UNCHANGED <<items, onCycle>>
    PROVE  /\ Stacked' /\ Followed' /\ stack' \in Seq(Frames) /\ path' \in Seq(Names)
<1>1. Frame(n) \in Frames /\ Frame(n).node = n
  BY FrameTyped DEF Typed
<1>2. /\ Len(stack') = 1 /\ Len(path') = 1 /\ stack'[1] = Frame(n) /\ path'[1] = n
      /\ stack' \in Seq(Frames) /\ path' \in Seq(Names)
  <2>1. \A S, x : x \in S => <<x>> \in Seq(S) /\ Len(<<x>>) = 1 /\ <<x>>[1] = x
    OBVIOUS
  <2> QED
    BY <1>1, <2>1
<1>3. Len(path) = 0 /\ \A m \in Names : colour[m] # "grey"
  BY DEF Stacked
<1>4. \A m \in Names : colour'[m] = IF m = n THEN "grey" ELSE colour[m]
  BY DEF Typed
<1>5. Left(1)' = {Frame(n).deps[j] : j \in 1..Len(Frame(n).deps)}
  BY <1>2 DEF Left, Untried
<1>6. \A k \in Names : RestsOn(n, k) <=> k \in Left(1)'
  BY <1>5, FrameTyped DEF Typed
<1>7. /\ Names' = Names /\ \A a, b : RestsOn(a, b)' <=> RestsOn(a, b)
  BY ListStays
<1>8. Stacked'
  <2>1. \A i \in 1..Len(path') : i = 1
    BY <1>2
  <2>2. \A m \in Names : colour'[m] = "grey" <=> m = n
    BY <1>3, <1>4
  <2>3. (1 \in 1..Len(path')) /\ 1..(Len(path') - 1) = {}
    BY <1>2
  <2> QED
    BY <1>1, <1>2, <1>6, <1>7, <2>1, <2>2, <2>3 DEF Stacked
<1>9. Followed'
  <2>1. \A i \in 1..Len(path') : i = 1
    BY <1>2
  <2>2. \A m \in Names : (colour'[m] = "black") <=> (colour[m] = "black")
    BY <1>4
  <2>3. \A a, b \in Names : colour'[a] = "black" /\ a \notin onCycle' /\ RestsOn(a, b) =>
            colour'[b] = "black"
    BY <2>2 DEF Followed
  <2> QED
    BY <1>2, <1>6, <1>7, <2>1, <2>3 DEF Followed
<1> QED
  BY <1>2, <1>8, <1>9

(* A premise not seen before goes on top of the one that rests on it.       *)
LEMMA StepDescend ==
    ASSUME Typed, Stacked, Followed, Descend
    PROVE  /\ Stacked' /\ Followed' /\ stack' \in Seq(Frames) /\ path' \in Seq(Names)
           /\ colour' \in [Names -> {"white", "grey", "black"}]
<1> DEFINE f == Frame(Dep)
<1>0. PICK L : L = Len(stack)
  OBVIOUS
<1>1. /\ Trying /\ Dep \in Names /\ colour[Dep] = "white"
      /\ colour' = [colour EXCEPT ![Dep] = "grey"]
      /\ stack' = Append(Tried, f) /\ path' = Append(path, Dep)
      /\ UNCHANGED <<items, onCycle>>
  BY DEF Descend
<1>2. /\ L \in Nat \ {0} /\ Tried \in Seq(Frames) /\ Len(Tried) = L
      /\ \A i \in 1..L : Tried[i].node = stack[i].node
      /\ \A i \in 1..L : i # L => Tried[i] = stack[i]
      /\ Untried(stack, L) = Untried(Tried, L) \cup {Dep}
  BY <1>0, <1>1, TriedProperties
<1>3. f \in Frames /\ f.node = Dep
  BY <1>1, FrameTyped DEF Typed
<1>4. /\ stack' \in Seq(Frames) /\ Len(stack') = L + 1 /\ stack'[L + 1] = f
      /\ \A i \in 1..L : stack'[i] = Tried[i]
  <2> HIDE DEF f
  <2> QED
    BY <1>1, <1>2, <1>3, AppendProperties
<1>5. /\ path' \in Seq(Names) /\ Len(path') = L + 1 /\ path'[L + 1] = Dep /\ Len(path) = L
      /\ \A i \in 1..L : path'[i] = path[i] /\ path[i] \in Names
  <2>1. path \in Seq(Names) /\ Len(path) = L
    BY <1>0 DEF Typed, Stacked
  <2> QED
    BY <1>1, <2>1, AppendProperties, LenProperties
<1>6. /\ colour' \in [Names -> {"white", "grey", "black"}]
      /\ \A m \in Names : colour'[m] = IF m = Dep THEN "grey" ELSE colour[m]
  BY <1>1 DEF Typed
<1>7. \A i \in 1..L : path[i] # Dep
  BY <1>1, <1>5 DEF Stacked
<1>8. /\ Names' = Names /\ \A a, b : RestsOn(a, b)' <=> RestsOn(a, b)
  BY <1>1, ListStays
<1>9. 1..(L + 1) = 1..L \cup {L + 1}
  BY <1>2
<1>10. \A k \in Names : RestsOn(Dep, k) <=> k \in Left(L + 1)'
  <2>1. Left(L + 1)' = {f.deps[j] : j \in 1..Len(f.deps)}
    BY <1>4 DEF Left, Untried
  <2> QED
    BY <1>1, <2>1, FrameTyped DEF Typed
<1>11. \A i \in 1..L : Left(i) = IF i = L THEN Left(i)' \cup {Dep} ELSE Left(i)'
  <2> TAKE i \in 1..L
  <2>1. Left(i)' = Untried(Tried, i)
    BY <1>4 DEF Left, Untried
  <2>2. i # L => Untried(Tried, i) = Untried(stack, i)
    BY <1>2 DEF Untried
  <2>3. Left(i) = Untried(stack, i)
    BY DEF Left
  <2> QED
    BY <1>2, <2>1, <2>2, <2>3
<1>12. RestsOn(path[L], Dep)
  <2>1. L \in 1..L /\ Dep \in Left(L)
    BY <1>2, <1>11
  <2> QED
    BY <1>1, <1>5, <2>1 DEF Stacked
<1> HIDE DEF f
<1>13. Stacked'
  <2>1. \A i \in 1..(L + 1) : path'[i] = stack'[i].node
    <3>1. \A i \in 1..L : path[i] = stack[i].node
      BY <1>0 DEF Stacked
    <3> QED
      BY <1>2, <1>3, <1>4, <1>5, <1>9, <3>1
  <2>2. ASSUME NEW i \in 1..(L + 1), NEW j \in 1..(L + 1), path'[i] = path'[j]
        PROVE  i = j
    <3>1. \A a, b \in 1..L : path[a] = path[b] => a = b
      BY <1>5 DEF Stacked
    <3> QED
      BY <1>5, <1>7, <1>9, <2>2, <3>1
  <2>3. ASSUME NEW n \in Names PROVE colour'[n] = "grey" <=> \E i \in 1..(L + 1) : path'[i] = n
    <3>1. colour[n] = "grey" <=> \E i \in 1..L : path[i] = n
      BY <1>5 DEF Stacked
    <3> QED
      BY <1>5, <1>6, <1>7, <1>9, <3>1
  <2>4. ASSUME NEW i \in 1..L PROVE RestsOn(path'[i], path'[i + 1])
    <3>1. CASE i = L
      BY <1>2, <1>5, <1>12, <3>1
    <3>2. CASE i # L
      <4>1. i \in 1..(L - 1) /\ i + 1 \in 1..L
        BY <1>2, <3>2
      <4> QED
        BY <1>5, <4>1 DEF Stacked
    <3> QED
      BY <3>1, <3>2
  <2>5. ASSUME NEW i \in 1..(L + 1), NEW n \in Left(i)' \cap Names PROVE RestsOn(path'[i], n)
    <3>1. CASE i = L + 1
      BY <1>5, <1>10, <2>5, <3>1
    <3>2. CASE i \in 1..L
      BY <1>5, <1>11, <2>5, <3>2 DEF Stacked
    <3> QED
      BY <1>9, <3>1, <3>2
  <2>6. 1..(Len(path') - 1) = 1..L
    BY <1>2, <1>5
  <2> QED
    BY <1>4, <1>5, <1>8, <2>1, <2>2, <2>3, <2>4, <2>5, <2>6 DEF Stacked
<1>14. Followed'
  <2>1. \A m \in Names : (colour'[m] = "black") <=> (colour[m] = "black")
    BY <1>1, <1>6
  <2>2. ASSUME NEW i \in 1..(L + 1), NEW n \in Names, RestsOn(path'[i], n)
        PROVE  \/ n \in Left(i)' \/ colour'[n] = "black" \/ path'[i] \in onCycle
               \/ i < L + 1 /\ n = path'[i + 1]
    <3>1. CASE i = L + 1
      BY <1>5, <1>10, <2>2, <3>1
    <3>2. CASE i \in 1..L
      <4>1. \/ n \in Left(i) \/ colour[n] = "black" \/ path[i] \in onCycle
            \/ i < L /\ n = path[i + 1]
        BY <1>5, <2>2, <3>2 DEF Followed
      <4>2. CASE n \in Left(i)
        BY <1>2, <1>5, <1>11, <3>2, <4>2
      <4>3. CASE i < L /\ n = path[i + 1]
        BY <1>2, <1>5, <3>2, <4>3
      <4> QED
        BY <1>5, <2>1, <3>2, <4>1, <4>2, <4>3
    <3> QED
      BY <1>9, <3>1, <3>2
  <2>3. \A a, b \in Names : colour'[a] = "black" /\ a \notin onCycle /\ RestsOn(a, b) =>
            colour'[b] = "black"
    BY <2>1 DEF Followed
  <2> QED
    BY <1>1, <1>5, <1>8, <2>2, <2>3 DEF Followed
<1> QED
  BY <1>4, <1>5, <1>6, <1>13, <1>14

(* The premise on top, with nothing left to try, is finished.               *)
LEMMA StepFinish ==
    ASSUME Typed, Stacked, Followed, Unlooped, Finish
    PROVE  /\ Stacked' /\ Followed' /\ Unlooped'
           /\ stack' \in Seq(Frames) /\ path' \in Seq(Names)
           /\ colour' \in [Names -> {"white", "grey", "black"}]
<1>1. PICK L : L = Len(stack)
  OBVIOUS
<1>2. PICK t : t = Top.node
  OBVIOUS
<1>3. /\ stack # <<>> /\ Top.deps = <<>> /\ colour' = [colour EXCEPT ![t] = "black"]
      /\ stack' = Front(stack) /\ UNCHANGED <<items, onCycle>>
  BY <1>2 DEF Finish
<1>4. /\ L \in Nat \ {0} /\ stack' \in Seq(Frames) /\ Len(stack') = L - 1
      /\ \A i \in 1..(L - 1) : stack'[i] = stack[i]
      /\ stack[L] \in Frames
  BY <1>1, <1>3, FrontProperties DEF Typed
<1>5. L \in 1..L /\ stack[L] = Top /\ t \in Names /\ path[L] = t
  <2>1. stack[L] = Top /\ L \in 1..L
    BY <1>1, <1>4 DEF Top
  <2> QED
    BY <1>1, <1>2, <1>4, <2>1 DEF Stacked, Frames
<1>6. /\ path' \in Seq(Names) /\ Len(path') = L - 1 /\ Len(path) = L
      /\ \A i \in 1..(L - 1) : path'[i] = path[i]
  <2>1. path \in Seq(Names) /\ Len(path) = L
    BY <1>1 DEF Typed, Stacked
  <2>2. path # <<>> /\ path[Len(path)] = Top.node
    BY <1>2, <1>4, <1>5, <2>1
  <2>3. path' = Front(path)
    BY <2>2 DEF Finish
  <2> QED
    BY <2>1, <2>2, <2>3, FrontProperties
<1>7. /\ colour' \in [Names -> {"white", "grey", "black"}]
      /\ \A m \in Names : colour'[m] = IF m = t THEN "black" ELSE colour[m]
  BY <1>3, <1>5 DEF Typed
<1>8. /\ Names' = Names /\ \A a, b : RestsOn(a, b)' <=> RestsOn(a, b)
      /\ \A n : Basis(n, Names)' = Basis(n, Names)
  BY <1>3, ListStays
<1>9. Left(L) = {}
  <2>1. Len(stack[L].deps) = 0
    BY <1>3, <1>5
  <2> QED
    BY <2>1 DEF Left, Untried
<1>10. \A i \in 1..(L - 1) : Left(i)' = Left(i)
  BY <1>4 DEF Left, Untried
<1>11. \A i, j \in 1..L : path[i] = path[j] => i = j
  BY <1>6 DEF Stacked
<1>12. colour[t] = "grey"
  BY <1>5, <1>6 DEF Stacked
<1>13. \A n \in Names : RestsOn(t, n) => colour[n] = "black" \/ t \in onCycle
  BY <1>4, <1>5, <1>6, <1>9 DEF Followed
<1>14. /\ 1..L = 1..(L - 1) \cup {L} /\ L \notin 1..(L - 1)
       /\ \A i \in 1..(L - 1) : i < L - 1 => i + 1 \in 1..(L - 1)
       /\ \A i \in 1..(L - 1 - 1) : i \in 1..(L - 1) /\ i + 1 \in 1..(L - 1)
       /\ \A i \in 1..(L - 1) : i < L /\ (i = L - 1 \/ i < L - 1) /\ (i = L - 1 => i + 1 = L)
  BY <1>4
<1>15. Stacked'
  <2>1. \A i \in 1..(L - 1) : path'[i] = stack'[i].node
    BY <1>1, <1>4, <1>6, <1>14 DEF Stacked
  <2>2. \A i, j \in 1..(L - 1) : path'[i] = path'[j] => i = j
    BY <1>6, <1>11, <1>14
  <2>3. ASSUME NEW n \in Names
        PROVE  colour'[n] = "grey" <=> \E i \in 1..(L - 1) : path'[i] = n
    <3>1. colour[n] = "grey" <=> \E i \in 1..L : path[i] = n
      BY <1>6 DEF Stacked
    <3> QED
      BY <1>5, <1>6, <1>7, <1>11, <1>14, <3>1
  <2>4. \A i \in 1..(L - 1 - 1) : RestsOn(path'[i], path'[i + 1])
    <3> TAKE i \in 1..(L - 1 - 1)
    <3>1. RestsOn(path[i], path[i + 1])
      BY <1>6, <1>14 DEF Stacked
    <3> QED
      BY <1>6, <1>14, <3>1
  <2>5. \A i \in 1..(L - 1) : \A n \in Left(i) \cap Names : RestsOn(path'[i], n)
    BY <1>6, <1>14 DEF Stacked
  <2> QED
    BY <1>4, <1>6, <1>8, <1>10, <2>1, <2>2, <2>3, <2>4, <2>5 DEF Stacked
<1>16. Followed'
  <2>1. ASSUME NEW i \in 1..(L - 1), NEW n \in Names, RestsOn(path'[i], n)
        PROVE  \/ n \in Left(i)' \/ colour'[n] = "black" \/ path'[i] \in onCycle
               \/ i < L - 1 /\ n = path'[i + 1]
    <3>1. \/ n \in Left(i) \/ colour[n] = "black" \/ path[i] \in onCycle
          \/ i < L /\ n = path[i + 1]
      BY <1>6, <1>14, <2>1 DEF Followed
    <3>2. CASE i < L /\ n = path[i + 1]
      <4>1. CASE i = L - 1
        <5>1. n = t
          BY <1>5, <1>14, <3>2, <4>1
        <5> QED
          BY <1>7, <5>1
      <4>2. CASE i < L - 1
        BY <1>6, <1>14, <3>2, <4>2
      <4> QED
        BY <1>14, <4>1, <4>2
    <3> QED
      BY <1>6, <1>7, <1>10, <3>1, <3>2
  <2>2. ASSUME NEW a \in Names, NEW b \in Names, colour'[a] = "black", a \notin onCycle,
               RestsOn(a, b)
        PROVE  colour'[b] = "black"
    <3>1. CASE a = t
      BY <1>7, <1>13, <2>2, <3>1
    <3>2. CASE a # t
      BY <1>7, <2>2, <3>2 DEF Followed
    <3> QED
      BY <3>1, <3>2
  <2> QED
    BY <1>3, <1>6, <1>8, <2>1, <2>2 DEF Followed
<1>17. Unlooped'
  <2>1. Finished' \subseteq Finished \cup {t} /\ (t \in Finished' => t \notin onCycle)
    BY <1>3, <1>7, <1>8 DEF Finished
  <2>2. ASSUME NEW X \in SUBSET Finished', X # {}
        PROVE  \E x \in X : \A y \in X : ~RestsOn(y, x)
    <3>1. CASE t \in X
      <4>1. ASSUME NEW y \in X, RestsOn(y, t) PROVE FALSE
        <5>1. CASE y = t
          BY <1>5, <1>12, <1>13, <2>1, <3>1, <4>1, <5>1
        <5>2. CASE y # t
          <6>1. y \in Names /\ colour[y] = "black" /\ y \notin onCycle
            BY <2>1, <4>1, <5>2 DEF Finished
          <6> QED
            BY <1>5, <1>12, <4>1, <6>1 DEF Followed
        <5> QED
          BY <5>1, <5>2
      <4> QED
        BY <3>1, <4>1
    <3>2. CASE t \notin X
      <4>1. X \in SUBSET Finished
        BY <2>1, <3>2
      <4> QED
        BY <2>2, <4>1 DEF Unlooped
    <3> QED
      BY <3>1, <3>2
  <2> QED
    BY <1>3, <1>8, <2>2 DEF Unlooped
<1> QED
  BY <1>4, <1>6, <1>7, <1>15, <1>16, <1>17

(* What holds of one position of a path and passes on along it.             *)
LEMMA Downstream ==
    ASSUME NEW p, NEW C, NEW a \in Nat, NEW b \in Nat, p[a] \in C,
           \A i \in a..(b - 1) : p[i] \in C => p[i + 1] \in C
    PROVE  \A i \in a..b : p[i] \in C
<1> DEFINE Off == {i \in a..b : p[i] \notin C}
<1> SUFFICES ASSUME Off # {} PROVE FALSE
  OBVIOUS
<1>1. PICK n \in Off : \A m \in Off : n <= m
  <2>1. Off \in SUBSET Nat
    OBVIOUS
  <2> HIDE DEF Off
  <2> QED
    BY <2>1, SmallestNat
<1>2. n \in a..b /\ p[n] \notin C /\ n # a
  BY <1>1
<1>3. n - 1 \in a..(b - 1) /\ n - 1 \in a..b /\ n - 1 < n /\ n - 1 + 1 = n
  BY <1>2
<1>4. n - 1 \notin Off
  BY <1>1, <1>3
<1> QED
  BY <1>2, <1>3, <1>4

(* The path from a premise that is met again down to the one that rests on  *)
(* it is a cycle.                                                           *)
LEMMA StepClose ==
    ASSUME Typed, Stacked, Followed, Unlooped, CloseCycle
    PROVE  /\ Stacked' /\ Followed' /\ Unlooped' /\ onCycle' \subseteq Names
           /\ stack' \in Seq(Frames)
<1>1. PICK L : L = Len(path)
  OBVIOUS
<1> DEFINE from == CHOOSE i \in 1..Len(path) : path[i] = Dep
<1>2. /\ Trying /\ Dep \in Names /\ colour[Dep] = "grey" /\ stack' = Tried
      /\ UNCHANGED <<items, colour, path>>
      /\ onCycle' = onCycle \cup {path[i] : i \in from..Len(path)}
  BY DEF CloseCycle
<1>3. PICK f \in 1..L : f = from /\ path[f] = Dep
  <2>1. \E i \in 1..Len(path) : path[i] = Dep
    BY <1>2 DEF Stacked
  <2> QED
    BY <1>1, <2>1
<1> HIDE DEF from
<1>4. L \in Nat \ {0} /\ \A i \in 1..L : path[i] \in Names
  <2>1. Len(stack) \in Nat \ {0} /\ Len(path) = Len(stack)
    BY <1>2, TriedProperties DEF Stacked
  <2> QED
    BY <1>1, <2>1, LenProperties DEF Typed
<1>5. onCycle' = onCycle \cup {path[i] : i \in f..L}
  BY <1>1, <1>2, <1>3
<1>6. L \in f..L /\ \A i \in f..L : i \in 1..L
  BY <1>3, <1>4
<1>7. Stacked' /\ Followed'
  <2>1. path[Len(path)] \in onCycle' /\ onCycle \subseteq onCycle'
    BY <1>1, <1>5, <1>6
  <2> QED
    BY <1>2, <2>1, StepTried
<1>8. RestsOn(path[L], path[f])
  <2>1. Dep \in Left(L)
    <3>1. Len(stack) = L
      BY <1>1 DEF Stacked
    <3>2. Untried(stack, L) = Untried(Tried, L) \cup {Dep}
      BY <1>2, <3>1, TriedProperties
    <3> QED
      BY <3>2 DEF Left
  <2> QED
    BY <1>1, <1>2, <1>3, <1>6, <2>1 DEF Stacked
<1>9. \A i \in 1..(L - 1) : RestsOn(path[i], path[i + 1])
  BY <1>1 DEF Stacked
<1>10. ASSUME NEW j \in f..L PROVE path[j] \in Basis(path[j], Names)
  <2> DEFINE C == Basis(path[j], Names)
  <2>1. /\ \A n \in Names : RestsOn(path[j], n) => n \in C
        /\ \A b \in C, n \in Names : RestsOn(b, n) => n \in C
    BY BasisProperties DEF Typed
  <2> HIDE DEF C
  <2>2. \A i \in 1..(L - 1) : path[i] \in C => path[i + 1] \in C
    <3> TAKE i \in 1..(L - 1)
    <3>1. i + 1 \in 1..L
      BY <1>4
    <3> QED
      BY <1>4, <1>9, <2>1, <3>1
  <2>3. path[f] \in C
    <3>1. CASE j = L
      BY <1>3, <1>4, <1>8, <2>1, <3>1
    <3>2. CASE j # L
      <4>1. j \in 1..(L - 1) /\ j + 1 \in 1..L /\ j + 1 \in Nat
        BY <1>3, <1>4, <3>2
      <4>2. path[j + 1] \in C
        BY <1>4, <1>9, <2>1, <4>1
      <4>3. \A i \in (j + 1)..(L - 1) : path[i] \in C => path[i + 1] \in C
        BY <2>2, <4>1
      <4>4. \A i \in (j + 1)..L : path[i] \in C
        BY <1>4, <4>1, <4>2, <4>3, Downstream
      <4>5. path[L] \in C
        BY <1>4, <4>1, <4>4
      <4> QED
        BY <1>3, <1>4, <1>8, <2>1, <4>5
    <3> QED
      BY <3>1, <3>2
  <2>4. j \in Nat /\ f \in Nat /\ j \in f..j /\ \A i \in f..(j - 1) : i \in 1..(L - 1)
    BY <1>3, <1>4
  <2>5. \A i \in f..j : path[i] \in C
    BY <2>2, <2>3, <2>4, Downstream
  <2> QED
    BY <2>4, <2>5 DEF C
<1>11. Unlooped'
  <2>1. /\ Names' = Names /\ \A a, b : RestsOn(a, b)' <=> RestsOn(a, b)
        /\ \A n : Basis(n, Names)' = Basis(n, Names)
    BY <1>2, ListStays
  <2>2. \A n \in onCycle' : n \in Basis(n, Names)
    BY <1>5, <1>10 DEF Unlooped
  <2>3. Finished' \subseteq Finished
    BY <1>2, <1>5, <2>1 DEF Finished
  <2> QED
    BY <2>1, <2>2, <2>3 DEF Unlooped
<1>12. stack' \in Seq(Frames)
  BY <1>2, TriedProperties
<1>13. onCycle' \subseteq Names
  BY <1>4, <1>5, <1>6 DEF Typed
<1> QED
  BY <1>7, <1>11, <1>12, <1>13

-----------------------------------------------------------------------------
(* The whole invariant, action by action.                                   *)

(* While the search runs nothing is sorted.                                 *)
LEMMA NothingSorted ==
    ASSUME Typed, Sorted, pc = "search", UNCHANGED <<items, part>>,
           pc' = "search" \/ (pc' = "classify" /\ at' = 1)
    PROVE  Sorted' /\ Rested' /\ part' \in Seq(Parts)
<1>1. Len(part') = 0 /\ part' \in Seq(Parts)
  BY DEF Sorted, Typed
<1>2. \A i \in 1..Len(part') : FALSE
  BY <1>1
<1>3. DerivedRestsOnOpen'
  BY <1>2 DEF DerivedRestsOnOpen
<1>4. Sorted'
  BY <1>1, <1>2, <1>3 DEF Sorted
<1>5. Rested'
  BY DEF Rested
<1> QED
  BY <1>1, <1>4, <1>5

(* No premise turns white again.                                            *)
LEMMA NoneWhitens ==
    ASSUME Typed, Searching, pc = "search", pc' = "search", UNCHANGED items,
           \A m \in Names : colour'[m] = "white" => colour[m] = "white",
           \/ at' = at
           \/ at' = at + 1 /\ at <= Len(items) /\ colour'[items[at].name] # "white"
    PROVE  Searching' /\ at' \in 1..(Len(items) + 1)
<1>1. /\ Len(items) \in Nat /\ \A i \in 1..Len(items) : items[i].name \in Names
      /\ at \in 1..(Len(items) + 1)
  BY Looked DEF Typed
<1>2. \A i \in 1..(at - 1) : colour'[items[i].name] # "white"
  <2> TAKE i \in 1..(at - 1)
  <2>1. i \in 1..Len(items)
    BY <1>1
  <2> QED
    BY <1>1, <2>1 DEF Searching
<1>3. CASE at' = at
  BY <1>1, <1>2, <1>3 DEF Searching
<1>4. CASE at' = at + 1 /\ at <= Len(items) /\ colour'[items[at].name] # "white"
  <2>1. \A i \in 1..(at' - 1) : i \in 1..(at - 1) \/ i = at
    BY <1>1, <1>4
  <2>2. \A i \in 1..(at' - 1) : colour'[items[i].name] # "white"
    BY <1>2, <1>4, <2>1
  <2>3. Searching'
    BY <2>2 DEF Searching
  <2> QED
    BY <1>1, <1>4, <2>3
<1> QED
  BY <1>3, <1>4

(* A step that leaves the search alone leaves what is known of it alone.    *)
LEMMA SearchStays ==
    ASSUME IsList(items), Stacked, Followed, Unlooped, UNCHANGED <<items, search>>
    PROVE  Stacked' /\ Followed' /\ Unlooped'
<1>1. /\ Names' = Names /\ \A a, b : RestsOn(a, b)' <=> RestsOn(a, b)
      /\ \A n : Basis(n, Names)' = Basis(n, Names)
  BY ListStays
<1>2. colour' = colour /\ stack' = stack /\ path' = path /\ onCycle' = onCycle
  BY DEF search
<1>3. \A i : Left(i)' = Left(i)
  BY <1>2 DEF Left, Untried
<1>4. Stacked'
  BY <1>1, <1>2, <1>3 DEF Stacked
<1>5. Followed'
  BY <1>1, <1>2, <1>3 DEF Followed
<1>6. Finished' = Finished
  BY <1>1, <1>2 DEF Finished
<1>7. Unlooped'
  BY <1>1, <1>2, <1>6 DEF Unlooped
<1> QED
  BY <1>4, <1>5, <1>7

(* A premise that is only now reached is not among the finished.            *)
LEMMA FinishedStays ==
    ASSUME Typed, Unlooped, UNCHANGED <<items, onCycle>>,
           \A m \in Names : colour'[m] = "black" <=> colour[m] = "black"
    PROVE  Unlooped'
<1>1. /\ Names' = Names /\ \A a, b : RestsOn(a, b)' <=> RestsOn(a, b)
      /\ \A n : Basis(n, Names)' = Basis(n, Names)
  BY ListStays DEF Typed
<1>2. Finished' = Finished
  BY <1>1 DEF Finished
<1> QED
  BY <1>1, <1>2 DEF Unlooped

(* The search keeps the invariant: a premise is reached, followed, found    *)
(* again on the path, or finished.                                          *)
LEMMA StepSearch ==
    ASSUME IInv, Start \/ Pass \/ CloseCycle \/ Descend \/ Finish
    PROVE  IInv'
<1> USE DEF IInv
<1>1. /\ pc = "search" /\ pc' = "search" /\ UNCHANGED <<items, resting, part, overall>>
  BY DEF Start, Pass, CloseCycle, Descend, Finish, Trying
<1>2. Sorted' /\ Rested' /\ part' \in Seq(Parts)
  BY <1>1, NothingSorted
<1>3. /\ IsList(items)' /\ Names' = Names /\ Frames' = Frames
      /\ frontier' \in Seq(Name) /\ seen' \subseteq Names
  BY <1>1, ListStays DEF Typed, resting
<1>4. ASSUME at' \in 1..(Len(items) + 1), colour' \in [Names -> {"white", "grey", "black"}],
             stack' \in Seq(Frames), path' \in Seq(Names), onCycle' \subseteq Names
      PROVE  Typed'
  BY <1>1, <1>2, <1>3, <1>4 DEF Typed
<1>5. CASE Start
  <2> DEFINE n == items[at].name
  <2>1. at \in 1..Len(items) /\ n \in Names /\ at' = at + 1 /\ at <= Len(items)
    BY <1>5, Looked DEF Start, Typed
  <2>2. CASE colour[n] # "white"
    <3>1. UNCHANGED <<items, search>>
      BY <1>5, <2>2 DEF Start, search
    <3>2. colour' = colour /\ stack' = stack /\ path' = path /\ onCycle' = onCycle
      BY <3>1 DEF search
    <3>3. Stacked' /\ Followed' /\ Unlooped'
      BY <3>1, SearchStays DEF Typed
    <3>4. Searching' /\ at' \in 1..(Len(items) + 1)
      BY <1>1, <2>1, <2>2, <3>2, NoneWhitens
    <3> QED
      BY <1>2, <1>4, <3>2, <3>3, <3>4 DEF Typed
  <2>3. CASE colour[n] = "white"
    <3>1. /\ stack = <<>> /\ colour' = [colour EXCEPT ![n] = "grey"]
          /\ stack' = <<Frame(n)>> /\ path' = <<n>> /\ UNCHANGED onCycle
      BY <1>5, <2>3 DEF Start
    <3>2. /\ colour' \in [Names -> {"white", "grey", "black"}]
          /\ \A m \in Names : colour'[m] = IF m = n THEN "grey" ELSE colour[m]
      BY <2>1, <3>1 DEF Typed
    <3> HIDE DEF n
    <3>3. Stacked' /\ Followed' /\ stack' \in Seq(Frames) /\ path' \in Seq(Names)
      BY <1>1, <2>1, <2>3, <3>1, StepStart
    <3>4. Unlooped'
      BY <1>1, <2>3, <3>1, <3>2, FinishedStays
    <3>5. Searching' /\ at' \in 1..(Len(items) + 1)
      <4>1. colour'[items[at].name] # "white"
        BY <2>1, <3>2 DEF n
      <4> QED
        BY <1>1, <2>1, <3>2, <4>1, NoneWhitens
    <3>6. onCycle' \subseteq Names
      BY <3>1 DEF Typed
    <3> QED
      BY <1>2, <1>4, <3>2, <3>3, <3>4, <3>5, <3>6
  <2> QED
    BY <2>2, <2>3
<1>6. CASE Pass
  <2>1. /\ Trying /\ stack' = Tried /\ UNCHANGED <<at, colour, path, onCycle>>
        /\ (Dep \in Names => colour[Dep] = "black")
    BY <1>6 DEF Pass
  <2>2. Stacked' /\ Followed' /\ stack' \in Seq(Frames)
    BY <1>1, <2>1, StepTried, TriedProperties
  <2>3. Unlooped'
    BY <1>1, <2>1, FinishedStays
  <2>4. Searching' /\ at' \in 1..(Len(items) + 1)
    BY <1>1, <2>1, NoneWhitens
  <2> QED
    BY <1>2, <1>4, <2>1, <2>2, <2>3, <2>4 DEF Typed
<1>7. CASE CloseCycle
  <2>1. UNCHANGED <<at, colour, path>>
    BY <1>7 DEF CloseCycle
  <2>2. Stacked' /\ Followed' /\ Unlooped' /\ onCycle' \subseteq Names /\ stack' \in Seq(Frames)
    BY <1>7, StepClose
  <2>3. Searching' /\ at' \in 1..(Len(items) + 1)
    BY <1>1, <2>1, NoneWhitens
  <2> QED
    BY <1>2, <1>4, <2>1, <2>2, <2>3 DEF Typed
<1>8. CASE Descend
  <2>1. /\ Dep \in Names /\ colour[Dep] = "white" /\ colour' = [colour EXCEPT ![Dep] = "grey"]
        /\ UNCHANGED <<at, onCycle>>
    BY <1>8 DEF Descend
  <2>2. \A m \in Names : colour'[m] = IF m = Dep THEN "grey" ELSE colour[m]
    BY <2>1 DEF Typed
  <2>3. /\ Stacked' /\ Followed' /\ stack' \in Seq(Frames) /\ path' \in Seq(Names)
        /\ colour' \in [Names -> {"white", "grey", "black"}]
    BY <1>8, StepDescend
  <2>4. Unlooped'
    BY <1>1, <2>1, <2>2, FinishedStays
  <2>5. Searching' /\ at' \in 1..(Len(items) + 1)
    BY <1>1, <2>1, <2>2, NoneWhitens
  <2> QED
    BY <1>2, <1>4, <2>1, <2>3, <2>4, <2>5 DEF Typed
<1>9. CASE Finish
  <2>1. /\ colour' = [colour EXCEPT ![Top.node] = "black"] /\ UNCHANGED <<at, onCycle>>
    BY <1>9 DEF Finish
  <2>2. \A m \in Names : colour'[m] = "white" => colour[m] = "white"
    BY <2>1 DEF Typed
  <2>3. /\ Stacked' /\ Followed' /\ Unlooped'
        /\ stack' \in Seq(Frames) /\ path' \in Seq(Names)
        /\ colour' \in [Names -> {"white", "grey", "black"}]
    BY <1>9, StepFinish
  <2>4. Searching' /\ at' \in 1..(Len(items) + 1)
    BY <1>1, <2>1, <2>2, NoneWhitens
  <2> QED
    BY <1>2, <1>4, <2>1, <2>3, <2>4 DEF Typed
<1> QED
  BY <1>5, <1>6, <1>7, <1>8, <1>9

(* The search ends when every premise is finished.                          *)
LEMMA StepSearched ==
    ASSUME IInv, Searched
    PROVE  IInv'
<1> USE DEF IInv
<1>1. /\ pc = "search" /\ stack = <<>> /\ at > Len(items) /\ pc' = "classify" /\ at' = 1
      /\ UNCHANGED <<items, search, resting, part, overall>>
  BY DEF Searched
<1>2. Sorted' /\ Rested' /\ part' \in Seq(Parts)
  BY <1>1, NothingSorted
<1>3. Stacked' /\ Followed' /\ Unlooped'
  BY <1>1, SearchStays DEF Typed
<1>4. Len(items) \in Nat /\ Names' = Names /\ Frames' = Frames /\ IsList(items)'
  BY <1>1, Looked, ListStays DEF Typed
<1>5. \A n \in Names : colour[n] = "black"
  <2> TAKE n \in Names
  <2>1. PICK i \in 1..Len(items) : items[i].name = n
    BY DEF Names
  <2>2. i \in 1..(at - 1)
    BY <1>1, <1>4 DEF Typed
  <2>3. colour[n] # "white"
    BY <1>1, <2>1, <2>2 DEF Searching
  <2>4. Len(path) = 0
    BY <1>1 DEF Stacked
  <2>5. colour[n] # "grey"
    BY <2>4 DEF Stacked
  <2> QED
    BY <2>3, <2>5 DEF Typed
<1>6. Searching'
  BY <1>1, <1>4, <1>5 DEF Searching, search
<1>7. Typed'
  <2>1. at' \in 1..(Len(items') + 1)
    BY <1>1, <1>4
  <2> QED
    BY <1>1, <1>2, <1>4, <2>1 DEF Typed, search, resting
<1> QED
  BY <1>2, <1>3, <1>6, <1>7

(* Whether the i-th premise rests on an unsettled one.                      *)
Open(i) == \E n \in Basis(items[i].name, Names) : Unsettled(n)

(* DerivedRestsOnOpen with an equivalence for the equality of truth values. *)
LEMMA DerivedIsOpen ==
    DerivedRestsOnOpen <=>
        \A i \in 1..Len(part) : part[i] \in {"derived", "settled"} => (part[i] = "derived" <=> Open(i))
<1>1. \A i : ((part[i] = "derived") = Open(i)) <=> (part[i] = "derived" <=> Open(i))
  <2> TAKE i
  <2>1. Open(i) \in BOOLEAN /\ (part[i] = "derived") \in BOOLEAN
    BY DEF Open
  <2>2. CASE Open(i)
    <3>1. Open(i) = TRUE
      BY <2>1, <2>2
    <3> QED
      BY <2>1, <2>2, <3>1
  <2>3. CASE ~Open(i)
    <3>1. Open(i) = FALSE
      BY <2>1, <2>3
    <3> QED
      BY <2>1, <2>3, <3>1
  <2> QED
    BY <2>2, <2>3
<1>2. DerivedRestsOnOpen <=>
        \A i \in 1..Len(part) : part[i] \in {"derived", "settled"} => ((part[i] = "derived") = Open(i))
  BY DEF DerivedRestsOnOpen, Open
<1> QED
  BY <1>1, <1>2

(* A premise goes into the part it belongs to.                              *)
LEMMA StepPut ==
    ASSUME IInv, pc \in {"classify", "rest"}, at <= Len(items), NEW w \in Parts,
           part' = Append(part, w), at' = at + 1, pc' = "classify",
           UNCHANGED <<items, search, overall>>, frontier' \in Seq(Name), seen' \subseteq Names,
           w = "cyclic" <=> items[at].name \in onCycle,
           w = "root" <=> items[at].name \notin onCycle /\ items[at].status \notin Settled,
           w \in {"derived", "settled"} => (w = "derived" <=> Open(at))
    PROVE  IInv'
<1> USE DEF IInv
<1>1. /\ Len(items) \in Nat /\ at \in 1..Len(items) /\ part \in Seq(Parts) /\ Len(part) = at - 1
      /\ pc # "search" /\ pc # "returned"
  BY Looked DEF Typed, Sorted
<1>2. /\ part' \in Seq(Parts) /\ Len(part') = at /\ part'[at] = w
      /\ \A i \in 1..(at - 1) : part'[i] = part[i]
  <2>1. at - 1 + 1 = at
    BY <1>1
  <2> QED
    BY <1>1, <2>1, AppendProperties
<1>3. /\ IsList(items)' /\ Names' = Names /\ Frames' = Frames
      /\ \A n : Unsettled(n)' <=> Unsettled(n)
      /\ \A m : Basis(m, Names)' = Basis(m, Names)
  BY ListStays DEF Typed
<1>4. colour' = colour /\ stack' = stack /\ path' = path /\ onCycle' = onCycle
  BY DEF search
<1>5. Stacked' /\ Followed' /\ Unlooped'
  BY SearchStays DEF Typed
<1>6. Typed'
  <2>1. at' \in 1..(Len(items) + 1)
    BY <1>1
  <2> QED
    BY <1>2, <1>3, <1>4, <2>1 DEF Typed
<1>7. Searching'
  BY <1>1, <1>3, <1>4 DEF Searching
<1>8. \A i \in 1..at : i \in 1..(at - 1) \/ i = at
  BY <1>1
<1>9. DerivedRestsOnOpen'
  <2>1. \A i : Open(i)' <=> Open(i)
    BY <1>3 DEF Open
  <2>2. \A i \in 1..(at - 1) : part[i] \in {"derived", "settled"} => (part[i] = "derived" <=> Open(i))
    BY <1>1, DerivedIsOpen DEF Sorted
  <2>3. \A i \in 1..at : part'[i] \in {"derived", "settled"} => (part'[i] = "derived" <=> Open(i)')
    BY <1>2, <1>8, <2>1, <2>2
  <2>4. (\A i \in 1..Len(part) : part[i] \in {"derived", "settled"} =>
            (part[i] = "derived" <=> Open(i)))'
    BY <1>2, <2>3
  <2> QED
    BY <2>4, DerivedIsOpen, PTL
<1>10. \A i \in 1..at : /\ part'[i] = "cyclic" <=> items[i].name \in onCycle
                        /\ part'[i] = "root" <=> items[i].name \notin onCycle
                                                /\ items[i].status \notin Settled
  <2>1. \A i \in 1..(at - 1) : /\ part[i] = "cyclic" <=> items[i].name \in onCycle
                               /\ part[i] = "root" <=> items[i].name \notin onCycle
                                                       /\ items[i].status \notin Settled
    BY <1>1 DEF Sorted
  <2> QED
    BY <1>2, <1>8, <2>1
<1>11. Sorted'
  <2>1. Len(part') = at' - 1
    BY <1>1, <1>2
  <2> QED
    BY <1>2, <1>4, <1>9, <1>10, <2>1 DEF Sorted
<1>12. Rested'
  BY DEF Rested
<1> QED
  BY <1>5, <1>6, <1>7, <1>11, <1>12

(* A premise on a cycle, and one that is unsettled on its own.              *)
LEMMA StepPutOwn ==
    ASSUME IInv, PutCyclic \/ PutRoot
    PROVE  IInv'
<1>1. frontier \in Seq(Name) /\ seen \subseteq Names
  BY DEF IInv, Typed
<1>2. /\ pc = "classify" /\ at <= Len(items) /\ pc' = pc
      /\ UNCHANGED <<items, search, overall>> /\ frontier' = frontier /\ seen' = seen
      /\ at' = at + 1
  BY DEF PutCyclic, PutRoot, Classifying, Put, resting
<1>3. CASE PutCyclic
  <2>1. part' = Append(part, "cyclic") /\ items[at].name \in onCycle
    BY <1>3 DEF PutCyclic, Put
  <2>2. "cyclic" \in Parts
    BY DEF Parts
  <2> QED
    BY <1>1, <1>2, <2>1, <2>2, StepPut
<1>4. CASE PutRoot
  <2>1. /\ part' = Append(part, "root") /\ items[at].name \notin onCycle
        /\ items[at].status \notin Settled
    BY <1>4 DEF PutRoot, Put
  <2>2. "root" \in Parts
    BY DEF Parts
  <2> QED
    BY <1>1, <1>2, <2>1, <2>2, StepPut
<1> QED
  BY <1>3, <1>4

(* A premise that is settled in itself goes by what it rests on: derived at *)
(* the first unsettled premise met, settled when all of it has been seen.   *)
LEMMA StepPutRested ==
    ASSUME IInv, PutDerived \/ PutSettled
    PROVE  IInv'
<1> DEFINE m == items[at].name
<1>1. /\ pc = "rest" /\ pc' = "classify" /\ at' = at + 1 /\ seen' = {} /\ frontier' = <<>>
      /\ UNCHANGED <<items, search, overall>>
  BY DEF PutDerived, PutSettled, Resting, Put
<1>2. /\ at <= Len(items) /\ m \notin onCycle /\ items[at].status \in Settled
      /\ frontier' \in Seq(Name) /\ seen' \subseteq Names
  <2>1. <<>> \in Seq(Name)
    OBVIOUS
  <2> QED
    BY <1>1, <2>1 DEF IInv, Sorted
<1>3. /\ (Waiting \cap Names) \cup seen \subseteq Basis(m, Names)
      /\ \A n \in seen : ~Unsettled(n)
      /\ \A n \in Names : RestsOn(m, n) \/ (\E b \in seen : RestsOn(b, n)) => n \in seen \cup Waiting
  BY <1>1 DEF IInv, Rested
<1>4. CASE PutDerived
  <2>1. /\ frontier # <<>> /\ Last \in Names /\ Unsettled(Last) /\ part' = Append(part, "derived")
    BY <1>4 DEF PutDerived, Resting, Known, Put
  <2>2. Last \in Waiting
    <3>1. Len(frontier) \in Nat \ {0}
      BY <2>1, FrontProperties DEF IInv, Typed
    <3> QED
      BY <3>1 DEF Last, Waiting
  <2>3. Open(at)
    BY <1>3, <2>1, <2>2 DEF Open
  <2>4. "derived" \in Parts
    BY DEF Parts
  <2> HIDE DEF m
  <2> QED
    BY <1>1, <1>2, <2>1, <2>3, <2>4, StepPut DEF m
<1>5. CASE PutSettled
  <2>1. frontier = <<>> /\ part' = Append(part, "settled")
    BY <1>5 DEF PutSettled, Put
  <2>2. Waiting = {}
    BY <2>1 DEF Waiting
  <2>3. Basis(m, Names) \subseteq seen
    <3>1. IsList(items)
      BY DEF IInv, Typed
    <3>2. /\ \A n \in Names : RestsOn(m, n) => n \in seen
          /\ \A b \in seen \cap Names, n \in Names : RestsOn(b, n) => n \in seen
      BY <1>3, <2>2
    <3> HIDE DEF m
    <3> QED
      BY <3>1, <3>2, BasisProperties
  <2>4. ~Open(at)
    BY <1>3, <2>3 DEF Open
  <2>5. "settled" \in Parts
    BY DEF Parts
  <2> HIDE DEF m
  <2> QED
    BY <1>1, <1>2, <2>1, <2>4, <2>5, StepPut DEF m
<1> QED
  BY <1>4, <1>5

(* Following what a premise rests on changes frontier and seen only.        *)
LEMMA StepResting ==
    ASSUME IInv, pc \in {"classify", "rest"}, pc' = "rest", at <= Len(items),
           UNCHANGED <<items, at, search, part, overall>>,
           items[at].name \notin onCycle, items[at].status \in Settled,
           frontier' \in Seq(Name), seen' \subseteq Names, Rested'
    PROVE  IInv'
<1> USE DEF IInv
<1>1. /\ IsList(items)' /\ Names' = Names /\ Frames' = Frames
      /\ \A n : Unsettled(n)' <=> Unsettled(n)
      /\ \A m : Basis(m, Names)' = Basis(m, Names)
  BY ListStays DEF Typed
<1>2. colour' = colour /\ stack' = stack /\ path' = path /\ onCycle' = onCycle
  BY DEF search
<1>3. Stacked' /\ Followed' /\ Unlooped'
  BY SearchStays DEF Typed
<1>4. Typed'
  BY <1>1, <1>2 DEF Typed
<1>5. Searching'
  BY <1>1, <1>2 DEF Searching
<1>6. DerivedRestsOnOpen'
  <2>1. \A i : Open(i)' <=> Open(i)
    BY <1>1 DEF Open
  <2>2. \A i \in 1..Len(part) : part[i] \in {"derived", "settled"} => (part[i] = "derived" <=> Open(i))
    BY DerivedIsOpen DEF Sorted
  <2>3. (\A i \in 1..Len(part) : part[i] \in {"derived", "settled"} =>
            (part[i] = "derived" <=> Open(i)))'
    BY <2>1, <2>2
  <2> QED
    BY <2>3, DerivedIsOpen, PTL
<1>7. Sorted'
  BY <1>2, <1>6 DEF Sorted
<1> QED
  BY <1>3, <1>4, <1>5, <1>7

(* The frontier is its last element and what is in front of it.             *)
LEMMA WaitingProperties ==
    ASSUME frontier \in Seq(Name), frontier # <<>>
    PROVE  /\ Front(frontier) \in Seq(Name)
           /\ Waiting = {Front(frontier)[j] : j \in 1..Len(Front(frontier))} \cup {Last}
<1>1. PICK L : L = Len(frontier)
  OBVIOUS
<1>2. /\ Front(frontier) \in Seq(Name) /\ Len(Front(frontier)) = L - 1 /\ L \in Nat \ {0}
      /\ \A j \in 1..(L - 1) : Front(frontier)[j] = frontier[j]
  BY <1>1, FrontProperties
<1>3. /\ \A j \in 1..L : j \in 1..(L - 1) \/ j = L
      /\ \A j \in 1..(L - 1) : j \in 1..L
      /\ L \in 1..L
  BY <1>2
<1>4. Last = frontier[L]
  BY <1>1 DEF Last
<1>5. \A x : x \in Waiting <=> \E j \in 1..L : x = frontier[j]
  BY <1>1 DEF Waiting
<1> DEFINE W == {Front(frontier)[j] : j \in 1..Len(Front(frontier))} \cup {Last}
<1>6. \A x : x \in W <=> (\E j \in 1..(L - 1) : x = frontier[j]) \/ x = frontier[L]
  BY <1>2, <1>4
<1>7. \A x : x \in Waiting <=> x \in W
  <2> HIDE DEF W
  <2> QED
    BY <1>3, <1>5, <1>6
<1>8. Waiting = W
  <2> HIDE DEF W
  <2> QED
    BY <1>7
<1> QED
  BY <1>2, <1>8

(* What a premise rests on is first what it names itself.                   *)
LEMMA StepAskRest ==
    ASSUME IInv, AskRest
    PROVE  IInv'
<1> DEFINE m == items[at].name
<1>1. /\ pc = "classify" /\ pc' = "rest" /\ at <= Len(items) /\ m \notin onCycle
      /\ items[at].status \in Settled
      /\ UNCHANGED <<items, at, search, part, overall>>
      /\ frontier' = ByName(m).deps /\ seen' = {}
  BY DEF AskRest, Classifying
<1>2. IsList(items) /\ m \in Names
  BY <1>1, Looked DEF IInv, Typed
<1>3. ByName(m).deps \in Seq(Name)
  BY <1>2, Looked
<1>4. \A n \in Names : RestsOn(m, n) <=> n \in Waiting'
  <2>1. Waiting' = {ByName(m).deps[j] : j \in 1..Len(ByName(m).deps)}
    BY <1>1 DEF Waiting
  <2> QED
    BY <2>1 DEF RestsOn
<1>5. \A n \in Names : RestsOn(m, n) => n \in Basis(m, Names)
  <2> HIDE DEF m
  <2> QED
    BY <1>2, BasisProperties
<1>6. /\ Names' = Names /\ \A a, b : RestsOn(a, b)' <=> RestsOn(a, b)
      /\ \A a : Basis(a, Names)' = Basis(a, Names)
  BY <1>1, <1>2, ListStays
<1>7. Rested'
  <2>1. items'[at'].name = m
    BY <1>1
  <2>2. (Waiting' \cap Names) \cup seen' \subseteq Basis(m, Names)
    BY <1>1, <1>4, <1>5
  <2>3. \A n \in Names : RestsOn(m, n) \/ (\E b \in seen' : RestsOn(b, n)) => n \in seen' \cup Waiting'
    BY <1>1, <1>4
  <2>4. \A n \in seen' : ~Unsettled(n)'
    BY <1>1
  <2> HIDE DEF m
  <2> QED
    BY <1>1, <1>6, <2>1, <2>2, <2>3, <2>4 DEF Rested
<1>8. frontier' \in Seq(Name) /\ seen' \subseteq Names
  BY <1>1, <1>3
<1> QED
  BY <1>1, <1>7, <1>8, StepResting

(* A dependency already seen, or one that names no premise, adds nothing; a *)
(* settled one is seen, and what it rests on is looked at in turn.          *)
LEMMA StepFollow ==
    ASSUME IInv, DropDep \/ RestFurther
    PROVE  IInv'
<1> DEFINE m == items[at].name
           F == {Front(frontier)[j] : j \in 1..Len(Front(frontier))}
<1>1. /\ pc = "rest" /\ pc' = "rest" /\ frontier # <<>>
      /\ UNCHANGED <<items, at, search, part, overall>>
  BY DEF DropDep, RestFurther, Resting
<1>2. /\ IsList(items) /\ frontier \in Seq(Name) /\ seen \subseteq Names
      /\ at <= Len(items) /\ m \notin onCycle /\ items[at].status \in Settled
  BY <1>1 DEF IInv, Typed, Sorted
<1>3. /\ (Waiting \cap Names) \cup seen \subseteq Basis(m, Names)
      /\ \A n \in seen : ~Unsettled(n)
      /\ \A n \in Names : RestsOn(m, n) \/ (\E b \in seen : RestsOn(b, n)) => n \in seen \cup Waiting
  BY <1>1 DEF IInv, Rested
<1>4. Front(frontier) \in Seq(Name) /\ Waiting = F \cup {Last}
  BY <1>1, <1>2, WaitingProperties
<1>5. /\ Names' = Names /\ \A a, b : RestsOn(a, b)' <=> RestsOn(a, b)
      /\ \A a : Basis(a, Names)' = Basis(a, Names)
      /\ \A n : Unsettled(n)' <=> Unsettled(n)
  BY <1>1, <1>2, ListStays
<1>6. items'[at'].name = m
  BY <1>1
<1> HIDE DEF m
<1>7. ASSUME frontier' \in Seq(Name), seen' \subseteq Names,
             (Waiting' \cap Names) \cup seen' \subseteq Basis(m, Names),
             \A n \in seen' : ~Unsettled(n),
             \A n \in Names : RestsOn(m, n) \/ (\E b \in seen' : RestsOn(b, n)) =>
                 n \in seen' \cup Waiting'
      PROVE  IInv'
  <2>1. Rested'
    BY <1>5, <1>6, <1>7 DEF Rested
  <2> QED
    BY <1>1, <1>2, <1>7, <2>1, StepResting DEF m
<1>8. CASE DropDep
  <2>1. frontier' = Front(frontier) /\ seen' = seen /\ (Last \in seen \/ Last \notin Names)
    BY <1>8 DEF DropDep, Known
  <2>2. Waiting' = F
    BY <2>1 DEF Waiting
  <2> HIDE DEF F
  <2>3. (Waiting' \cap Names) \cup seen' \subseteq Basis(m, Names)
    BY <1>3, <1>4, <2>1, <2>2
  <2>4. \A n \in Names : n \in seen \cup Waiting => n \in seen' \cup Waiting'
    BY <1>4, <2>1, <2>2
  <2> QED
    BY <1>2, <1>3, <1>4, <1>7, <2>1, <2>3, <2>4
<1>9. CASE RestFurther
  <2> DEFINE d == ByName(Last).deps
             D == {d[j] : j \in 1..Len(d)}
  <2>1. /\ frontier' = Front(frontier) \o d /\ seen' = seen \cup {Last}
        /\ Last \in Names /\ ~Unsettled(Last)
    BY <1>9 DEF RestFurther, Known
  <2>2. d \in Seq(Name)
    BY <1>2, <2>1, Looked
  <2>3. \A n \in Names : RestsOn(Last, n) <=> n \in D
    BY DEF RestsOn
  <2>4. frontier' \in Seq(Name) /\ Waiting' = F \cup D
    <3>1. PICK f : f = Front(frontier)
      OBVIOUS
    <3> HIDE DEF d
    <3>2. /\ f \in Seq(Name) /\ f \o d \in Seq(Name) /\ Len(f \o d) = Len(f) + Len(d)
          /\ Len(f) \in Nat /\ Len(d) \in Nat
          /\ \A j \in 1..(Len(f) + Len(d)) : (f \o d)[j] = IF j <= Len(f) THEN f[j] ELSE d[j - Len(f)]
      BY <1>4, <2>2, <3>1, ConcatProperties, LenProperties
    <3>3. \A x \in Waiting' : x \in F \cup D
      <4> TAKE x \in Waiting'
      <4>1. PICK j \in 1..(Len(f) + Len(d)) : x = (f \o d)[j]
        BY <2>1, <3>1, <3>2 DEF Waiting
      <4>2. CASE j <= Len(f)
        <5>1. j \in 1..Len(f) /\ x = f[j]
          BY <3>2, <4>1, <4>2
        <5> QED
          BY <3>1, <5>1
      <4>3. CASE ~(j <= Len(f))
        <5>1. j - Len(f) \in 1..Len(d) /\ x = d[j - Len(f)]
          BY <3>2, <4>1, <4>3
        <5> QED
          BY <5>1
      <4> QED
        BY <4>2, <4>3
    <3>4. \A j \in 1..Len(f) : f[j] \in Waiting'
      <4> TAKE j \in 1..Len(f)
      <4>1. j \in 1..(Len(f) + Len(d)) /\ (f \o d)[j] = f[j]
        BY <3>2
      <4> QED
        BY <2>1, <3>1, <3>2, <4>1 DEF Waiting
    <3>5. \A j \in 1..Len(d) : d[j] \in Waiting'
      <4> TAKE j \in 1..Len(d)
      <4>1. PICK k : k = Len(f) + j
        OBVIOUS
      <4>2. k \in 1..(Len(f) + Len(d)) /\ ~(k <= Len(f)) /\ k - Len(f) = j
        BY <3>2, <4>1
      <4>3. (f \o d)[k] = d[j]
        BY <3>2, <4>2
      <4> QED
        BY <2>1, <3>1, <3>2, <4>2, <4>3 DEF Waiting
    <3>6. F \cup D \subseteq Waiting'
      BY <3>1, <3>4, <3>5
    <3> HIDE DEF F, D
    <3> QED
      BY <2>1, <3>1, <3>2, <3>3, <3>6
  <2>5. Last \in Basis(m, Names)
    BY <1>3, <1>4, <2>1
  <2>6. D \cap Names \subseteq Basis(m, Names)
    <3> HIDE DEF D
    <3>1. \A b \in Basis(m, Names), n \in Names : RestsOn(b, n) => n \in Basis(m, Names)
      BY <1>2, BasisProperties
    <3> QED
      BY <2>3, <2>5, <3>1
  <2> HIDE DEF F, D
  <2>7. (Waiting' \cap Names) \cup seen' \subseteq Basis(m, Names)
    BY <1>3, <1>4, <2>1, <2>4, <2>5, <2>6
  <2>8. ASSUME NEW n \in Names, RestsOn(m, n) \/ \E b \in seen' : RestsOn(b, n)
        PROVE  n \in seen' \cup Waiting'
    <3>1. CASE RestsOn(Last, n)
      BY <2>3, <2>4, <3>1
    <3>2. CASE ~RestsOn(Last, n)
      <4>1. n \in seen \cup Waiting
        BY <1>3, <2>1, <2>8, <3>2
      <4> QED
        BY <1>4, <2>1, <2>4, <4>1
    <3> QED
      BY <3>1, <3>2
  <2>9. seen' \subseteq Names /\ \A n \in seen' : ~Unsettled(n)
    BY <1>2, <1>3, <2>1
  <2> QED
    BY <1>7, <2>4, <2>7, <2>8, <2>9
<1> QED
  BY <1>8, <1>9

(* At the end every premise has its part, and the fold is recorded.         *)
LEMMA StepReturn ==
    ASSUME IInv, Return
    PROVE  IInv'
<1> USE DEF IInv
<1>1. /\ pc = "classify" /\ at > Len(items) /\ pc' = "returned" /\ overall' = Fold
      /\ UNCHANGED <<items, at, search, resting, part>>
  BY DEF Return
<1>2. /\ IsList(items)' /\ Names' = Names /\ Frames' = Frames /\ Fold' = Fold
      /\ \A n : Unsettled(n)' <=> Unsettled(n)
      /\ \A m : Basis(m, Names)' = Basis(m, Names)
  BY <1>1, ListStays DEF Typed
<1>3. /\ colour' = colour /\ stack' = stack /\ path' = path /\ onCycle' = onCycle
      /\ frontier' = frontier /\ seen' = seen
  BY <1>1 DEF search, resting
<1>4. Stacked' /\ Followed' /\ Unlooped'
  BY <1>1, SearchStays DEF Typed
<1>5. Typed'
  BY <1>1, <1>2, <1>3 DEF Typed
<1>6. Searching'
  BY <1>1, <1>2, <1>3 DEF Searching
<1>7. DerivedRestsOnOpen'
  <2>1. \A i : Open(i)' <=> Open(i)
    BY <1>1, <1>2 DEF Open
  <2>2. \A i \in 1..Len(part) : part[i] \in {"derived", "settled"} => (part[i] = "derived" <=> Open(i))
    BY DerivedIsOpen DEF Sorted
  <2>3. (\A i \in 1..Len(part) : part[i] \in {"derived", "settled"} =>
            (part[i] = "derived" <=> Open(i)))'
    BY <1>1, <2>1, <2>2
  <2> QED
    BY <2>3, DerivedIsOpen, PTL
<1>8. Sorted'
  <2>1. Len(part) = Len(items)
    BY <1>1, Looked DEF Typed, Sorted
  <2> QED
    BY <1>1, <1>2, <1>3, <1>7, <2>1 DEF Sorted
<1>9. Rested'
  BY <1>1 DEF Rested
<1> QED
  BY <1>4, <1>5, <1>6, <1>8, <1>9

(* Before the search nothing is reached, reported or sorted.                *)
LEMMA InitEstablishes ==
    ASSUME Init
    PROVE  IInv
<1>1. /\ IsList(items) /\ pc = "search" /\ at = 1 /\ colour = [n \in Names |-> "white"]
      /\ stack = <<>> /\ path = <<>> /\ onCycle = {} /\ frontier = <<>> /\ seen = {} /\ part = <<>>
  BY ListsAssumption DEF Init
<1>2. Len(items) \in Nat
  BY <1>1, Looked
<1>3. Typed
  <2>1. <<>> \in Seq(Frames) /\ <<>> \in Seq(Names) /\ <<>> \in Seq(Name) /\ <<>> \in Seq(Parts)
    OBVIOUS
  <2> QED
    BY <1>1, <1>2, <2>1 DEF Typed
<1>4. Len(stack) = 0 /\ Len(path) = 0 /\ Len(part) = 0
  BY <1>1
<1>5. \A n \in Names : colour[n] = "white"
  BY <1>1
<1>6. Stacked /\ Followed
  BY <1>4, <1>5 DEF Stacked, Followed
<1>7. Searching
  BY <1>1 DEF Searching
<1>8. Unlooped
  <2>1. Finished = {}
    BY <1>5 DEF Finished
  <2> QED
    BY <1>1, <2>1 DEF Unlooped
<1>9. Sorted /\ Rested
  <2>1. \A i \in 1..Len(part) : FALSE
    BY <1>4
  <2>2. DerivedRestsOnOpen
    BY <2>1 DEF DerivedRestsOnOpen
  <2> QED
    BY <1>1, <1>4, <2>1, <2>2 DEF Sorted, Rested
<1> QED
  BY <1>3, <1>6, <1>7, <1>8, <1>9 DEF IInv

(* A step that changes nothing keeps the invariant.                         *)
LEMMA StutterKeeps ==
    ASSUME IInv, UNCHANGED vars
    PROVE  IInv'
<1>1. UNCHANGED <<items, pc, at, search, resting, part, overall>>
  BY DEF vars
<1>2. /\ colour' = colour /\ stack' = stack /\ path' = path /\ onCycle' = onCycle
      /\ frontier' = frontier /\ seen' = seen
  BY <1>1 DEF search, resting
<1> USE DEF IInv
<1>3. /\ IsList(items)' /\ Names' = Names /\ Frames' = Frames /\ Fold' = Fold
      /\ \A n : Unsettled(n)' <=> Unsettled(n)
      /\ \A m, n : RestsOn(m, n)' <=> RestsOn(m, n)
      /\ \A m : Basis(m, Names)' = Basis(m, Names)
  BY <1>1, ListStays DEF Typed
<1>4. Stacked' /\ Followed' /\ Unlooped'
  BY <1>1, SearchStays DEF Typed
<1>5. Typed'
  BY <1>1, <1>2, <1>3 DEF Typed
<1>6. Searching'
  BY <1>1, <1>2, <1>3 DEF Searching
<1>7. DerivedRestsOnOpen'
  BY <1>1, <1>3 DEF Sorted, DerivedRestsOnOpen
<1>8. Sorted'
  BY <1>1, <1>2, <1>3, <1>7 DEF Sorted
<1>9. Rested'
  <2>1. Waiting' = Waiting
    BY <1>2 DEF Waiting
  <2> QED
    BY <1>1, <1>2, <1>3, <2>1 DEF Rested
<1> QED
  BY <1>4, <1>5, <1>6, <1>8, <1>9

(* The invariant holds in every state.                                      *)
THEOREM Invariance == Spec => []IInv
<1>1. Init => IInv
  BY InitEstablishes
<1>2. IInv /\ [Next]_vars => IInv'
  <2> SUFFICES ASSUME IInv, [Next]_vars PROVE IInv'
    OBVIOUS
  <2>1. CASE Start \/ Pass \/ CloseCycle \/ Descend \/ Finish
    BY <2>1, StepSearch
  <2>2. CASE Searched
    BY <2>2, StepSearched
  <2>3. CASE PutCyclic \/ PutRoot
    BY <2>3, StepPutOwn
  <2>4. CASE PutDerived \/ PutSettled
    BY <2>4, StepPutRested
  <2>5. CASE AskRest
    BY <2>5, StepAskRest
  <2>6. CASE DropDep \/ RestFurther
    BY <2>6, StepFollow
  <2>7. CASE Return
    BY <2>7, StepReturn
  <2>8. CASE UNCHANGED vars
    BY <2>8, StutterKeeps
  <2> QED
    BY <2>1, <2>2, <2>3, <2>4, <2>5, <2>6, <2>7, <2>8 DEF Next
<1> QED
  BY <1>1, <1>2, PTL DEF Spec

-----------------------------------------------------------------------------
(* The properties.                                                          *)

(* root_causes: every premise reported as cyclic lies on a dependency cycle,*)
(* and among the premises left over no cycle remains.  A cycle the search   *)
(* had missed would be a set of finished premises each of which another of  *)
(* the set rests on.                                                        *)
THEOREM AlwaysCyclesAreBroken == Spec => []CyclesAreBroken
<1>1. IInv => CyclesAreBroken
  <2> SUFFICES ASSUME IInv, pc # "search"
               PROVE  /\ \A n \in onCycle : n \in Basis(n, Names)
                      /\ \A n \in Names \ onCycle : n \notin Basis(n, Names \ onCycle)
    BY DEF CyclesAreBroken
  <2>1. \A n \in onCycle : n \in Basis(n, Names)
    BY DEF IInv, Unlooped
  <2>2. ASSUME NEW n \in Names \ onCycle, n \in Basis(n, Names \ onCycle) PROVE FALSE
    <3> DEFINE S == Names \ onCycle
    <3>1. S = Finished
      BY DEF IInv, Searching, Finished
    <3>2. PICK k \in S : RestsOn(n, k) /\ n \in Closure(S, Dependence, k)
      BY <2>2 DEF Basis
    <3>3. IsFiniteSet(S)
      BY Looked, FS_Difference DEF IInv, Typed
    <3> DEFINE X == Closure(S, Dependence, k)
    <3> HIDE DEF S
    <3>4. k \in X /\ X \subseteq S /\ n \in X
      BY <3>2, <3>3, ClosureProperties
    <3>5. ASSUME NEW z \in X, z # k PROVE \E y \in X : <<y, z>> \in Dependence
      <4>1. z \in Closure(S, Dependence, k)
        OBVIOUS
      <4> HIDE DEF X
      <4>2. z \in S /\ \E y \in Closure(S, Dependence, k) : <<y, z>> \in Dependence
        BY <3>3, <3>5, <4>1, ClosureLastEdge
      <4> QED
        BY <4>2 DEF X
    <3> HIDE DEF X
    <3>6. PICK x \in X : \A y \in X : ~RestsOn(y, x)
      BY <3>1, <3>4 DEF IInv, Unlooped
    <3>7. x # k
      BY <3>2, <3>4, <3>6
    <3>8. PICK y \in X : <<y, x>> \in Dependence
      BY <3>5, <3>7
    <3> QED
      BY <3>6, <3>8 DEF Dependence
  <2> QED
    BY <2>1, <2>2
<1> QED
  BY <1>1, Invariance, PTL

(* root_causes: a premise that is settled and on no cycle is derived exactly*)
(* if it rests, at any remove, on one that is not settled; otherwise it is  *)
(* settled.                                                                 *)
THEOREM AlwaysDerivedRestsOnOpen == Spec => []DerivedRestsOnOpen
<1>1. IInv => DerivedRestsOnOpen
  BY DEF IInv, Sorted
<1> QED
  BY <1>1, Invariance, PTL

(* root_causes: the set is open exactly if some premise is a root, or is    *)
(* cyclic and unsettled on its own: sorting the premises decides nothing.   *)
THEOREM AlwaysOrdersTheFold == Spec => []OrdersTheFold
<1>1. IInv => OrdersTheFold
  <2> SUFFICES ASSUME IInv, pc = "returned"
               PROVE  (overall = "open") = \E i \in 1..Len(part) :
                          \/ part[i] = "root"
                          \/ part[i] = "cyclic" /\ items[i].status \notin Settled
    BY DEF OrdersTheFold
  <2>1. /\ Len(part) = Len(items) /\ overall = Fold
        /\ \A i \in 1..Len(part) :
             /\ part[i] = "cyclic" <=> items[i].name \in onCycle
             /\ part[i] = "root" <=> items[i].name \notin onCycle /\ items[i].status \notin Settled
    BY DEF IInv, Sorted
  <2>2. \A i \in 1..Len(part) : items[i].status \notin Settled <=>
            \/ part[i] = "root"
            \/ part[i] = "cyclic" /\ items[i].status \notin Settled
    BY <2>1
  <2>3. CASE \E i \in 1..Len(part) : items[i].status \notin Settled
    <3>1. overall = "open"
      BY <2>1, <2>3 DEF Fold
    <3> QED
      BY <2>2, <2>3, <3>1
  <2>4. CASE ~ \E i \in 1..Len(part) : items[i].status \notin Settled
    <3>1. overall # "open"
      BY <2>1, <2>4 DEF Fold
    <3> QED
      BY <2>2, <2>4, <3>1
  <2> QED
    BY <2>3, <2>4
<1> QED
  BY <1>1, Invariance, PTL
=================================================================================
