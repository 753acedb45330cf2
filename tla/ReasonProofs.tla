----------------------------- MODULE ReasonProofs -----------------------------
(***************************************************************************)
(* Proofs about the Loomground route (Reason): all eight of its safety      *)
(* properties, for every patch, batch and risk table. The invariant follows *)
(* the batch through its two passes: the lists of governed and declared     *)
(* tokens by position (Aligned), the worklist (Walked), the log it writes   *)
(* (Logged) and the partitions (Answered). That a worklist computes the     *)
(* strictest verdict along every path is a fact about graphs without a      *)
(* cycle (JoinedAlongPaths), and that a release is mediated by every gate   *)
(* one about terminals: every gate that is reached leads to one             *)
(* (TerminalsSpeakForAll).                                                  *)
(***************************************************************************)
EXTENDS Reason, OperatorProofs, SequenceTheorems

-----------------------------------------------------------------------------
(* The ladder of verdicts.                                                  *)

(* The five verdicts, ranked from auto, the least, to prohibited.           *)
LEMMA RankOf ==
    /\ Verdict = {"auto", "human", "refused", "reserved", "prohibited"}
    /\ \A v \in Verdict : Rank(v) \in 1..5 /\ Verdicts[Rank(v)] = v
    /\ \A v, w \in Verdict : Rank(v) = Rank(w) => v = w
    /\ \A v \in Verdict : Rank(v) <= Rank("auto") => v = "auto"
<1>1. Verdict = {"auto", "human", "refused", "reserved", "prohibited"}
  BY DEF Verdict, Verdicts
<1>2. \A v \in Verdict : Rank(v) \in 1..5 /\ Verdicts[Rank(v)] = v
  BY DEF Verdict, Rank
<1>3. "auto" \in Verdict
  BY <1>1
<1>4. Rank("auto") = 1
  <2>1. Verdicts[1] = "auto" /\ \A i \in 2..5 : Verdicts[i] # "auto"
    BY DEF Verdicts
  <2> QED
    BY <1>2, <1>3, <2>1
<1>5. Verdicts[1] = "auto"
  BY DEF Verdicts
<1>6. \A v \in Verdict : Rank(v) <= Rank("auto") => v = "auto"
  BY <1>2, <1>4, <1>5
<1> QED
  BY <1>1, <1>2, <1>6

(* The strictest of some verdicts is one of them and above them all, and no *)
(* other is.                                                                *)
LEMMA StrictestOf ==
    ASSUME NEW V \in SUBSET Verdict, V # {}
    PROVE  /\ Strictest(V) \in V
           /\ \A w \in V : Rank(w) <= Rank(Strictest(V))
           /\ \A v \in V : (\A w \in V : Rank(w) <= Rank(v)) => v = Strictest(V)
<1> DEFINE Slack(v) == 5 - Rank(v)
           N == {Slack(v) : v \in V}
<1>1. \A v \in V : Rank(v) \in 1..5
  BY RankOf
<1>2. PICK n \in N : \A m \in N : n <= m
  <2>1. N \in SUBSET Nat /\ N # {}
    BY <1>1
  <2> HIDE DEF N
  <2> QED
    BY <2>1, SmallestNat
<1>3. PICK v \in V : n = Slack(v)
  BY <1>2
<1>4. \A w \in V : Rank(w) <= Rank(v)
  BY <1>1, <1>2, <1>3
<1>5. Strictest(V) \in V /\ \A w \in V : Rank(w) <= Rank(Strictest(V))
  BY <1>4 DEF Strictest
<1>6. ASSUME NEW u \in V, \A w \in V : Rank(w) <= Rank(u) PROVE u = Strictest(V)
  <2>1. Rank(u) = Rank(Strictest(V))
    BY <1>1, <1>5, <1>6
  <2> QED
    BY <1>5, <2>1, RankOf
<1> QED
  BY <1>5, <1>6

(* A gate says a verdict, also when the grade at the source is too low.     *)
LEMMA GradedIsVerdict ==
    ASSUME NEW p, NEW g, NEW act
    PROVE  GradedVerdict(p, g, act) \in Verdict
BY RankOf DEF GradedVerdict, OwnVerdict

-----------------------------------------------------------------------------
(* Reach.                                                                   *)

(* The reach of a gate: the least set that holds it and follows the pipes.  *)
LEMMA ReachProperties ==
    ASSUME NEW p, p.pipes \in SUBSET (Gate \X Gate), NEW g \in Gate
    PROVE  /\ g \in Reach(p, g) /\ Reach(p, g) \subseteq Gate /\ IsFiniteSet(Reach(p, g))
           /\ \A a \in Reach(p, g), b \in Gate : <<a, b>> \in p.pipes => b \in Reach(p, g)
           /\ \A h \in Reach(p, g) : Reach(p, h) \subseteq Reach(p, g)
           /\ \A h \in Reach(p, g) : h # g => \E a \in Reach(p, g) : <<a, h>> \in p.pipes
           /\ \A T : g \in T /\ (\A a \in T, b \in Gate : <<a, b>> \in p.pipes => b \in T)
                => Reach(p, g) \subseteq T
<1>1. IsFiniteSet(Gate)
  BY GraphAssumption
<1>2. g \in Reach(p, g) /\ Reach(p, g) \subseteq Gate
  BY <1>1, ClosureProperties DEF Reach
<1>3. IsFiniteSet(Reach(p, g))
  BY <1>1, <1>2, FS_Subset
<1>4. \A a \in Reach(p, g), b \in Gate : <<a, b>> \in p.pipes => b \in Reach(p, g)
  BY <1>1, ClosureProperties DEF Reach
<1>5. \A h \in Reach(p, g) : Reach(p, h) \subseteq Reach(p, g)
  BY <1>1, ClosureTransitive DEF Reach
<1>6. \A h \in Reach(p, g) : h # g => \E a \in Reach(p, g) : <<a, h>> \in p.pipes
  BY <1>1, ClosureLastEdge DEF Reach
<1>7. ASSUME NEW T, g \in T, \A a \in T, b \in Gate : <<a, b>> \in p.pipes => b \in T
      PROVE  Reach(p, g) \subseteq T
  <2>1. Closure(Gate, p.pipes, g) \subseteq T
    BY <1>1, <1>7, ClosureProperties
  <2> QED
    BY <2>1 DEF Reach
<1> QED
  BY <1>2, <1>3, <1>4, <1>5, <1>6, <1>7

(* In a well-formed patch every set of gates has one that none of the set   *)
(* feeds.                                                                   *)
LEMMA ValidHasSources ==
    ASSUME NEW p, IsPatch(p), Valid(p), NEW X \in SUBSET Gate, X # {}
    PROVE  \E x \in X : \A y \in X : <<y, x>> \notin p.pipes
<1>1. IsFiniteSet(Gate) /\ p.pipes \in SUBSET (Gate \X Gate) /\ Acyclic(Gate, p.pipes)
  BY GraphAssumption DEF IsPatch, Valid
<1> QED
  BY <1>1, AcyclicSource

-----------------------------------------------------------------------------
(* effective: strictest along every path.                                   *)

(* The gates on the way from src to g, and what they say.                   *)
OnTheWay(p, src, g) == {h \in Reach(p, src) : g \in Reach(p, h)}

Said(p, act, g) == {GradedVerdict(p, h, act) : h \in OnTheWay(p, act.src, g)}

(* What lies on the way to a gate is the gate and what lies on the way to   *)
(* those that feed it.                                                      *)
LEMMA WayThroughFeeders ==
    ASSUME NEW p, p.pipes \in SUBSET (Gate \X Gate), NEW src \in Gate,
           NEW g \in Reach(p, src)
    PROVE  OnTheWay(p, src, g) =
              {g} \cup UNION {OnTheWay(p, src, h) : h \in Preds(p, g) \cap Reach(p, src)}
<1> DEFINE R == Reach(p, src)
           Feeders == Preds(p, g) \cap R
<1>1. g \in Gate /\ R \subseteq Gate
  BY ReachProperties
<1>2. g \in OnTheWay(p, src, g)
  BY <1>1, ReachProperties DEF OnTheWay
<1>3. ASSUME NEW h \in Feeders, NEW k \in OnTheWay(p, src, h)
      PROVE  k \in OnTheWay(p, src, g)
  <2>1. k \in R /\ h \in Reach(p, k) /\ <<h, g>> \in p.pipes
    BY <1>3 DEF OnTheWay, Preds
  <2>2. g \in Reach(p, k)
    BY <1>1, <2>1, ReachProperties
  <2> QED
    BY <2>1, <2>2 DEF OnTheWay
<1>4. ASSUME NEW k \in OnTheWay(p, src, g), k # g
      PROVE  \E h \in Feeders : k \in OnTheWay(p, src, h)
  <2>1. k \in R /\ g \in Reach(p, k) /\ k \in Gate
    BY <1>1, <1>4 DEF OnTheWay
  <2>2. PICK h \in Reach(p, k) : <<h, g>> \in p.pipes
    BY <1>4, <2>1, ReachProperties
  <2>3. h \in R
    BY <2>1, ReachProperties
  <2>4. h \in Feeders
    BY <1>1, <2>2, <2>3 DEF Preds
  <2> QED
    BY <2>1, <2>4 DEF OnTheWay
<1> QED
  BY <1>2, <1>3, <1>4

(* What the code's recursion asks of the verdicts it computes.              *)
IsEffective(p, act, f) ==
    \A g \in Reach(p, act.src) :
        f[g] = Strictest({GradedVerdict(p, g, act)}
                         \cup {f[h] : h \in Preds(p, g) \cap Reach(p, act.src)})

(* It computes the strictest of what is said on the way.                    *)
LEMMA JoinedAlongPaths ==
    ASSUME NEW p, IsPatch(p), Valid(p), NEW act, act.src \in Gate,
           NEW f, IsEffective(p, act, f)
    PROVE  \A g \in Reach(p, act.src) : f[g] = Strictest(Said(p, act, g))
<1> DEFINE R == Reach(p, act.src)
           Bad == {g \in R : f[g] # Strictest(Said(p, act, g))}
<1>1. p.pipes \in SUBSET (Gate \X Gate)
  BY DEF IsPatch
<1>2. R \subseteq Gate
  BY <1>1, ReachProperties
<1> SUFFICES ASSUME Bad # {} PROVE FALSE
  OBVIOUS
<1>3. PICK g \in Bad : \A h \in Bad : <<h, g>> \notin p.pipes
  <2>1. Bad \in SUBSET Gate
    BY <1>2
  <2> HIDE DEF Bad
  <2> QED
    BY <2>1, ValidHasSources
<1> DEFINE Feeders == Preds(p, g) \cap R
           V == {GradedVerdict(p, g, act)} \cup {f[h] : h \in Feeders}
           W == Said(p, act, g)
<1>4. \A h \in Feeders : f[h] = Strictest(Said(p, act, h))
  BY <1>3 DEF Preds
<1>5. W = {GradedVerdict(p, g, act)} \cup UNION {Said(p, act, h) : h \in Feeders}
  BY <1>1, WayThroughFeeders DEF Said
<1>6. \A h \in R : Said(p, act, h) \in SUBSET Verdict /\ Said(p, act, h) # {}
  <2>1. \A h \in R : h \in OnTheWay(p, act.src, h)
    BY <1>1, <1>2, ReachProperties DEF OnTheWay
  <2> QED
    BY <2>1, GradedIsVerdict DEF Said
<1>7. g \in R /\ f[g] = Strictest(V)
  BY <1>3 DEF IsEffective
<1> HIDE DEF R, Bad, W
<1>8. \A h \in Feeders : /\ f[h] \in Said(p, act, h)
                         /\ \A w \in Said(p, act, h) : Rank(w) <= Rank(f[h])
  BY <1>4, <1>6, StrictestOf
<1>9. V \subseteq W /\ W \in SUBSET Verdict /\ W # {} /\ V # {}
  BY <1>5, <1>6, <1>7, <1>8 DEF W
<1> HIDE DEF Feeders
<1>10. f[g] \in V /\ \A v \in V : Rank(v) <= Rank(f[g])
  <2>1. V \in SUBSET Verdict /\ V # {}
    BY <1>9
  <2> HIDE DEF V
  <2> QED
    BY <1>7, <2>1, StrictestOf
<1>11. ASSUME NEW w \in W PROVE Rank(w) <= Rank(f[g])
  <2>1. CASE w = GradedVerdict(p, g, act)
    BY <1>10, <2>1
  <2>2. CASE w # GradedVerdict(p, g, act)
    <3>1. PICK h \in Feeders : w \in Said(p, act, h)
      BY <1>5, <2>2
    <3>2. Rank(w) <= Rank(f[h]) /\ f[h] \in V
      BY <1>8, <3>1
    <3>3. Rank(f[h]) <= Rank(f[g])
      BY <1>10, <3>2
    <3>4. Rank(w) \in Int /\ Rank(f[h]) \in Int /\ Rank(f[g]) \in Int
      <4>1. \A v \in Verdict : Rank(v) \in Int
        BY RankOf
      <4> HIDE DEF V, W
      <4> QED
        BY <1>9, <1>10, <3>2, <4>1
    <3> QED
      BY <3>2, <3>3, <3>4
  <2> QED
    BY <2>1, <2>2
<1>12. f[g] = Strictest(W)
  BY <1>9, <1>10, <1>11, StrictestOf
<1> QED
  BY <1>3, <1>12 DEF Bad, W

(* effective(g), which joins what flows in from the reached predecessors,   *)
(* is the strictest of what all gates on the way say. A pipe graph without  *)
(* a cycle is what makes the join well defined.                             *)
LEMMA EffectiveIsStrictest ==
    ASSUME IsPatch(patch), Valid(patch), Act.src \in Gate, reach = Reach(patch, Act.src)
    PROVE  \A g \in reach : Effective[g] = PathVerdict(ai, g)
<1> DEFINE f[g \in reach] == Strictest({GradedVerdict(patch, g, Act)}
                                       \cup {f[h] : h \in Preds(patch, g) \cap reach})
<1>1. \E e : e = [g \in reach |-> Strictest({GradedVerdict(patch, g, Act)}
                                            \cup {e[h] : h \in Preds(patch, g) \cap reach})]
  <2> DEFINE own == [g \in reach |-> GradedVerdict(patch, g, Act)]
             join == [V \in SUBSET Verdict |-> IF V = {} THEN "auto" ELSE Strictest(V)]
  <2>1. own \in [reach -> Verdict]
    BY GradedIsVerdict
  <2>2. join \in [SUBSET Verdict -> Verdict]
    BY StrictestOf, RankOf
  <2>3. patch.pipes \in SUBSET (Gate \X Gate)
    BY DEF IsPatch
  <2>4. reach \subseteq Gate /\ IsFiniteSet(reach)
    BY <2>3, ReachProperties
  <2>5. \A X \in SUBSET reach : X # {} => \E x \in X : \A y \in X : <<y, x>> \notin patch.pipes
    BY <2>4, ValidHasSources
  <2>6. PICK e \in [reach -> Verdict] : JoinsUp(reach, patch.pipes, own, join, e)
    <3> HIDE DEF own, join, f
    <3> QED
      BY <2>1, <2>2, <2>4, <2>5, RecursionOnGraph
  <2>7. ASSUME NEW g \in reach
        PROVE  e[g] = Strictest({GradedVerdict(patch, g, Act)}
                                \cup {e[h] : h \in Preds(patch, g) \cap reach})
    <3> DEFINE Up == {k \in reach : <<k, g>> \in patch.pipes}
               V == {own[g]} \cup {e[h] : h \in Up}
    <3>1. Up = Preds(patch, g) \cap reach
      BY <2>4 DEF Preds
    <3>2. V \in SUBSET Verdict /\ V # {}
      <4>1. own[g] \in Verdict
        BY <2>1, <2>7
      <4> HIDE DEF own
      <4>2. \A h \in Up : e[h] \in Verdict
        OBVIOUS
      <4> HIDE DEF Up
      <4> QED
        BY <4>1, <4>2
    <3>3. e[g] = Strictest(V)
      <4>1. e[g] = join[V]
        <5> HIDE DEF join, own
        <5> QED
          BY <2>6 DEF JoinsUp
      <4> HIDE DEF V
      <4> QED
        BY <3>2, <4>1
    <3> QED
      BY <3>1, <3>3
  <2>8. e = [g \in reach |-> Strictest({GradedVerdict(patch, g, Act)}
                                       \cup {e[h] : h \in Preds(patch, g) \cap reach})]
    BY <2>7
  <2> QED
    BY <2>8
<1>2. f = [g \in reach |-> Strictest({GradedVerdict(patch, g, Act)}
                                     \cup {f[h] : h \in Preds(patch, g) \cap reach})]
  BY <1>1
<1>3. Effective = f
  BY DEF Effective
<1> HIDE DEF f
<1>4. IsEffective(patch, Act, f)
  BY <1>2 DEF IsEffective
<1>5. \A g \in reach : f[g] = Strictest(Said(patch, Act, g))
  BY <1>4, JoinedAlongPaths
<1>6. \A g \in reach : PathVerdict(ai, g) = Strictest(Said(patch, Act, g))
  BY DEF PathVerdict, Path, Said, OnTheWay, Act
<1> QED
  BY <1>3, <1>5, <1>6

-----------------------------------------------------------------------------
(* Delegation: what holds of an actor and passes up every link holds of all *)
(* its principals.                                                          *)

(* Whatever holds of an actor and passes up every delegation holds of all   *)
(* its principals.                                                          *)
LEMMA PrincipalsInherit ==
    ASSUME IsPatch(patch), NEW a \in Actor, NEW T, a \in T,
           \A l \in Links(patch) : l[1] \in T => l[2] \in T
    PROVE  Principals(a) \subseteq T
<1>1. IsFiniteSet(Actor)
  BY GraphAssumption
<1>2. \A y \in T, z \in Actor : <<y, z>> \in Links(patch) => z \in T
  OBVIOUS
<1>3. Closure(Actor, Links(patch), a) \subseteq T
  BY <1>1, <1>2, ClosureProperties
<1> QED
  BY <1>3 DEF Principals

(* A grant that covers a kind at a risk is covered by grants of the         *)
(* delegator, wherever the patch attenuates.                                *)
LEMMA GrantsClimb ==
    ASSUME IsPatch(patch), Attenuates(patch), NEW l \in Links(patch),
           NEW g \in Gate, NEW kind \in Kind, NEW risk \in Risk,
           ByGrant(l[1], g, kind, risk)
    PROVE  ByGrant(l[2], g, kind, risk)
<1> DEFINE a == l[1]
           b == l[2]
<1>1. PICK r \in patch.grants :
          /\ r.actor = a /\ r.gate = g
          /\ \/ r.kinds = {}
             \/ kind \in r.kinds /\ (r.risks = {} \/ risk \in r.risks)
  BY DEF ByGrant, Authorized
<1>2. CASE r.kinds = {}
  <2>1. BareAt(patch, b, r.gate)
    BY <1>1, <1>2 DEF Attenuates
  <2>2. PICK q \in patch.grants : q.actor = b /\ q.gate = g /\ q.kinds = {}
    BY <1>1, <2>1 DEF BareAt
  <2> QED
    BY <2>2 DEF ByGrant, Authorized
<1>3. CASE r.kinds # {}
  <2>1. kind \in r.kinds /\ (r.risks = {} \/ risk \in r.risks)
    BY <1>1, <1>3
  <2>2. (IF r.risks = {} THEN Risk ELSE r.risks) \subseteq RiskSet(patch, b, g, kind)
    BY <1>1, <1>3, <2>1 DEF Attenuates
  <2>3. risk \in RiskSet(patch, b, g, kind)
    BY <2>1, <2>2
  <2>4. PICK q \in {q \in patch.grants : /\ q.actor = b /\ q.gate = g
                                         /\ q.kinds = {} \/ kind \in q.kinds} :
            risk \in IF q.kinds = {} \/ q.risks = {} THEN Risk ELSE q.risks
    BY <2>3 DEF RiskSet
  <2>5. /\ q \in patch.grants /\ q.actor = b /\ q.gate = g
        /\ \/ q.kinds = {}
           \/ kind \in q.kinds /\ (q.risks = {} \/ risk \in q.risks)
    BY <2>4
  <2> QED
    BY <2>5 DEF ByGrant, Authorized
<1> QED
  BY <1>2, <1>3

(* In a valid patch, a grant to an actor is a grant to all its principals.  *)
LEMMA DelegationInValid ==
    ASSUME IsPatch(patch), Valid(patch), NEW a \in Actor, NEW g \in Gate,
           NEW kind \in Kind, NEW risk \in Risk, ByGrant(a, g, kind, risk),
           NEW b \in Principals(a)
    PROVE  ByGrant(b, g, kind, risk)
<1> DEFINE T == {c \in Actor : ByGrant(c, g, kind, risk)}
<1>1. \A l \in Links(patch) : l[2] \in Actor
  BY DEF Links, IsPatch
<1>2. \A l \in Links(patch) : l[1] \in T => l[2] \in T
  BY <1>1, GrantsClimb DEF Valid
<1>3. Principals(a) \subseteq T
  <2> HIDE DEF T
  <2>1. a \in T
    BY DEF T
  <2> QED
    BY <1>2, <2>1, PrincipalsInherit
<1> QED
  BY <1>3

(* A mandate is part of those of all principals.                            *)
LEMMA MandatesClimb ==
    ASSUME IsPatch(patch), Valid(patch), NEW a \in Actor, NEW within,
           within \subseteq patch.mandate[a], NEW b \in Principals(a)
    PROVE  within \subseteq patch.mandate[b]
<1> DEFINE T == {c \in Actor : within \subseteq patch.mandate[c]}
<1>1. \A l \in Links(patch) : l[2] \in Actor
  BY DEF Links, IsPatch
<1>2. \A l \in Links(patch) : l[1] \in T => l[2] \in T
  BY <1>1 DEF Valid
<1>3. Principals(a) \subseteq T
  <2> HIDE DEF T
  <2>1. a \in T
    BY DEF T
  <2> QED
    BY <1>2, <2>1, PrincipalsInherit
<1> QED
  BY <1>3

-----------------------------------------------------------------------------
(* What a release says of the gates that were passed.                       *)

(* If every terminal that is reached says auto, and one is, every gate that *)
(* is reached does: each of them leads to a terminal.                       *)
LEMMA TerminalsSpeakForAll ==
    ASSUME NEW p, IsPatch(p), Valid(p), NEW act, act.src \in Gate,
           Reach(p, act.src) \cap p.egress # {},
           \A g \in Reach(p, act.src) \cap p.egress : Strictest(Said(p, act, g)) = "auto",
           NEW g \in Reach(p, act.src)
    PROVE  GradedVerdict(p, g, act) = "auto"
<1> DEFINE R == Reach(p, act.src)
           D == Declared(p)
<1>1. /\ p.pipes \in SUBSET (Gate \X Gate) /\ p.pipes \subseteq D \X D
      /\ p.egress \subseteq D /\ \A h \in D : Reach(p, h) \cap p.egress # {}
  BY DEF IsPatch, Valid, ReachesMaster
<1> HIDE DEF D
<1>2. R \subseteq Gate
  BY <1>1, ReachProperties
<1>3. g \in D
  <2> DEFINE T == IF act.src \in D THEN D ELSE {act.src}
  <2>1. act.src \in T /\ \A a \in T, b \in Gate : <<a, b>> \in p.pipes => b \in T
    BY <1>1
  <2>2. R \subseteq T
    <3> HIDE DEF T
    <3> QED
      BY <1>1, <2>1, ReachProperties
  <2>3. act.src \in D
    BY <1>1, <2>2
  <2> QED
    BY <2>2, <2>3
<1>4. PICK e \in Reach(p, g) : e \in p.egress
  BY <1>1, <1>3
<1>5. e \in R
  BY <1>1, <1>4, ReachProperties
<1>6. g \in OnTheWay(p, act.src, e)
  BY <1>4 DEF OnTheWay
<1>7. GradedVerdict(p, g, act) \in Said(p, act, e) /\ Said(p, act, e) \in SUBSET Verdict
  BY <1>6, GradedIsVerdict DEF Said
<1>8. Rank(GradedVerdict(p, g, act)) <= Rank("auto")
  <2>1. Strictest(Said(p, act, e)) = "auto"
    BY <1>4, <1>5
  <2> QED
    BY <1>7, <2>1, StrictestOf
<1> QED
  BY <1>7, <1>8, RankOf

(* A gate says auto to a known actor that is authorized there, where no     *)
(* clause holds and the grade suffices, and then only.                      *)
LEMMA SaysAuto ==
    ASSUME NEW p, NEW g, NEW act
    PROVE  GradedVerdict(p, g, act) = "auto" <=>
              LET risk == EffectiveRisk(p, g, act.token)
              IN  /\ ~Holds(p.prohibited, act.token, risk) /\ ~Holds(p.reserved, act.token, risk)
                  /\ act.actor # NoActor
                  /\ Authorized(p, g, act.actor, act.token.kind, risk)
                  /\ ~(g = act.src /\ GradeOf(p, act.actor) < p.required[g])
BY DEF GradedVerdict, OwnVerdict

(* Whoever is authorized over a kind at a gate is counted as granted there. *)
LEMMA AuthorizedIsGranted ==
    ASSUME NEW p, NEW g, NEW a \in Actor, NEW kind, NEW risk,
           Authorized(p, g, a, kind, risk)
    PROVE  a \in GrantedOver(p, g, kind)
<1> DEFINE here == {r \in p.grants : r.gate = g /\ r.actor = a}
<1>1. CASE here = {}
  <2>1. <<a, g>> \in p.authority
    BY <1>1 DEF Authorized
  <2>2. ~\E r \in p.grants : r.actor = a /\ r.gate = g
    BY <1>1
  <2> QED
    BY <2>1, <2>2 DEF GrantedOver
<1>2. CASE here # {}
  <2>1. \E r \in here : r.kinds = {} \/ kind \in r.kinds
    BY <1>2 DEF Authorized
  <2>2. PICK r \in p.grants : /\ r.gate = g /\ r.actor = a
                              /\ r.kinds = {} \/ kind \in r.kinds
    BY <2>1
  <2> QED
    BY <2>2 DEF GrantedOver
<1> QED
  BY <1>1, <1>2

(* Consigning gates in a well-formed patch transfer as mandated.            *)
LEMMA TransfersAreMandated ==
    ASSUME IsPatch(patch), Valid(patch), NEW g \in patch.egress, NEW t \in patch.transfers,
           patch.consign[g] = t.to, NEW a \in Actor, NEW risk,
           Authorized(patch, g, a, t.kind, risk), NEW b \in Principals(a)
    PROVE  t.within \subseteq patch.mandate[b]
<1>1. g \in Declared(patch) /\ Licensed(patch, t)
  BY DEF Valid
<1>2. a \in GrantedOver(patch, g, t.kind)
  BY AuthorizedIsGranted
<1>3. t.within \subseteq patch.mandate[a]
  BY <1>1, <1>2 DEF Licensed
<1> QED
  BY <1>3, MandatesClimb

-----------------------------------------------------------------------------
(* Risk.                                                                    *)

(* A gate that lets a token through at some risk lets it through at a lower *)
(* one, when grants and clauses are monotone.                               *)
LEMMA LowerRiskPasses ==
    ASSUME IsPatch(patch), Monotone, NEW g \in Gate,
           NEW high, NEW low, low.src = high.src, low.actor = high.actor,
           high.token.risk \in Risk, low.token.risk \in Risk,
           low.token.risk <= high.token.risk,
           low.token.kind = high.token.kind, low.token.party = high.token.party,
           low.token.reversibility = high.token.reversibility,
           low.token.uncertainty = high.token.uncertainty,
           low.token.tags = high.token.tags,
           GradedVerdict(patch, g, high) = "auto"
    PROVE  GradedVerdict(patch, g, low) = "auto"
<1> DEFINE h == high.token
           l == low.token
           hr == EffectiveRisk(patch, g, h)
           lr == EffectiveRisk(patch, g, l)
<1>1. patch.floor[g] \in Risk
  BY DEF IsPatch
<1>2. hr \in Risk /\ lr \in Risk /\ lr <= hr /\ Risk \subseteq Int
  BY <1>1, GraphAssumption DEF EffectiveRisk, Risk
<1>3. lr \in 0..hr
  BY <1>2, GraphAssumption DEF Risk
<1> HIDE DEF h, l, hr, lr
<1>4. ASSUME NEW c \in patch.reserved \cup patch.prohibited, GuardHolds(c.when, l, lr)
      PROVE  GuardHolds(c.when, h, hr)
  <2> DEFINE w == c.when
  <2>1. IsGuard(w)
    BY DEF IsPatch, IsClause
  <2>2. CASE w = NoGuard
    BY <2>2 DEF GuardHolds
  <2>3. CASE w # NoGuard /\ w.field = "risk"
    <3>1. w.op = ">=" /\ w.val \in Nat
      BY <2>1, <2>3 DEF Monotone, IsGuard
    <3>2. lr >= w.val
      BY <1>4, <2>3, <3>1 DEF GuardHolds, Level
    <3>3. hr >= w.val
      BY <1>2, <3>1, <3>2
    <3> QED
      BY <2>3, <3>1, <3>3 DEF GuardHolds, Level
  <2>4. CASE w # NoGuard /\ w.field \in {"reversibility", "uncertainty", "kind", "party"}
    <3>1. w.op # "contains"
      BY <2>1, <2>4 DEF IsGuard
    <3>2. l[w.field] = h[w.field]
      BY <2>4 DEF h, l
    <3>3. Level(l, w.field, lr) = Level(h, w.field, hr)
      BY <2>4, <3>2 DEF Level
    <3> QED
      BY <1>4, <3>1, <3>3 DEF GuardHolds
  <2>5. CASE w # NoGuard /\ w.field = "tags"
    <3>1. w.op = "contains"
      BY <2>1, <2>5 DEF IsGuard
    <3>2. l.tags = h.tags
      BY DEF h, l
    <3> QED
      BY <1>4, <2>5, <3>1, <3>2 DEF GuardHolds
  <2> QED
    BY <2>1, <2>2, <2>3, <2>4, <2>5 DEF IsGuard
<1>5. h.kind = l.kind
  BY DEF h, l
<1>6. ~Holds(patch.prohibited, l, lr) /\ ~Holds(patch.reserved, l, lr)
  <2>1. ~Holds(patch.prohibited, h, hr) /\ ~Holds(patch.reserved, h, hr)
    BY SaysAuto DEF h, hr
  <2> QED
    BY <1>4, <1>5, <2>1 DEF Holds
<1>7. Authorized(patch, g, low.actor, l.kind, lr)
  <2>1. Authorized(patch, g, high.actor, h.kind, hr)
    BY SaysAuto DEF h, hr
  <2>2. \A r \in patch.grants : hr \in r.risks => lr \in r.risks
    BY <1>3 DEF Monotone
  <2> QED
    BY <1>5, <2>1, <2>2 DEF Authorized
<1> QED
  BY <1>6, <1>7, SaysAuto DEF h, hr, l, lr

-----------------------------------------------------------------------------
(* The inductive invariant.                                                 *)

IsSeq(s) == s \in Seq({s[i] : i \in 1..Len(s)})

Evaluating == {"next", "walk", "concluded", "returned", "crashed", "invalid"}

Inputs == /\ IsPatch(patch) /\ IsTable(table) /\ IsSeq(sent)
          /\ \A i \in 1..Len(sent) : IsActivation(sent[i])

(* How the i-th activation is evaluated, and which token is kept beside it. *)
Shown(i) ==
    IF table = NoTable THEN batch[i] = sent[i]
    ELSE IF Ungoverned(sent[i]) THEN batch[i] = sent[i] /\ declared[i] = NoToken
    ELSE IF Refused(sent[i])
    THEN batch[i] = [sent[i] EXCEPT !.shape = "alien"] /\ declared[i] = NoToken
    ELSE /\ batch[i] = [sent[i] EXCEPT !.token.kind = sent[i].observed.kind,
                                       !.token.risk = GovernedRisk(sent[i].token,
                                                                   sent[i].observed)]
         /\ declared[i] = sent[i].token

(* The lists are kept in step by position.                                  *)
Aligned ==
    /\ IsSeq(batch) /\ IsSeq(declared) /\ Len(batch) <= Len(sent)
    /\ \A i \in 1..Len(batch) : Shown(i)
    /\ IF table = NoTable THEN declared = <<>> ELSE Len(declared) = Len(batch)
    /\ pc = "apply" => batch = <<>> /\ declared = <<>>
    /\ pc = "govern" => table # NoTable /\ ai = Len(batch) + 1
    /\ pc \in Evaluating => Len(batch) = Len(sent)

Phased ==
    /\ pc \in {"apply", "refused", "govern"} \cup Evaluating
    /\ pass \in {"trace", "decide"}
    /\ ai \in 1..(Len(sent) + 1)
    /\ pc \in {"apply", "govern", "refused"} => pass = "trace" /\ log = <<>>
    /\ pc = "apply" => ai = 1
    /\ pc \notin {"apply", "refused"} => Valid(patch)
    /\ pc = "walk" => ai <= Len(batch) /\ Act.shape = "valid"
    /\ pc \in Evaluating \ {"next", "walk"} => pass = "decide" /\ ai = Len(batch) + 1
    /\ pass = "trace" => accepted = {} /\ undecided = {} /\ rejected = Empty

(* The worklist: what has been evaluated is closed under what feeds it, the *)
(* counters say what is missing, and the ready gates miss nothing.          *)
Fed(g) == Preds(patch, g) \cap reach

Outcome(i, g) == [verdict |-> PathVerdict(i, g), master |-> Master(g, PathVerdict(i, g))]

Walked ==
    pc = "walk" =>
        /\ reach = Reach(patch, Act.src)
        /\ DOMAIN eff \subseteq reach
        /\ \A g \in DOMAIN eff : Fed(g) \subseteq DOMAIN eff
        /\ indeg = [g \in reach |-> Cardinality(Fed(g) \ DOMAIN eff)]
        /\ ready = {g \in reach \ DOMAIN eff : Fed(g) \subseteq DOMAIN eff}
        /\ pass = "decide" => /\ DOMAIN outcome = DOMAIN eff
                              /\ \A g \in DOMAIN eff : outcome[g] = Outcome(ai, g)

(* The log: what has been walked through, in an order that can be replayed. *)
Entries == {<<log[n].act, log[n].gate>> : n \in 1..Len(log)}

WalkedThrough(acts) == UNION {{i} \X Reach(patch, batch[i].src) : i \in acts}

InOrder ==
    \A m, n \in 1..Len(log) : m < n =>
        /\ log[m].act <= log[n].act
        /\ log[m].act = log[n].act => log[m].gate \notin Reach(patch, log[n].gate)

Logged ==
    /\ IsSeq(log) /\ StrictestOnEveryPath /\ InOrder /\ DualRecord
    /\ pc \in Evaluating =>
          Entries = IF pass = "decide" THEN WalkedThrough(ValidActs)
                    ELSE WalkedThrough({i \in ValidActs : i < ai})
                         \cup (IF pc = "walk" THEN {ai} \X DOMAIN eff ELSE {})

(* The answer that the terminals of an activation call for.                 *)
Held(i) == {v \in TerminalVerdicts(i) : v # "auto" \/ ~Attached}

Answer(i) == IF i \notin ValidActs THEN "invalid"
             ELSE IF TerminalVerdicts(i) # {} /\ Held(i) = {} THEN "accept"
             ELSE IF Held(i) \cap {"human", "reserved"} # {} THEN "leave"
             ELSE "reject"

Answering(kinds) == {IdOf(i) : i \in {j \in 1..(ai - 1) : Answer(j) \in kinds}}

Answered ==
    pass = "decide" =>
        /\ accepted = Answering({"accept"})
        /\ undecided = Answering({"leave"})
        /\ DOMAIN rejected = Answering({"reject", "invalid"})
        /\ DistinctIds => \A i \in 1..(ai - 1) :
              /\ Answer(i) = "invalid" => rejected[IdOf(i)] = "invalid"
              /\ Answer(i) = "reject" => rejected[IdOf(i)] # "invalid"

IInv == Inputs /\ Aligned /\ Phased /\ Walked /\ Logged /\ Answered

-----------------------------------------------------------------------------
(* Appending to a sequence of its own elements.                             *)
Extends(s, v, t) == t = Append(s, v)

LEMMA AppendOwn ==
    ASSUME NEW s, IsSeq(s), NEW v, NEW t, Extends(s, v, t)
    PROVE  /\ IsSeq(t) /\ Len(t) = Len(s) + 1 /\ Len(s) \in Nat
           /\ \A i \in 1..Len(s) : t[i] = s[i]
           /\ t[Len(s) + 1] = v
<1> DEFINE R == {s[i] : i \in 1..Len(s)} \cup {v}
           T == {t[i] : i \in 1..Len(t)}
<1>1. s \in Seq(R) /\ Len(s) \in Nat /\ v \in R
  BY DEF IsSeq
<1> HIDE DEF R
<1>2. /\ t \in Seq(R) /\ Len(t) = Len(s) + 1 /\ Len(t) \in Nat
      /\ \A i \in 1..Len(s) : t[i] = s[i]
      /\ t[Len(s) + 1] = v
  BY <1>1, AppendProperties DEF Extends
<1>3. t = [i \in 1..Len(t) |-> t[i]]
  <2>1. t \in [1..Len(t) -> R]
    BY <1>2, LenProperties
  <2> QED
    BY <2>1
<1>4. \A i \in 1..Len(t) : t[i] \in T
  OBVIOUS
<1> HIDE DEF T
<1>5. [i \in 1..Len(t) |-> t[i]] \in Seq(T)
  BY <1>2, <1>4
<1>6. t \in Seq(T)
  BY <1>3, <1>5
<1> QED
  BY <1>1, <1>2, <1>6 DEF IsSeq, T

(* The empty sequence is one.                                               *)
LEMMA EmptyIsSeq == IsSeq(<<>>) /\ Len(<<>>) = 0
BY DEF IsSeq

(* The arguments are never written.                                         *)
LEMMA GivenStays ==
    ASSUME [Next]_vars
    PROVE  UNCHANGED <<patch, sent, table>>
BY DEF Next, vars, given, Apply, PassThrough, Null, Govern, Governed, Enter, SkipMalformed,
       Visit, Traced, StartDeciding, AcceptAct, LeaveAct, RejectAct, Conclude, CheckResult

(* Once they are evaluated, neither are the activations.                    *)
LEMMA BatchStays ==
    ASSUME [Next]_vars, pc \in Evaluating
    PROVE  UNCHANGED <<batch, declared>> /\ pc' \in Evaluating
<1>1. pc \notin {"apply", "govern"}
  BY DEF Evaluating
<1> QED
  BY <1>1
  DEF Evaluating, Next, vars, given, Apply, PassThrough, Null, Govern, Governed, Governing,
      Enter, SkipMalformed, Visit, Traced, StartDeciding, Deciding, AcceptAct, LeaveAct, RejectAct,
      Conclude, CheckResult

(* The arguments keep their types.                                          *)
LEMMA InputsStay ==
    ASSUME Inputs, [Next]_vars
    PROVE  Inputs'
BY GivenStays DEF Inputs, IsTable, IsActivation, IsSeq

(* Every step keeps the position in the batch, the pass and the phase in    *)
(* line with each other.                                                    *)
LEMMA StepPhased ==
    ASSUME Inputs, Aligned, Phased, [Next]_vars
    PROVE  Phased'
<1> USE DEF Phased
<1>1. Len(sent) \in Nat /\ UNCHANGED <<patch, sent, table>>
  BY GivenStays DEF Inputs, IsSeq
<1> HIDE DEF Inputs
<1>2. CASE Apply
  BY <1>1, <1>2 DEF Apply, Evaluating, given, walk, answers
<1>3. CASE PassThrough \/ Null \/ Govern
  BY <1>1, <1>3 DEF PassThrough, Null, Govern, Governing, Evaluating, given, walk, answers
<1>4. CASE Governed
  BY <1>1, <1>4 DEF Governed, Evaluating, given, walk, answers
<1>5. CASE pc \in Evaluating
  <2>1. Len(batch) = Len(sent) /\ UNCHANGED batch
    BY <1>5, BatchStays DEF Aligned
  <2>2. CASE Enter
    BY <1>1, <2>1, <2>2 DEF Enter, Evaluating, given, answers, Act
  <2>3. CASE SkipMalformed
    BY <1>1, <2>1, <2>3 DEF SkipMalformed, Evaluating, given, walk
  <2>4. CASE Visit
    BY <1>1, <2>1, <2>4 DEF Visit, Evaluating, given, answers, Act
  <2>5. CASE Traced
    BY <1>1, <2>1, <2>5 DEF Traced, Evaluating, given, walk, answers
  <2>6. CASE StartDeciding
    BY <1>1, <2>1, <2>6 DEF StartDeciding, Evaluating, given, walk, answers
  <2>7. CASE AcceptAct \/ LeaveAct \/ RejectAct
    BY <1>1, <2>1, <2>7 DEF AcceptAct, LeaveAct, RejectAct, Deciding, Evaluating, given, walk
  <2>8. CASE Conclude
    BY <1>1, <2>1, <2>8 DEF Conclude, Evaluating, given, walk, answers
  <2>9. CASE CheckResult
    BY <1>1, <2>1, <2>9 DEF CheckResult, Evaluating, given, walk, answers
  <2>10. CASE UNCHANGED vars
    BY <1>1, <2>10 DEF vars, Evaluating, given, walk, answers, Act
  <2>11. ~Apply /\ ~PassThrough /\ ~Null /\ ~Govern /\ ~Governed
    BY <1>5 DEF Apply, PassThrough, Null, Govern, Governed, Governing, Evaluating
  <2> QED
    BY <2>2, <2>3, <2>4, <2>5, <2>6, <2>7, <2>8, <2>9, <2>10, <2>11 DEF Next
<1>6. CASE UNCHANGED vars
  BY <1>6 DEF vars, Evaluating, given, walk, answers, Act
<1>7. Next => pc \in Evaluating \/ Apply \/ PassThrough \/ Null \/ Govern \/ Governed
  BY DEF Next, Enter, SkipMalformed, Visit, Traced, StartDeciding, Deciding, AcceptAct, LeaveAct,
         RejectAct, Conclude, CheckResult, Evaluating
<1> QED
  BY <1>2, <1>3, <1>4, <1>5, <1>6, <1>7

(* What the i-th activation is evaluated as depends on its own places in    *)
(* the lists only.                                                          *)
LEMMA ShownStays ==
    ASSUME UNCHANGED <<sent, table>>, NEW i,
           batch'[i] = batch[i], table = NoTable \/ declared'[i] = declared[i], Shown(i)
    PROVE  Shown(i)'
<1>1. GovernedRisk(sent[i].token, sent[i].observed)'
          = GovernedRisk(sent[i].token, sent[i].observed)
  BY DEF GovernedRisk, Lookup, Mapped
<1> QED
  BY <1>1 DEF Shown

(* Every case of the risk table takes one place in both lists.              *)
LEMMA GovernedOne ==
    ASSUME Inputs, Aligned, Phased, PassThrough \/ Null \/ Govern
    PROVE  Aligned'
<1>1. /\ pc = "govern" /\ pc' = "govern" /\ ai <= Len(sent) /\ ai' = ai + 1
      /\ UNCHANGED <<patch, sent, table>>
  BY DEF PassThrough, Null, Govern, Governing, given
<1>2. /\ IsSeq(batch) /\ IsSeq(declared) /\ table # NoTable
      /\ Len(declared) = Len(batch) /\ ai = Len(batch) + 1
  BY <1>1 DEF Aligned
<1>3. PICK a, d : batch' = Append(batch, a) /\ declared' = Append(declared, d)
  BY DEF PassThrough, Null, Govern
<1>4. /\ IsSeq(batch)' /\ Len(batch') = Len(batch) + 1 /\ Len(batch) \in Nat
      /\ \A i \in 1..Len(batch) : batch'[i] = batch[i]
  <2>1. PICK s : s = batch'
    OBVIOUS
  <2>2. Extends(batch, a, s)
    BY <1>3, <2>1 DEF Extends
  <2>3. /\ IsSeq(s) /\ Len(s) = Len(batch) + 1 /\ Len(batch) \in Nat
        /\ \A i \in 1..Len(batch) : s[i] = batch[i]
    BY <1>2, <2>2, AppendOwn
  <2> QED
    BY <2>1, <2>3 DEF IsSeq
<1>5. /\ IsSeq(declared)' /\ Len(declared') = Len(declared) + 1
      /\ \A i \in 1..Len(declared) : declared'[i] = declared[i]
  <2>1. PICK s : s = declared'
    OBVIOUS
  <2>2. Extends(declared, d, s)
    BY <1>3, <2>1 DEF Extends
  <2>3. /\ IsSeq(s) /\ Len(s) = Len(declared) + 1
        /\ \A i \in 1..Len(declared) : s[i] = declared[i]
    BY <1>2, <2>2, AppendOwn
  <2> QED
    BY <2>1, <2>3 DEF IsSeq
<1>6. \A i \in 1..Len(batch) : Shown(i)'
  BY <1>1, <1>2, <1>4, <1>5, ShownStays DEF Aligned
<1>7. ASSUME NEW i, i = ai PROVE Shown(i)'
  <2>1. CASE PassThrough
    <3>1. batch'[ai] = sent[ai] /\ declared'[ai] = NoToken
      <4>1. Extends(batch, sent[ai], batch') /\ Extends(declared, NoToken, declared')
        BY <2>1 DEF PassThrough, Extends
      <4> QED
        BY <1>2, <4>1, AppendOwn
    <3> QED
      BY <1>1, <1>2, <1>7, <2>1, <3>1 DEF PassThrough, Shown
  <2>2. CASE Null
    <3>1. batch'[ai] = [sent[ai] EXCEPT !.shape = "alien"] /\ declared'[ai] = NoToken
      <4>1. Extends(batch, [sent[ai] EXCEPT !.shape = "alien"], batch') /\ Extends(declared, NoToken, declared')
        BY <2>2 DEF Null, Extends
      <4> QED
        BY <1>2, <4>1, AppendOwn
    <3>2. ~Ungoverned(sent[ai]) /\ Refused(sent[ai])
      BY <2>2 DEF Null, Refused
    <3> QED
      BY <1>1, <1>2, <1>7, <3>1, <3>2 DEF Shown
  <2>3. CASE Govern
    <3> DEFINE s == sent[ai]
               b == [s EXCEPT !.token.kind = s.observed.kind,
                              !.token.risk = GovernedRisk(s.token, s.observed)]
    <3>1. batch' = Append(batch, b) /\ declared' = Append(declared, s.token)
      BY <2>3 DEF Govern
    <3>2. batch'[ai] = b /\ declared'[ai] = s.token
      <4> HIDE DEF s, b
      <4>1. Extends(batch, b, batch') /\ Extends(declared, s.token, declared')
        BY <3>1 DEF Extends
      <4> QED
        BY <1>2, <4>1, AppendOwn
    <3>3. ~Ungoverned(sent[ai]) /\ ~Refused(sent[ai])
      BY <2>3 DEF Govern
    <3>4. table' = table /\ sent' = sent /\ table # NoTable
      BY <1>1, <1>2
    <3>5. GovernedRisk(sent[i].token, sent[i].observed)'
              = GovernedRisk(sent[i].token, sent[i].observed)
      BY <3>4 DEF GovernedRisk, Lookup, Mapped
    <3> QED
      BY <1>7, <3>2, <3>3, <3>4, <3>5 DEF Shown
  <2> QED
    BY <2>1, <2>2, <2>3
<1>8. 1..Len(batch') = 1..Len(batch) \cup {ai}
  BY <1>2, <1>4
<1>9. Len(sent) \in Nat
  BY DEF Inputs, IsSeq
<1>10. \A i \in 1..Len(batch') : Shown(i)'
  BY <1>6, <1>7, <1>8
<1> QED
  BY <1>1, <1>2, <1>4, <1>5, <1>9, <1>10 DEF Aligned, Evaluating

(* Governed or not, an activation keeps its source and its actor.           *)
LEMMA EvaluatedAsSent ==
    ASSUME Inputs, Aligned, NEW i \in 1..Len(batch)
    PROVE  /\ batch[i].src = sent[i].src /\ batch[i].actor = sent[i].actor
           /\ batch[i].src \in Gate /\ batch[i].actor \in Actor \cup {NoActor}
<1>1. IsActivation(sent[i]) /\ Shown(i)
  BY DEF Inputs, Aligned, IsSeq
<1>2. batch[i].src = sent[i].src /\ batch[i].actor = sent[i].actor
  <2>1. CASE batch[i] = sent[i]
    BY <2>1
  <2>2. CASE batch[i] = [sent[i] EXCEPT !.shape = "alien"]
    BY <1>1, <2>2 DEF IsActivation
  <2>3. CASE batch[i] = [sent[i] EXCEPT !.token.kind = sent[i].observed.kind,
                                        !.token.risk = GovernedRisk(sent[i].token,
                                                                    sent[i].observed)]
    BY <1>1, <2>3 DEF IsActivation
  <2> QED
    BY <1>1, <2>1, <2>2, <2>3 DEF Shown
<1> QED
  BY <1>1, <1>2 DEF IsActivation

(* Every step keeps the lists in step by position, governed or not.         *)
LEMMA StepAligned ==
    ASSUME Inputs, Aligned, Phased, [Next]_vars
    PROVE  Aligned'
<1>1. Len(sent) \in Nat /\ UNCHANGED <<patch, sent, table>>
  BY GivenStays DEF Inputs, IsSeq
<1>2. CASE Apply
  <2>1. pc = "apply" /\ ai = 1 /\ declared' = <<>> /\ ai' = ai
    BY <1>2 DEF Apply, Aligned, Phased
  <2>2. CASE table = NoTable
    <3>1. batch' = sent /\ pc' # "govern" /\ pc' # "apply"
      BY <1>2, <2>2 DEF Apply
    <3>2. \A i \in 1..Len(batch') : Shown(i)'
      BY <1>1, <2>2, <3>1 DEF Shown
    <3> QED
      BY <1>1, <2>1, <2>2, <3>1, <3>2, EmptyIsSeq DEF Aligned, Inputs, IsSeq
  <2>3. CASE table # NoTable
    <3>1. batch' = <<>> /\ pc' \in {"refused", "govern"}
      BY <1>2, <2>3 DEF Apply
    <3>2. Len(batch') = 0 /\ Len(declared') = 0
      BY <2>1, <3>1, EmptyIsSeq
    <3>3. \A i \in 1..Len(batch') : Shown(i)'
      BY <3>2
    <3> QED
      BY <1>1, <2>1, <2>3, <3>1, <3>2, <3>3, EmptyIsSeq DEF Aligned, Evaluating
  <2> QED
    BY <2>2, <2>3
<1>3. CASE PassThrough \/ Null \/ Govern
  BY <1>3, GovernedOne
<1>4. CASE UNCHANGED <<batch, declared>> /\ pc # "apply" /\ pc' \notin {"apply", "govern"}
           /\ (pc' \in Evaluating => pc \in Evaluating \/ Len(batch) = Len(sent))
  <2>1. \A i \in 1..Len(batch) : Shown(i)'
    BY <1>1, <1>4, ShownStays DEF Aligned
  <2> QED
    BY <1>1, <1>4, <2>1 DEF Aligned, IsSeq
<1>5. CASE Governed
  <2>1. pc = "govern" /\ pc' = "next" /\ ai > Len(sent) /\ UNCHANGED <<batch, declared>>
    BY <1>5 DEF Governed
  <2>2. Len(batch) = Len(sent)
    BY <1>1, <2>1 DEF Aligned, Phased, IsSeq
  <2> QED
    BY <1>4, <2>1, <2>2
<1>6. CASE pc \in Evaluating
  BY <1>4, <1>6, BatchStays DEF Evaluating
<1>7. CASE UNCHANGED vars
  <2>1. UNCHANGED <<pc, ai, batch, declared>>
    BY <1>7 DEF vars
  <2>2. \A i \in 1..Len(batch) : Shown(i)'
    BY <1>1, <2>1, ShownStays DEF Aligned
  <2> QED
    BY <1>1, <2>1, <2>2 DEF Aligned, IsSeq
<1>8. Next => \/ pc \in Evaluating
              \/ Apply \/ PassThrough \/ Null \/ Govern \/ Governed
  BY DEF Next, Enter, SkipMalformed, Visit, Traced, StartDeciding, Deciding, AcceptAct, LeaveAct,
         RejectAct, Conclude, CheckResult, Evaluating
<1> QED
  BY <1>2, <1>3, <1>5, <1>6, <1>7, <1>8

(* What an activation is judged by, and answered, hangs on the patch and the*)
(* activations alone.                                                       *)
LEMMA JudgedAsBefore ==
    ASSUME UNCHANGED <<patch, batch>>
    PROVE  /\ \A i, g : PathVerdict(i, g)' = PathVerdict(i, g)
           /\ \A g, v : Master(g, v)' = Master(g, v)
           /\ \A i, g : Outcome(i, g)' = Outcome(i, g)
           /\ \A i : TerminalVerdicts(i)' = TerminalVerdicts(i)
           /\ \A i : Held(i)' = Held(i)
           /\ \A i : Answer(i)' = Answer(i)
           /\ \A i : IdOf(i)' = IdOf(i)
           /\ ValidActs' = ValidActs
           /\ (DistinctIds <=> DistinctIds')
           /\ Attached' = Attached
<1>1. \A i, g : PathVerdict(i, g)' = PathVerdict(i, g)
  BY DEF PathVerdict, Path
<1>2. Attached' = Attached
  BY DEF Attached
<1>3. \A g, v : Master(g, v)' = Master(g, v)
  BY DEF Master, Attached
<1>4. \A i, g : Outcome(i, g)' = Outcome(i, g)
  BY <1>1, <1>3 DEF Outcome
<1>5. \A i : TerminalVerdicts(i)' = TerminalVerdicts(i)
  BY <1>1 DEF TerminalVerdicts
<1>6. \A i : Held(i)' = Held(i)
  BY <1>2, <1>5 DEF Held
<1>7. ValidActs' = ValidActs
  BY DEF ValidActs
<1>8. \A i : Answer(i)' = Answer(i)
  BY <1>5, <1>6, <1>7 DEF Answer
<1>9. \A i : IdOf(i)' = IdOf(i)
  BY DEF IdOf
<1>10. DistinctIds <=> DistinctIds'
  BY DEF DistinctIds, IdOf
<1> QED
  BY <1>1, <1>2, <1>3, <1>4, <1>5, <1>6, <1>7, <1>8, <1>9, <1>10

(* Only a valid patch is walked, and only for a valid activation.           *)
LEMMA WalkIsSound ==
    ASSUME Inputs, Aligned, Phased, pc = "walk"
    PROVE  /\ IsPatch(patch) /\ Valid(patch)
           /\ ai \in 1..Len(batch) /\ ai \in ValidActs /\ Act.src \in Gate
<1>1. ai \in 1..Len(batch) /\ Act.shape = "valid"
  BY DEF Phased, Aligned, Inputs, IsSeq, Evaluating
<1>2. Act.src \in Gate
  BY <1>1, EvaluatedAsSent DEF Act
<1> QED
  BY <1>1, <1>2 DEF Inputs, Phased, ValidActs, Act

(* A walk starts with nothing evaluated.                                    *)
LEMMA EnterWalks ==
    ASSUME Inputs, Phased, Enter
    PROVE  Walked'
<1> DEFINE R == Reach(patch, Act.src)
<1>1. /\ UNCHANGED <<patch, batch, ai, pass>> /\ reach' = R
      /\ indeg' = [g \in R |-> Cardinality(Preds(patch, g) \cap R)]
      /\ ready' = {g \in R : indeg'[g] = 0}
      /\ DOMAIN eff' = {} /\ (pass = "decide" => DOMAIN outcome' = {})
  BY DEF Enter, given, Empty, Phased
<1>2. IsFiniteSet(Gate)
  BY GraphAssumption
<1>3. \A g \in R : Cardinality(Preds(patch, g) \cap R) = 0 <=> Preds(patch, g) \cap R = {}
  <2>1. \A g : IsFiniteSet(Preds(patch, g) \cap R)
    BY <1>2, FS_Subset DEF Preds
  <2> QED
    BY <2>1, FS_EmptySet
<1>4. \A g : Fed(g)' = Preds(patch, g) \cap R
  BY <1>1 DEF Fed
<1>5. Act' = Act
  BY <1>1 DEF Act
<1> HIDE DEF R
<1>6. indeg' = [g \in R |-> Cardinality((Preds(patch, g) \cap R) \ {})]
  BY <1>1
<1>7. ready' = {g \in R \ {} : Preds(patch, g) \cap R \subseteq {}}
  BY <1>1, <1>3
<1>8. reach' = Reach(patch', Act'.src)
  BY <1>1, <1>5 DEF R
<1> QED
  BY <1>1, <1>4, <1>6, <1>7, <1>8 DEF Walked

(* A visit evaluates one more gate, and every gate that now misses nothing  *)
(* becomes ready.                                                           *)
LEMMA VisitWalks ==
    ASSUME Inputs, Aligned, Phased, Walked, Visit
    PROVE  Walked'
<1> DEFINE D == DOMAIN eff
<1>1. /\ pc = "walk" /\ reach = Reach(patch, Act.src) /\ D \subseteq reach
      /\ \A h \in D : Fed(h) \subseteq D
      /\ indeg = [h \in reach |-> Cardinality(Fed(h) \ D)]
      /\ ready = {h \in reach \ D : Fed(h) \subseteq D}
      /\ pass = "decide" => DOMAIN outcome = D /\ \A h \in D : outcome[h] = Outcome(ai, h)
  BY DEF Walked, Visit
<1>2. IsPatch(patch) /\ Valid(patch) /\ Act.src \in Gate
  BY <1>1, WalkIsSound
<1>3. PICK g \in ready, v \in Verdict :
          /\ v = Effective[g] /\ eff' = Put(eff, g, v)
          /\ outcome' = Put(outcome, g, [verdict |-> v, master |-> Master(g, v)])
          /\ indeg' = [h \in reach |-> IF <<g, h>> \in patch.pipes
                                       THEN indeg[h] - 1 ELSE indeg[h]]
          /\ ready' = (ready \ {g}) \cup Released(g)
  BY DEF Visit, First
<1>4. UNCHANGED <<patch, batch, ai, pass, reach, pc>> /\ Act' = Act
  BY DEF Visit, given, Act
<1>5. DOMAIN eff' = D \cup {g}
  BY <1>3 DEF Put
<1>6. g \in reach /\ g \notin D /\ Fed(g) \subseteq D /\ reach \subseteq Gate
  BY <1>1, <1>2, <1>3, ReachProperties DEF IsPatch
<1>7. \A h : g \in Fed(h) <=> <<g, h>> \in patch.pipes
  BY <1>6 DEF Fed, Preds
<1>8. \A h : /\ IsFiniteSet(Fed(h) \ D) /\ Cardinality(Fed(h) \ D) \in Nat
             /\ Cardinality(Fed(h) \ D) = 0 <=> Fed(h) \subseteq D
             /\ Cardinality(Fed(h) \ (D \cup {g})) = IF g \in Fed(h)
                    THEN Cardinality(Fed(h) \ D) - 1 ELSE Cardinality(Fed(h) \ D)
             /\ g \in Fed(h) => (Cardinality(Fed(h) \ D) = 1 <=> Fed(h) \subseteq D \cup {g})
  <2> TAKE h
  <2> DEFINE Z == Fed(h) \ D
  <2>1. IsFiniteSet(Z) /\ IsFiniteSet(Z \ {g})
    BY GraphAssumption, FS_Subset DEF Fed, Preds
  <2>2. Z \ {g} = Fed(h) \ (D \cup {g}) /\ (g \in Z <=> g \in Fed(h))
    BY <1>6
  <2>3. Cardinality(Z) \in Nat /\ (Cardinality(Z) = 0 <=> Z = {})
    BY <2>1, FS_CardinalityType, FS_EmptySet
  <2>4. Cardinality(Z \ {g}) = IF g \in Z THEN Cardinality(Z) - 1 ELSE Cardinality(Z)
    <3> HIDE DEF Z
    <3> QED
      BY <2>1, FS_RemoveElement
  <2>5. Cardinality(Z \ {g}) = 0 <=> Z \ {g} = {}
    BY <2>1, FS_EmptySet
  <2>6. g \in Z => (Cardinality(Z) = 1 <=> Cardinality(Z \ {g}) = 0)
    BY <2>3, <2>4
  <2> QED
    BY <2>1, <2>2, <2>3, <2>4, <2>5, <2>6
<1>9. \A h : Fed(h)' = Fed(h)
  BY <1>4 DEF Fed
<1>10. indeg' = [h \in reach |-> Cardinality(Fed(h) \ (D \cup {g}))]
  BY <1>1, <1>3, <1>7, <1>8
<1>11. ready' = {h \in reach \ (D \cup {g}) : Fed(h) \subseteq D \cup {g}}
  <2>1. \A h \in Released(g) : /\ h \in reach /\ h \notin D /\ h # g
                               /\ Fed(h) \subseteq D \cup {g}
    <3> TAKE h \in Released(g)
    <3>1. h \in reach /\ g \in Fed(h) /\ Cardinality(Fed(h) \ D) = 1
      BY <1>1, <1>7 DEF Released
    <3>2. Fed(h) \subseteq D \cup {g}
      BY <1>8, <3>1
    <3> QED
      BY <1>1, <1>6, <3>1, <3>2
  <2>2. ASSUME NEW h \in reach, h \notin D, h # g, Fed(h) \subseteq D \cup {g}
        PROVE  h \in (ready \ {g}) \cup Released(g)
    <3>1. CASE g \in Fed(h)
      <4>1. Cardinality(Fed(h) \ D) = 1
        BY <1>8, <2>2, <3>1
      <4> QED
        BY <1>1, <1>7, <2>2, <3>1, <4>1 DEF Released
    <3>2. CASE g \notin Fed(h)
      BY <1>1, <2>2, <3>2
    <3> QED
      BY <3>1, <3>2
  <2>3. \A h \in ready \ {g} : /\ h \in reach /\ h \notin D
                              /\ Fed(h) \subseteq D \cup {g}
    BY <1>1
  <2> QED
    BY <1>3, <2>1, <2>2, <2>3
<1>12. v = PathVerdict(ai, g)
  BY <1>1, <1>2, <1>3, <1>6, EffectiveIsStrictest
<1>13. pass = "decide" => /\ DOMAIN outcome' = D \cup {g}
                          /\ \A h \in D \cup {g} : outcome'[h] = Outcome(ai, h)
  BY <1>1, <1>3, <1>12 DEF Put, Outcome
<1>14. \A h : Outcome(ai, h)' = Outcome(ai, h)
  BY <1>4, JudgedAsBefore
<1> QED
  BY <1>1, <1>4, <1>5, <1>6, <1>9, <1>10, <1>11, <1>13, <1>14 DEF Walked

(* Every step keeps the worklist: Enter fills it, Visit takes one gate off  *)
(* and adds those it makes ready, and between walks there is none.          *)
LEMMA StepWalked ==
    ASSUME Inputs, Aligned, Phased, Walked, [Next]_vars
    PROVE  Walked'
<1>1. CASE Enter
  BY <1>1, EnterWalks
<1>2. CASE Visit
  BY <1>2, VisitWalks
<1>3. CASE pc' # "walk"
  BY <1>3 DEF Walked
<1>4. CASE UNCHANGED vars
  <2>1. /\ UNCHANGED <<patch, batch, ai, pass, pc, reach, indeg, ready, eff, outcome>>
        /\ Act' = Act
    BY <1>4 DEF vars, given, walk, Act
  <2>2. \A h : Outcome(ai, h)' = Outcome(ai, h)
    BY <2>1, JudgedAsBefore
  <2>3. \A h : Fed(h)' = Fed(h)
    BY <2>1 DEF Fed
  <2> QED
    BY <2>1, <2>2, <2>3 DEF Walked
<1>5. pc' # "walk" \/ Enter \/ Visit \/ UNCHANGED vars
  BY DEF Next, Apply, PassThrough, Null, Govern, Governed, Governing, SkipMalformed, Traced,
         StartDeciding, AcceptAct, LeaveAct, RejectAct, Conclude, CheckResult
<1> QED
  BY <1>1, <1>2, <1>3, <1>4, <1>5

(* The worklist does not starve: when no gate is ready, every gate that is  *)
(* reached has been evaluated.                                              *)
LEMMA WalkCompletes ==
    ASSUME Inputs, Aligned, Phased, Walked, pc = "walk", ready = {}
    PROVE  DOMAIN eff = Reach(patch, Act.src)
<1> DEFINE Left == reach \ DOMAIN eff
<1>1. IsPatch(patch) /\ Valid(patch) /\ Act.src \in Gate
  BY WalkIsSound
<1>2. reach = Reach(patch, Act.src) /\ DOMAIN eff \subseteq reach
  BY DEF Walked
<1>3. reach \subseteq Gate
  BY <1>1, <1>2, ReachProperties DEF IsPatch
<1> SUFFICES ASSUME Left # {} PROVE FALSE
  BY <1>2
<1>4. PICK h \in Left : \A y \in Left : <<y, h>> \notin patch.pipes
  BY <1>1, <1>3, ValidHasSources
<1>5. Fed(h) \subseteq DOMAIN eff
  BY <1>4 DEF Fed, Preds
<1>6. h \in ready
  BY <1>4, <1>5 DEF Walked
<1> QED
  BY <1>6

(* Every gate still to come is out of the way of those evaluated.           *)
LEMMA EvaluatedAreBehind ==
    ASSUME Inputs, Aligned, Phased, Walked, pc = "walk", NEW g \in reach \ DOMAIN eff
    PROVE  Reach(patch, g) \cap DOMAIN eff = {}
<1> DEFINE T == reach \ DOMAIN eff
<1>1. /\ IsPatch(patch) /\ Act.src \in Gate /\ reach = Reach(patch, Act.src)
      /\ \A h \in DOMAIN eff : Fed(h) \subseteq DOMAIN eff
  BY WalkIsSound DEF Walked
<1>2. /\ patch.pipes \in SUBSET (Gate \X Gate) /\ reach \subseteq Gate
      /\ \A a \in reach, b \in Gate : <<a, b>> \in patch.pipes => b \in reach
  BY <1>1, ReachProperties DEF IsPatch
<1>3. ASSUME NEW a \in T, NEW b \in Gate, <<a, b>> \in patch.pipes PROVE b \in T
  <2>1. b \in reach /\ a \in Fed(b)
    BY <1>2, <1>3 DEF Fed, Preds
  <2> QED
    BY <1>1, <2>1
<1>4. g \in Gate
  BY <1>2
<1>5. Reach(patch, g) \subseteq T
  <2> HIDE DEF T
  <2>1. g \in T
    BY DEF T
  <2> QED
    BY <1>2, <1>3, <1>4, <2>1, ReachProperties
<1> QED
  BY <1>5

(* What the log shows beside a raised risk.                                 *)
LEMMA EntryShowsDeclared ==
    ASSUME Inputs, Aligned, Phased, pc = "walk", NEW g, NEW v
    PROVE  Entry(g, v).token \in {NoToken, sent[ai].token}
<1>1. /\ ai \in 1..Len(batch) /\ Act.shape = "valid" /\ Shown(ai)
      /\ IsToken(sent[ai].token) /\ IsActivation(sent[ai])
      /\ IF table = NoTable THEN declared = <<>> ELSE Len(declared) = Len(batch)
  <2>1. ai \in 1..Len(batch) /\ Act.shape = "valid"
    BY WalkIsSound DEF ValidActs, Act
  <2>2. ai \in 1..Len(sent)
    BY <2>1 DEF Inputs, Aligned, IsSeq
  <2> QED
    BY <2>1, <2>2 DEF Inputs, Aligned, IsActivation
<1>2. table # NoTable => declared # <<>> /\ ai <= Len(declared)
  BY <1>1
<1>3. ~(table # NoTable /\ ~Ungoverned(sent[ai]) /\ Refused(sent[ai]))
  <2> SUFFICES ASSUME table # NoTable, ~Ungoverned(sent[ai]), Refused(sent[ai]) PROVE FALSE
    OBVIOUS
  <2>1. batch[ai] = [sent[ai] EXCEPT !.shape = "alien"]
    BY <1>1 DEF Shown
  <2>2. batch[ai].shape = "alien"
    BY <1>1, <2>1 DEF IsActivation
  <2> QED
    BY <1>1, <2>2 DEF Act
<1>4. CASE table = NoTable \/ Ungoverned(sent[ai])
  <2>1. Act = sent[ai] /\ (table # NoTable => declared[ai] = NoToken)
    BY <1>1, <1>4 DEF Shown, Act
  <2> QED
    BY <1>1, <1>2, <2>1 DEF Entry
<1>5. CASE table # NoTable /\ ~Ungoverned(sent[ai])
  <2>1. declared[ai] = sent[ai].token /\ declared[ai] # NoToken
    BY <1>1, <1>3, <1>5, NoTokenAssumption DEF Shown
  <2> QED
    BY <1>2, <1>5, <2>1 DEF Entry
<1> QED
  BY <1>4, <1>5

(* What has been logged stays as it was judged.                             *)
LEMMA LoggedStays ==
    ASSUME UNCHANGED <<patch, batch, sent, log>>, IsSeq(log), StrictestOnEveryPath, InOrder,
           DualRecord
    PROVE  /\ IsSeq(log)' /\ StrictestOnEveryPath' /\ InOrder' /\ DualRecord'
           /\ Entries' = Entries
           /\ \A acts : WalkedThrough(acts)' = WalkedThrough(acts)
<1>1. StrictestOnEveryPath'
  BY JudgedAsBefore DEF StrictestOnEveryPath
<1> QED
  BY <1>1 DEF IsSeq, InOrder, DualRecord, Entries, WalkedThrough

(* A visit of the trace logs one more gate.                                 *)
LEMMA VisitLogs ==
    ASSUME Inputs, Aligned, Phased, Walked, Logged, Visit, pass = "trace"
    PROVE  Logged'
<1> DEFINE D == DOMAIN eff
           n == Len(log) + 1
<1>1. PICK g \in ready, v \in Verdict :
          v = Effective[g] /\ eff' = Put(eff, g, v) /\ log' = Append(log, Entry(g, v))
  BY DEF Visit, First
<1>2. /\ UNCHANGED <<patch, batch, sent, ai, pass, pc>> /\ pc = "walk"
      /\ DOMAIN eff' = D \cup {g}
  BY <1>1 DEF Visit, given, Put
<1>3. /\ g \in reach \ D /\ v = PathVerdict(ai, g)
  <2>1. g \in reach \ D /\ reach = Reach(patch, Act.src)
    BY <1>1, <1>2 DEF Walked
  <2> QED
    BY <1>1, <1>2, <2>1, WalkIsSound, EffectiveIsStrictest
<1>4. /\ IsSeq(log)' /\ Len(log') = n /\ Len(log) \in Nat
      /\ \A i \in 1..Len(log) : log'[i] = log[i]
      /\ log'[n] = Entry(g, v)
  <2> DEFINE e == Entry(g, v)
  <2>1. PICK l : l = log'
    OBVIOUS
  <2>2. IsSeq(log) /\ Extends(log, e, l)
    BY <1>1, <2>1 DEF Logged, Extends
  <2> HIDE DEF e
  <2>3. /\ IsSeq(l) /\ Len(l) = Len(log) + 1 /\ Len(log) \in Nat
        /\ \A i \in 1..Len(log) : l[i] = log[i]
        /\ l[Len(log) + 1] = e
    BY <2>2, AppendOwn
  <2> QED
    BY <2>1, <2>3 DEF IsSeq, e
<1>5. /\ log'[n].act = ai /\ log'[n].gate = g /\ log'[n].verdict = v
      /\ log'[n].token \in {NoToken, sent[ai].token}
  <2>1. Entry(g, v).token \in {NoToken, sent[ai].token}
    BY <1>2, EntryShowsDeclared
  <2>2. Entry(g, v).act = ai /\ Entry(g, v).gate = g /\ Entry(g, v).verdict = v
    BY DEF Entry
  <2> QED
    BY <1>4, <2>1, <2>2
<1>6. 1..Len(log') = 1..Len(log) \cup {n}
  BY <1>4
<1>7. Entries' = Entries \cup {<<ai, g>>}
  BY <1>4, <1>5, <1>6 DEF Entries
<1>8. Entries = WalkedThrough({i \in ValidActs : i < ai}) \cup ({ai} \X D)
  BY <1>2 DEF Logged, Evaluating
<1>9. \A m \in 1..Len(log) : /\ log[m].act <= ai
                             /\ log[m].act = ai => log[m].gate \in D
  <2> TAKE m \in 1..Len(log)
  <2>1. <<log[m].act, log[m].gate>> \in Entries
    BY DEF Entries
  <2>2. CASE <<log[m].act, log[m].gate>> \in {ai} \X D
    BY <2>2 DEF Phased, Inputs, IsSeq
  <2>3. CASE <<log[m].act, log[m].gate>> \in WalkedThrough({i \in ValidActs : i < ai})
    <3>1. log[m].act \in ValidActs /\ log[m].act < ai
      BY <2>3 DEF WalkedThrough
    <3>2. log[m].act \in Int /\ ai \in Int
      BY <3>1 DEF ValidActs, Phased
    <3> QED
      BY <3>1, <3>2
  <2> QED
    BY <1>8, <2>1, <2>2, <2>3
<1>10. \A m \in 1..Len(log) : log[m].act = ai => log[m].gate \notin Reach(patch, g)
  BY <1>2, <1>3, <1>9, EvaluatedAreBehind
<1>11. StrictestOnEveryPath'
  <2>1. \A i, h : PathVerdict(i, h)' = PathVerdict(i, h)
    BY <1>2, JudgedAsBefore
  <2>2. \A i \in 1..Len(log) : log[i].verdict = PathVerdict(log[i].act, log[i].gate)
    BY DEF Logged, StrictestOnEveryPath
  <2>3. \A i \in 1..Len(log') : log'[i].verdict = PathVerdict(log'[i].act, log'[i].gate)
    BY <1>3, <1>4, <1>5, <1>6, <2>2
  <2> QED
    BY <2>1, <2>3 DEF StrictestOnEveryPath
<1>12. InOrder'
  <2>1. ASSUME NEW i \in 1..Len(log'), NEW j \in 1..Len(log'), i < j
        PROVE  /\ log'[i].act <= log'[j].act
               /\ log'[i].act = log'[j].act => log'[i].gate \notin Reach(patch, log'[j].gate)
    <3>1. i \in 1..Len(log)
      BY <1>4, <2>1
    <3>2. CASE j = n
      BY <1>4, <1>5, <1>9, <1>10, <3>1, <3>2
    <3>3. CASE j \in 1..Len(log)
      BY <1>4, <2>1, <3>1, <3>3 DEF Logged, InOrder
    <3> QED
      BY <1>6, <3>2, <3>3
  <2> QED
    BY <1>2, <2>1 DEF InOrder
<1>13. DualRecord'
  <2>1. \A i \in 1..Len(log) : log[i].token \in {NoToken, sent[log[i].act].token}
    BY DEF Logged, DualRecord
  <2> QED
    BY <1>2, <1>4, <1>5, <1>6, <2>1 DEF DualRecord
<1>14. Entries' = (WalkedThrough({i \in ValidActs : i < ai}) \cup ({ai} \X DOMAIN eff))'
  <2>1. ValidActs' = ValidActs
    BY <1>2, JudgedAsBefore
  <2> QED
    BY <1>2, <1>7, <1>8, <2>1 DEF WalkedThrough
<1> QED
  BY <1>2, <1>4, <1>11, <1>12, <1>13, <1>14 DEF Logged

(* Every step keeps the log: the trace logs the visited gate after all that *)
(* feed it, and the decisions log nothing.                                  *)
LEMMA StepLogged ==
    ASSUME Inputs, Aligned, Phased, Walked, Logged, [Next]_vars
    PROVE  Logged'
<1>1. UNCHANGED <<patch, sent, table>>
  BY GivenStays
<1>2. CASE Visit /\ pass = "trace"
  BY <1>2, VisitLogs
<1>3. CASE pc \in Evaluating /\ ~(Visit /\ pass = "trace")
  <2> DEFINE Before == WalkedThrough({i \in ValidActs : i < ai})
  <2>1. UNCHANGED <<patch, batch, sent, log>> /\ pc' \in Evaluating
    <3>1. UNCHANGED <<batch, declared>> /\ pc' \in Evaluating
      BY <1>3, BatchStays
    <3>2. log' = log
      BY <1>3
      DEF Next, vars, Apply, PassThrough, Null, Govern, Governed, Enter, SkipMalformed, Visit,
          Traced, StartDeciding, AcceptAct, LeaveAct, RejectAct, Conclude, CheckResult
    <3> QED
      BY <1>1, <3>1, <3>2
  <2>2. /\ IsSeq(log)' /\ StrictestOnEveryPath' /\ InOrder' /\ DualRecord'
        /\ Entries' = Entries /\ ValidActs' = ValidActs
        /\ \A acts : WalkedThrough(acts)' = WalkedThrough(acts)
    BY <2>1, LoggedStays, JudgedAsBefore DEF Logged
  <2>3. CASE pass = "decide"
    <3>1. pass' = "decide"
      BY <2>3
      DEF Next, vars, Apply, PassThrough, Null, Govern, Governed, Enter, SkipMalformed, Visit,
          Traced, StartDeciding, AcceptAct, LeaveAct, RejectAct, Conclude, CheckResult
    <3> QED
      BY <1>3, <2>2, <2>3, <3>1 DEF Logged
  <2>4. CASE pass = "trace"
    <3>1. /\ pc \in {"next", "walk"} /\ ai \in Nat /\ Len(batch) \in Nat
          /\ Entries = Before \cup (IF pc = "walk" THEN {ai} \X DOMAIN eff ELSE {})
      <4>1. pc \in {"next", "walk"}
        BY <1>3, <2>4 DEF Phased, Evaluating
      <4>2. ai \in Nat
        BY DEF Phased
      <4>3. Len(batch) \in Nat
        BY DEF Aligned, IsSeq
      <4> QED
        BY <1>3, <2>4, <4>1, <4>2, <4>3 DEF Logged
    <3>2. CASE Enter
      <4>1. pc = "next" /\ pc' = "walk" /\ UNCHANGED <<ai, pass>> /\ DOMAIN eff' = {}
        BY <3>2 DEF Enter, Empty
      <4> QED
        BY <2>2, <2>4, <3>1, <4>1 DEF Logged
    <3>3. CASE SkipMalformed
      <4>1. pc = "next" /\ pc' = "next" /\ ai' = ai + 1 /\ pass' = pass /\ ai \notin ValidActs
        BY <3>3 DEF SkipMalformed, ValidActs, Act
      <4>2. {i \in ValidActs : i < ai + 1} = {i \in ValidActs : i < ai}
        BY <3>1, <4>1 DEF ValidActs
      <4> QED
        BY <2>2, <2>4, <3>1, <4>1, <4>2 DEF Logged
    <3>4. CASE Traced
      <4>1. pc = "walk" /\ pc' = "next" /\ ai' = ai + 1 /\ pass' = pass /\ ready = {}
        BY <3>4 DEF Traced
      <4>2. DOMAIN eff = Reach(patch, batch[ai].src) /\ ai \in ValidActs
        BY <4>1, WalkCompletes, WalkIsSound DEF Act
      <4>3. {i \in ValidActs : i < ai + 1} = {i \in ValidActs : i < ai} \cup {ai}
        BY <3>1, <4>2 DEF ValidActs
      <4>4. WalkedThrough({i \in ValidActs : i < ai + 1}) = Entries
        BY <3>1, <4>1, <4>2, <4>3 DEF WalkedThrough
      <4> QED
        BY <2>2, <2>4, <4>1, <4>4 DEF Logged
    <3>5. CASE StartDeciding
      <4>1. pc = "next" /\ pass' = "decide" /\ ai > Len(batch)
        BY <3>5 DEF StartDeciding
      <4>2. {i \in ValidActs : i < ai} = ValidActs
        BY <3>1, <4>1 DEF ValidActs
      <4> QED
        BY <2>2, <3>1, <4>1, <4>2 DEF Logged
    <3>6. CASE UNCHANGED vars
      BY <2>2, <2>4, <3>1, <3>6 DEF vars, Logged, walk
    <3> QED
      BY <1>3, <2>4, <3>1, <3>2, <3>3, <3>4, <3>5, <3>6
      DEF Next, Apply, PassThrough, Null, Govern, Governed, Governing, Deciding, AcceptAct,
          LeaveAct, RejectAct, Conclude, CheckResult
  <2> QED
    BY <2>3, <2>4 DEF Phased
<1>4. CASE pc \notin Evaluating
  <2>1. log = <<>> /\ log' = <<>> /\ pass = "trace" /\ pass' = "trace"
    BY <1>4
    DEF Phased, Evaluating, Next, vars, Apply, PassThrough, Null, Govern, Governed, Enter,
        SkipMalformed, Visit, Traced, StartDeciding, Deciding, AcceptAct, LeaveAct, RejectAct,
        Conclude, CheckResult
  <2>2. pc' \in Evaluating => pc' = "next" /\ ai' = 1
    BY <1>4
    DEF Phased, Evaluating, Next, vars, Apply, PassThrough, Null, Govern, Governed, Governing,
        Enter, SkipMalformed, Visit, Traced, StartDeciding, Deciding, AcceptAct, LeaveAct,
        RejectAct, Conclude, CheckResult
  <2>3. IsSeq(log)' /\ Len(log') = 0 /\ Entries' = {}
    BY <2>1, EmptyIsSeq DEF IsSeq, Entries
  <2>4. pc' \in Evaluating => WalkedThrough({i \in ValidActs : i < ai})' = {}
    BY <2>2 DEF WalkedThrough, ValidActs
  <2> QED
    BY <2>1, <2>2, <2>3, <2>4 DEF Logged, StrictestOnEveryPath, InOrder, DualRecord
<1> QED
  BY <1>2, <1>3, <1>4 DEF Visit, Evaluating

(* What the walk has found at the terminals is what they call for.          *)
LEMMA TerminalsCall ==
    ASSUME Inputs, Aligned, Phased, Walked, Deciding
    PROVE  /\ ai \in ValidActs /\ (Terminals = {} <=> TerminalVerdicts(ai) = {})
           /\ Withheld = Held(ai) /\ Withheld \subseteq Verdict
<1> DEFINE R == Reach(patch, batch[ai].src)
           T == R \cap patch.egress
<1>1. pc = "walk" /\ ready = {} /\ pass = "decide"
  BY DEF Deciding
<1>2. DOMAIN eff = R /\ ai \in ValidActs
  BY <1>1, WalkCompletes, WalkIsSound DEF Act
<1>3. /\ DOMAIN outcome = R /\ \A g \in R : outcome[g] = Outcome(ai, g)
  BY <1>1, <1>2 DEF Walked
<1> HIDE DEF R
<1>4. \A g \in R : /\ outcome[g].verdict = PathVerdict(ai, g)
                   /\ outcome[g].master = Master(g, PathVerdict(ai, g))
  BY <1>3 DEF Outcome
<1>5. Terminals = T
  BY <1>3, <1>4 DEF Terminals, Master
<1>6. TerminalVerdicts(ai) = {PathVerdict(ai, g) : g \in T}
  BY DEF TerminalVerdicts, R
<1>7. \A g \in T : outcome[g].master = "withhold" <=> PathVerdict(ai, g) # "auto" \/ ~Attached
  BY <1>4 DEF Master
<1>8. Withheld = {PathVerdict(ai, g) : g \in {h \in T : outcome[h].master = "withhold"}}
  BY <1>4, <1>5 DEF Withheld
<1>9. Withheld = Held(ai)
  BY <1>6, <1>7, <1>8 DEF Held
<1>10. \A g \in R : PathVerdict(ai, g) \in Verdict
  <2> TAKE g \in R
  <2>1. batch[ai].src \in Gate /\ patch.pipes \in SUBSET (Gate \X Gate)
    BY <1>1, WalkIsSound DEF Act, IsPatch
  <2>2. g \in Gate
    BY <2>1, ReachProperties DEF R
  <2>3. g \in Path(ai, g)
    BY <2>1, <2>2, ReachProperties DEF Path, R
  <2> DEFINE V == {GradedVerdict(patch, h, batch[ai]) : h \in Path(ai, g)}
  <2>4. V \in SUBSET Verdict /\ V # {} /\ PathVerdict(ai, g) = Strictest(V)
    BY <2>3, GradedIsVerdict DEF PathVerdict
  <2> HIDE DEF V
  <2> QED
    BY <2>4, StrictestOf
<1> QED
  BY <1>2, <1>5, <1>6, <1>8, <1>9, <1>10

(* One more activation is answered.                                         *)
LEMMA OneMoreAnswered ==
    ASSUME Inputs, Aligned, Phased, ai <= Len(batch), UNCHANGED <<patch, batch>>, ai' = ai + 1
    PROVE  \A kinds : Answering(kinds)' =
              Answering(kinds) \cup (IF Answer(ai) \in kinds THEN {IdOf(ai)} ELSE {})
<1> TAKE kinds
<1>1. ai \in Nat \ {0}
  BY DEF Phased
<1>2. 1..(ai' - 1) = 1..(ai - 1) \cup {ai}
  BY <1>1
<1>3. \A i : Answer(i)' = Answer(i) /\ IdOf(i)' = IdOf(i)
  BY JudgedAsBefore
<1>4. Answering(kinds)' = {IdOf(i)' : i \in {j \in 1..(ai' - 1) : Answer(j)' \in kinds}}
  BY DEF Answering
<1> DEFINE J == {j \in 1..(ai - 1) \cup {ai} : Answer(j) \in kinds}
           K == {j \in 1..(ai' - 1) : Answer(j)' \in kinds}
<1>5. J = K
  BY <1>2, <1>3
<1>6. {IdOf(i) : i \in J} = Answering(kinds) \cup (IF Answer(ai) \in kinds THEN {IdOf(ai)} ELSE {})
  BY DEF Answering
<1> HIDE DEF J
<1>7. Answering(kinds)' = {IdOf(i)' : i \in J}
  BY <1>4, <1>5
<1> QED
  BY <1>3, <1>6, <1>7

(* A rejection is entered under the activation's id, with a reason of its   *)
(* own.                                                                     *)
LEMMA OneMoreRejected ==
    ASSUME Inputs, Aligned, Phased, Answered, pass = "decide", ai <= Len(batch),
           UNCHANGED <<patch, batch, accepted, undecided>>, ai' = ai + 1,
           NEW why, rejected' = Put(rejected, IdOf(ai), why),
           \/ Answer(ai) = "invalid" /\ why = "invalid"
           \/ Answer(ai) = "reject" /\ why # "invalid"
    PROVE  Answered'
<1>1. \A kinds : Answering(kinds)' =
          Answering(kinds) \cup (IF Answer(ai) \in kinds THEN {IdOf(ai)} ELSE {})
  BY OneMoreAnswered
<1>2. /\ accepted' = Answering({"accept"})' /\ undecided' = Answering({"leave"})'
      /\ DOMAIN rejected' = Answering({"reject", "invalid"})'
  BY <1>1 DEF Answered, Put
<1>3. ASSUME DistinctIds, NEW i \in 1..ai
      PROVE  /\ Answer(i) = "invalid" => rejected'[IdOf(i)] = "invalid"
             /\ Answer(i) = "reject" => rejected'[IdOf(i)] # "invalid"
  <2>1. ai \in Nat /\ Len(batch) \in Nat
    BY DEF Phased, Aligned, IsSeq
  <2>2. CASE i = ai
    BY <2>2 DEF Put
  <2>3. CASE i # ai
    <3>1. i \in 1..(ai - 1) /\ i \in 1..Len(batch) /\ ai \in 1..Len(batch)
      BY <2>1, <2>3
    <3>2. IdOf(i) # IdOf(ai)
      BY <1>3, <2>3, <3>1 DEF DistinctIds
    <3>3. /\ Answer(i) = "invalid" => rejected[IdOf(i)] = "invalid"
          /\ Answer(i) = "reject" => rejected[IdOf(i)] # "invalid"
      BY <1>3, <3>1 DEF Answered
    <3>4. Answer(i) \in {"reject", "invalid"} => IdOf(i) \in DOMAIN rejected
      BY <3>1 DEF Answered, Answering
    <3> QED
      BY <3>2, <3>3, <3>4 DEF Put
  <2> QED
    BY <2>2, <2>3
<1>4. ai' - 1 = ai
  BY DEF Phased
<1> QED
  BY <1>2, <1>3, <1>4, JudgedAsBefore DEF Answered

(* Every step keeps the partitions: each activation goes where its own      *)
(* terminals call for, and the others stay where they are.                  *)
LEMMA StepAnswered ==
    ASSUME Inputs, Aligned, Phased, Walked, Answered, [Next]_vars
    PROVE  Answered'
<1>1. CASE pass' # "decide"
  BY <1>1 DEF Answered
<1>2. CASE StartDeciding
  <2>1. ai' = 1 /\ accepted' = {} /\ undecided' = {} /\ DOMAIN rejected' = {}
    BY <1>2 DEF StartDeciding, Phased, answers, Empty
  <2>2. \A kinds : Answering(kinds)' = {}
    BY <2>1 DEF Answering
  <2> QED
    BY <2>1, <2>2 DEF Answered
<1>3. CASE pass = "decide"
  <2>1. pc \in Evaluating /\ UNCHANGED <<patch, batch>>
    <3>1. pc \in Evaluating
      BY <1>3 DEF Phased
    <3> QED
      BY <3>1, GivenStays, BatchStays
  <2>2. CASE UNCHANGED <<ai, pass, accepted, undecided, rejected>>
    <3>1. \A kinds : Answering(kinds)' = Answering(kinds)
      BY <2>1, <2>2, JudgedAsBefore DEF Answering
    <3> QED
      BY <1>3, <2>1, <2>2, <3>1, JudgedAsBefore DEF Answered
  <2>3. CASE SkipMalformed
    <3>1. /\ rejected' = Put(rejected, IdOf(ai), "invalid") /\ ai' = ai + 1
          /\ UNCHANGED <<accepted, undecided>> /\ ai <= Len(batch) /\ ai \notin ValidActs
      BY <1>3, <2>3 DEF SkipMalformed, ValidActs, Act
    <3>2. Answer(ai) = "invalid"
      BY <3>1 DEF Answer
    <3> QED
      BY <1>3, <2>1, <3>1, <3>2, OneMoreRejected
  <2>4. CASE AcceptAct \/ LeaveAct \/ RejectAct
    <3>1. Deciding /\ ai' = ai + 1
      BY <2>4 DEF AcceptAct, LeaveAct, RejectAct
    <3>2. /\ ai \in ValidActs /\ (Terminals = {} <=> TerminalVerdicts(ai) = {})
          /\ Withheld = Held(ai) /\ Withheld \subseteq Verdict
      BY <3>1, TerminalsCall
    <3>3. ai \in 1..Len(batch) /\ ai <= Len(batch)
      BY <3>2 DEF ValidActs
    <3>4. \A kinds : Answering(kinds)' =
              Answering(kinds) \cup (IF Answer(ai) \in kinds THEN {IdOf(ai)} ELSE {})
      BY <2>1, <3>1, <3>3, OneMoreAnswered
    <3>5. ASSUME Answer(ai) \in {"accept", "leave"}, rejected' = rejected,
                 accepted' = accepted \cup (IF Answer(ai) = "accept" THEN {IdOf(ai)} ELSE {}),
                 undecided' = undecided \cup (IF Answer(ai) = "leave" THEN {IdOf(ai)} ELSE {})
          PROVE  Answered'
      <4>1. /\ accepted' = Answering({"accept"})' /\ undecided' = Answering({"leave"})'
            /\ DOMAIN rejected' = Answering({"reject", "invalid"})'
        BY <1>3, <3>4, <3>5 DEF Answered
      <4>2. \A i \in 1..(ai' - 1) : i \in 1..(ai - 1) \/ i = ai
        BY <3>1 DEF Phased
      <4>3. DistinctIds => \A i \in 1..(ai' - 1) :
                /\ Answer(i) = "invalid" => rejected[IdOf(i)] = "invalid"
                /\ Answer(i) = "reject" => rejected[IdOf(i)] # "invalid"
        BY <1>3, <3>5, <4>2 DEF Answered
      <4> QED
        BY <2>1, <3>5, <4>1, <4>3, JudgedAsBefore DEF Answered
    <3>6. CASE AcceptAct
      <4>1. Answer(ai) = "accept"
        BY <3>2, <3>6 DEF AcceptAct, AcceptAll, Answer
      <4> QED
        BY <3>5, <3>6, <4>1 DEF AcceptAct
    <3>7. CASE LeaveAct
      <4>1. Answer(ai) = "leave"
        BY <3>2, <3>7 DEF LeaveAct, AcceptAll, Answer
      <4> QED
        BY <3>5, <3>7, <4>1 DEF LeaveAct
    <3>8. CASE RejectAct
      <4>1. Answer(ai) = "reject"
        BY <3>2, <3>8 DEF RejectAct, AcceptAll, Answer
      <4> DEFINE why == IF Withheld = {} THEN "refused" ELSE Strictest(Withheld)
      <4>2. why # "invalid"
        <5>1. why \in Verdict
          BY <3>2, StrictestOf, RankOf
        <5> HIDE DEF why
        <5> QED
          BY <5>1, RankOf
      <4>3. rejected' = Put(rejected, IdOf(ai), why) /\ UNCHANGED <<accepted, undecided>>
        BY <3>8 DEF RejectAct
      <4> HIDE DEF why
      <4> QED
        BY <1>3, <2>1, <3>1, <3>3, <4>1, <4>2, <4>3, OneMoreRejected
    <3> QED
      BY <2>4, <3>6, <3>7, <3>8
  <2> QED
    BY <1>3, <2>1, <2>2, <2>3, <2>4
    DEF Evaluating, Next, vars, answers, Apply, PassThrough, Null, Govern, Governed, Governing,
        Enter, Visit, Traced, StartDeciding, Conclude, CheckResult
<1>4. pass' = "decide" => pass = "decide" \/ StartDeciding
  BY DEF Next, vars, Apply, PassThrough, Null, Govern, Governed, Enter, SkipMalformed, Visit,
         Traced, AcceptAct, LeaveAct, RejectAct, Conclude, CheckResult
<1> QED
  BY <1>1, <1>2, <1>3, <1>4

(* Before apply nothing has been governed, walked or answered.              *)
LEMMA InitEstablishes == Init => IInv
<1> SUFFICES ASSUME Init PROVE IInv
  OBVIOUS
<1>1. PICK s \in Submissions : sent = s.batch /\ table = s.table
  BY DEF Init
<1>2. Inputs
  BY <1>1, PatchesAssumption, SubmissionsAssumption DEF Init, Inputs, IsSeq
<1>3. Len(sent) \in Nat
  BY <1>2 DEF Inputs, IsSeq
<1>4. Aligned
  <2>1. /\ batch = <<>> /\ declared = <<>> /\ Len(batch) = 0 /\ Len(declared) = 0
        /\ IsSeq(batch) /\ IsSeq(declared) /\ pc = "apply"
    BY EmptyIsSeq DEF Init
  <2>2. \A i \in 1..Len(batch) : Shown(i)
    BY <2>1
  <2> QED
    BY <1>3, <2>1, <2>2 DEF Aligned, Evaluating
<1>5. Phased
  BY <1>3 DEF Init, Phased, Evaluating
<1>6. Walked /\ Answered
  BY DEF Init, Walked, Answered
<1>7. Logged
  BY EmptyIsSeq
  DEF Init, Logged, StrictestOnEveryPath, InOrder, DualRecord, Evaluating
<1> QED
  BY <1>2, <1>4, <1>5, <1>6, <1>7 DEF IInv

(* The invariant holds in every state of every batch, patch and risk table. *)
THEOREM Invariance == Spec => []IInv
<1>1. Init => IInv
  BY InitEstablishes
<1>2. IInv /\ [Next]_vars => IInv'
  BY InputsStay, StepAligned, StepPhased, StepWalked, StepLogged, StepAnswered DEF IInv
<1> QED
  BY <1>1, <1>2, PTL DEF Spec

-----------------------------------------------------------------------------
(* What follows from the invariant.                                         *)

(* reason: what the log says of a gate is the strictest of what all gates   *)
(* between the source and it say, along every path and in whatever order    *)
(* the worklist takes them.                                                 *)
THEOREM AlwaysStrictestOnEveryPath == Spec => []StrictestOnEveryPath
<1>1. IInv => StrictestOnEveryPath
  BY DEF IInv, Logged
<1> QED
  BY <1>1, Invariance, PTL

(* _evaluate_with_log: once the trace is over the log holds every reached   *)
(* gate of every valid activation once, and no gate before one it can be    *)
(* reached from.                                                            *)
THEOREM AlwaysLogIsTopological == Spec => []LogIsTopological
<1>1. IInv => LogIsTopological
  <2> SUFFICES ASSUME IInv PROVE LogIsTopological
    OBVIOUS
  <2>1. pass = "decide" => pc \in Evaluating
    BY DEF IInv, Phased
  <2>2. InOrder /\ (pass = "decide" => Entries = WalkedThrough(ValidActs))
    BY <2>1 DEF IInv, Logged
  <2> QED
    BY <2>2 DEF LogIsTopological, InOrder, Entries, WalkedThrough
<1> QED
  BY <1>1, Invariance, PTL

(* The log's declared tokens: one that is shown beside a raised risk is the *)
(* one this very activation declared, whichever others of the batch were    *)
(* nulled, refused or passed through ungoverned.                            *)
THEOREM AlwaysDualRecord == Spec => []DualRecord
<1>1. IInv => DualRecord
  BY DEF IInv, Logged
<1> QED
  BY <1>1, Invariance, PTL

(* When ids are distinct, an activation is answered as it is called for.    *)
LEMMA AnsweredAlone ==
    ASSUME IInv, DistinctIds, NEW i \in 1..Len(batch), pass = "decide", NEW kinds,
           IdOf(i) \in Answering(kinds)
    PROVE  Answer(i) \in kinds
<1>1. PICK j \in 1..(ai - 1) : Answer(j) \in kinds /\ IdOf(j) = IdOf(i)
  BY DEF Answering
<1>2. j \in 1..Len(batch)
  <2>1. Len(batch) = Len(sent) /\ ai <= Len(sent) + 1 /\ ai \in Nat /\ Len(sent) \in Nat
    BY DEF IInv, Inputs, IsSeq, Phased, Aligned, Evaluating
  <2> QED
    BY <1>1, <2>1
<1> QED
  BY <1>1, <1>2 DEF DistinctIds

(* What is released was called for by its terminals, and by all its gates.  *)
LEMMA ReleaseIsMediated ==
    ASSUME IInv, DistinctIds, NEW i \in ValidActs, IdOf(i) \in accepted
    PROVE  /\ \A g \in Reach(patch, batch[i].src) : GradedVerdict(patch, g, batch[i]) = "auto"
           /\ Attached /\ IsPatch(patch) /\ Valid(patch)
<1>1. pass = "decide" /\ pc \in Evaluating
  BY DEF IInv, Phased
<1>2. i \in 1..Len(batch)
  BY DEF ValidActs
<1>3. IsPatch(patch) /\ Valid(patch)
  BY <1>1 DEF IInv, Inputs, Phased, Evaluating
<1>4. Answer(i) = "accept"
  <2>1. IdOf(i) \in Answering({"accept"})
    BY <1>1 DEF IInv, Answered
  <2>2. Answer(i) \in {"accept"}
    BY <1>1, <1>2, <2>1, AnsweredAlone
  <2> QED
    BY <2>2
<1>5. TerminalVerdicts(i) # {} /\ Held(i) = {}
  BY <1>4 DEF Answer
<1>6. \A v \in TerminalVerdicts(i) : v = "auto" /\ Attached
  BY <1>5 DEF Held
<1>7. batch[i].src \in Gate
  BY <1>2, EvaluatedAsSent DEF IInv
<1>8. \A g \in Reach(patch, batch[i].src) : PathVerdict(i, g) = Strictest(Said(patch, batch[i], g))
  BY DEF PathVerdict, Path, Said, OnTheWay
<1>9. Reach(patch, batch[i].src) \cap patch.egress # {}
  BY <1>5 DEF TerminalVerdicts
<1>10. \A g \in Reach(patch, batch[i].src) \cap patch.egress :
          Strictest(Said(patch, batch[i], g)) = "auto"
  BY <1>6, <1>8 DEF TerminalVerdicts
<1>11. \A g \in Reach(patch, batch[i].src) : GradedVerdict(patch, g, batch[i]) = "auto"
  BY <1>3, <1>7, <1>9, <1>10, TerminalsSpeakForAll
<1> QED
  BY <1>3, <1>5, <1>6, <1>11

(* decide: with distinct ids, what is released is let through by every gate *)
(* its activation reaches, on every branch, and every obligation is         *)
(* attached. Every reached gate leads to a terminal, and each terminal's    *)
(* verdict is the strictest on the way to it.                               *)
THEOREM AlwaysMediationIsComplete == Spec => []MediationIsComplete
<1>1. IInv => MediationIsComplete
  BY ReleaseIsMediated DEF MediationIsComplete, Attached
<1> QED
  BY <1>1, Invariance, PTL

(* decide: with distinct ids each activation is in one partition, the one   *)
(* its own terminals call for, whatever else is in the batch.               *)
THEOREM AlwaysAnsweredOnItsOwn == Spec => []AnsweredOnItsOwn
<1>1. IInv => AnsweredOnItsOwn
  <2> SUFFICES ASSUME IInv, pc \in {"concluded", "returned"}, DistinctIds,
                      NEW i \in 1..Len(batch)
               PROVE  LET held == Held(i)
                          here == <<IdOf(i) \in accepted, IdOf(i) \in undecided,
                                    IdOf(i) \in DOMAIN rejected>>
                      IN  IF i \notin ValidActs
                          THEN here = <<FALSE, FALSE, TRUE>> /\ rejected[IdOf(i)] = "invalid"
                          ELSE IF held = {} /\ TerminalVerdicts(i) # {}
                          THEN here = <<TRUE, FALSE, FALSE>>
                          ELSE IF held \cap {"human", "reserved"} # {}
                          THEN here = <<FALSE, TRUE, FALSE>>
                          ELSE here = <<FALSE, FALSE, TRUE>> /\ rejected[IdOf(i)] # "invalid"
    BY ZenonT(60) DEF AnsweredOnItsOwn, Held
  <2>1. pass = "decide" /\ ai = Len(batch) + 1 /\ Len(batch) \in Nat
    BY DEF IInv, Phased, Evaluating, Aligned, IsSeq
  <2>2. i \in 1..(ai - 1)
    BY <2>1
  <2>3. \A kinds : IdOf(i) \in Answering(kinds) <=> Answer(i) \in kinds
    <3>1. \A kinds : IdOf(i) \in Answering(kinds) => Answer(i) \in kinds
      BY <2>1, AnsweredAlone
    <3>2. \A kinds : Answer(i) \in kinds => IdOf(i) \in Answering(kinds)
      BY <2>2 DEF Answering
    <3> QED
      BY <3>1, <3>2
  <2>4. /\ IdOf(i) \in accepted <=> Answer(i) = "accept"
        /\ IdOf(i) \in undecided <=> Answer(i) = "leave"
        /\ IdOf(i) \in DOMAIN rejected <=> Answer(i) \in {"reject", "invalid"}
        /\ Answer(i) = "invalid" => rejected[IdOf(i)] = "invalid"
        /\ Answer(i) = "reject" => rejected[IdOf(i)] # "invalid"
    BY <2>1, <2>2, <2>3 DEF IInv, Answered
  <2> DEFINE in == IdOf(i) \in accepted
             open == IdOf(i) \in undecided
             out == IdOf(i) \in DOMAIN rejected
  <2>5. /\ Answer(i) = "accept" => <<in, open, out>> = <<TRUE, FALSE, FALSE>>
        /\ Answer(i) = "leave" => <<in, open, out>> = <<FALSE, TRUE, FALSE>>
        /\ Answer(i) \in {"reject", "invalid"} => <<in, open, out>> = <<FALSE, FALSE, TRUE>>
    <3>1. CASE Answer(i) = "accept"
      <4>1. in /\ ~open /\ ~out
        BY <2>4, <3>1
      <4>2. in = TRUE /\ open = FALSE /\ out = FALSE
        BY <4>1
      <4> HIDE DEF in, open, out
      <4> QED
        BY <3>1, <4>2
    <3>2. CASE Answer(i) = "leave"
      <4>1. ~in /\ open /\ ~out
        BY <2>4, <3>2
      <4>2. in = FALSE /\ open = TRUE /\ out = FALSE
        BY <4>1
      <4> HIDE DEF in, open, out
      <4> QED
        BY <3>2, <4>2
    <3>3. CASE Answer(i) \in {"reject", "invalid"}
      <4>1. ~in /\ ~open /\ out
        BY <2>4, <3>3
      <4>2. in = FALSE /\ open = FALSE /\ out = TRUE
        BY <4>1
      <4> HIDE DEF in, open, out
      <4> QED
        BY <3>3, <4>2
    <3>4. CASE Answer(i) \notin {"accept", "leave", "reject", "invalid"}
      BY <3>4
    <3> QED
      BY <3>1, <3>2, <3>3, <3>4
  <2> QED
    BY <2>4, <2>5, Zenon DEF Answer
<1> QED
  BY <1>1, Invariance, PTL

(* The check of delegations at apply: a grant lets nobody do what is not    *)
(* granted to every actor up its principal chain.                           *)
THEOREM AlwaysDelegationConfersNothing == Spec => []DelegationConfersNothing
<1>1. IInv => DelegationConfersNothing
  <2>1. IInv /\ pc = "next" => IsPatch(patch) /\ Valid(patch)
    BY DEF IInv, Inputs, Phased
  <2> QED
    BY <2>1, DelegationInValid DEF DelegationConfersNothing
<1> QED
  BY <1>1, Invariance, PTL

(* The check of transfers at apply together with the decision: what is      *)
(* released at a consigning gate was within the mandates of the proposing   *)
(* actor and of everyone up its principal chain.                            *)
THEOREM AlwaysOnwardAsMandated == Spec => []OnwardAsMandated
<1>1. IInv => OnwardAsMandated
  <2> SUFFICES ASSUME IInv, NEW i \in ValidActs, DistinctIds, IdOf(i) \in accepted,
                      NEW g \in Reach(patch, batch[i].src) \cap patch.egress,
                      NEW t \in patch.transfers, patch.consign[g] = t.to,
                      t.kind = batch[i].token.kind, NEW b \in Principals(batch[i].actor)
               PROVE  t.within \subseteq patch.mandate[b]
    BY DEF OnwardAsMandated
  <2> DEFINE a == batch[i].actor
             risk == EffectiveRisk(patch, g, batch[i].token)
  <2>1. GradedVerdict(patch, g, batch[i]) = "auto" /\ IsPatch(patch) /\ Valid(patch)
    BY ReleaseIsMediated
  <2>2. Authorized(patch, g, a, t.kind, risk) /\ a # NoActor
    BY <2>1, SaysAuto
  <2>3. a \in Actor
    BY <2>2, EvaluatedAsSent DEF IInv, ValidActs
  <2> HIDE DEF risk
  <2> QED
    BY <2>1, <2>2, <2>3, TransfersAreMandated
<1> QED
  BY <1>1, Invariance, PTL

(* A looked-up risk is one, and governing only ever raises it.              *)
LEMMA GovernedAtLeast ==
    ASSUME IsTable(table), table # NoTable, NEW t, IsToken(t), NEW o
    PROVE  LET seen == IF o.kind = Unclassifiable \/ Mapped(o) = {} THEN MaxRisk ELSE Lookup(o)
           IN  /\ seen \in Risk /\ GovernedRisk(t, o) \in Risk
               /\ seen <= GovernedRisk(t, o)
<1>1. MaxRisk \in Risk /\ \A r \in Risk : r \in Int /\ r <= MaxRisk
  BY GraphAssumption DEF Risk
<1>2. Mapped(o) # {} => Lookup(o) \in Risk
  <2> SUFFICES ASSUME Mapped(o) # {} PROVE Lookup(o) \in Risk
    OBVIOUS
  <2> DEFINE n == CHOOSE n \in Mapped(o) : \A m \in Mapped(o) : n <= m
  <2>1. Mapped(o) \in SUBSET Nat
    BY DEF Mapped
  <2>2. \E k \in Mapped(o) : \A m \in Mapped(o) : k <= m
    BY <2>1, SmallestNat
  <2>3. n \in Mapped(o)
    BY <2>2
  <2>4. Keys(o)[n] \in DOMAIN table
    BY <2>3 DEF Mapped
  <2>5. table[Keys(o)[n]] \in Risk
    BY <2>4 DEF IsTable
  <2> QED
    BY <2>5 DEF Lookup
<1>3. t.risk \in Risk
  BY DEF IsToken
<1> QED
  BY <1>1, <1>2, <1>3 DEF GovernedRisk

(* govern (prom001.py) together with the decision: with monotone grants and *)
(* clauses an observed activation is released only if it would be on the    *)
(* host's observation alone, whatever kind and risk its token declared.     *)
THEOREM AlwaysClaimBuysNothing == Spec => []ClaimBuysNothing
<1>1. IInv => ClaimBuysNothing
  <2> SUFFICES ASSUME IInv, table # NoTable, Monotone, NEW i \in ValidActs,
                      ~Ungoverned(sent[i]), DistinctIds, IdOf(i) \in accepted,
                      NEW g \in Reach(patch, sent[i].src)
               PROVE  GradedVerdict(patch, g, AsObserved(sent[i])) = "auto"
    BY DEF ClaimBuysNothing
  <2> DEFINE s == sent[i]
             o == s.observed
             high == batch[i]
             low == AsObserved(s)
  <2>1. i \in 1..Len(batch) /\ i \in 1..Len(sent) /\ high.shape = "valid"
    BY DEF IInv, Inputs, Aligned, IsSeq, ValidActs
  <2>2. IsActivation(s) /\ Shown(i) /\ IsTable(table) /\ high.src = s.src /\ s.src \in Gate
    BY <2>1, EvaluatedAsSent DEF IInv, Inputs, Aligned
  <2>3. ~Refused(s)
    <3>1. Refused(s) => high = [s EXCEPT !.shape = "alien"]
      BY <2>2 DEF Shown
    <3> QED
      BY <2>1, <2>2, <3>1 DEF IsActivation
  <2>4. high = [s EXCEPT !.token.kind = o.kind, !.token.risk = GovernedRisk(s.token, o)]
    BY <2>2, <2>3 DEF Shown
  <2>5. GradedVerdict(patch, g, high) = "auto" /\ IsPatch(patch)
    BY <2>2, ReleaseIsMediated
  <2>6. g \in Gate
    BY <2>2, <2>5, ReachProperties DEF IsPatch
  <2> DEFINE seen == IF o.kind = Unclassifiable \/ Mapped(o) = {} THEN MaxRisk ELSE Lookup(o)
  <2>7. IsToken(s.token)
    BY <2>2 DEF IsActivation
  <2>8. seen \in Risk /\ GovernedRisk(s.token, o) \in Risk /\ seen <= GovernedRisk(s.token, o)
    BY <2>2, <2>7, GovernedAtLeast
  <2>9. low = [s EXCEPT !.token.kind = o.kind, !.token.risk = seen]
    BY DEF AsObserved
  <2> DEFINE gr == GovernedRisk(s.token, o)
  <2> HIDE DEF seen, o, gr
  <2>10. /\ high.src = low.src /\ high.actor = low.actor
         /\ high.token = [s.token EXCEPT !.kind = o.kind, !.risk = gr]
         /\ low.token = [s.token EXCEPT !.kind = o.kind, !.risk = seen]
    <3>1. DOMAIN s = {"src", "actor", "token", "shape", "observed"}
      BY <2>2 DEF IsActivation
    <3> HIDE DEF s, high, low
    <3> QED
      BY <2>4, <2>9, <3>1 DEF gr
  <2>11. /\ high.token.risk = gr /\ low.token.risk = seen /\ low.token.kind = high.token.kind
         /\ low.token.party = high.token.party
         /\ low.token.reversibility = high.token.reversibility
         /\ low.token.uncertainty = high.token.uncertainty
         /\ low.token.tags = high.token.tags
    <3> DEFINE u == s.token
    <3>1. u \in [id : Nat, kind : Kind, risk : Risk, party : Party,
                 reversibility : Int, uncertainty : Int, tags : SUBSET Tag]
      BY <2>7 DEF IsToken
    <3> HIDE DEF u, high, low, s
    <3>2. /\ high.token = [u EXCEPT !.kind = o.kind, !.risk = gr]
          /\ low.token = [u EXCEPT !.kind = o.kind, !.risk = seen]
      BY <2>10 DEF u
    <3> QED
      BY <3>1, <3>2
  <2>12. gr \in Risk /\ seen \in Risk /\ seen <= gr
    BY <2>8 DEF gr
  <2> HIDE DEF high, low, s
  <2>13. GradedVerdict(patch, g, low) = "auto"
    BY <2>5, <2>6, <2>10, <2>11, <2>12, LowerRiskPasses
  <2> QED
    BY <2>13 DEF low, s
<1> QED
  BY <1>1, Invariance, PTL
=============================================================================
