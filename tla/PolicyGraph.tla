------------------------------ MODULE PolicyGraph ------------------------------
(***************************************************************************)
(* A Loomground policy graph, what makes it well formed at the apply stage  *)
(* (validate) and the verdict one gate gives on its own                     *)
(* (_gate_own_verdict), from src/src/loomground_solver/loomground.py.       *)
(*                                                                         *)
(* Risks and grades are ranks.  An actor without a grade and a gate that    *)
(* requires none both rank -1, which is how grade_meets treats them; so do  *)
(* a token's reversibility and uncertainty when it declares none.           *)
(***************************************************************************)
EXTENDS Integers, Sequences, FiniteSets, Reachability

CONSTANTS
    Gate, Actor, Kind,
    MaxRisk, MaxGrade,   \* the top ranks of the two ladders
    NoActor,             \* no delegator, or no proposing actor
    Purpose, Party, Tag,
    NoParty,             \* a gate that consigns to nobody
    NoGuard              \* a clause without "when"

(* A patch names finitely many gates and actors; the ladders have a bottom. *)
ASSUME GraphAssumption ==
    /\ IsFiniteSet(Gate) /\ IsFiniteSet(Actor)
    /\ MaxRisk \in Nat /\ NoActor \notin Actor

Risk  == 0..MaxRisk
Grade == -1..MaxGrade

Grants == [actor : Actor, gate : Gate, kinds : SUBSET Kind, risks : SUBSET Risk]

(* "when field op value", over a token's risk, other levels, party or tags. *)
IsGuard(w) == \/ w = NoGuard
              \/ /\ w.field \in {"risk", "reversibility", "uncertainty"}
                 /\ w.op \in {">=", "="} /\ w.val \in Nat
              \/ w.field \in {"kind", "party"} /\ w.op = "="
              \/ w.field = "tags" /\ w.op = "contains"

IsClause(c) == c.kind \in Kind /\ IsGuard(c.when)

IsToken(t) == t \in [id : Nat, kind : Kind, risk : Risk, party : Party,
                     reversibility : Int, uncertainty : Int, tags : SUBSET Tag]

Transfers == [kind : Kind, to : Party, within : SUBSET Purpose]

(* A parsed patch.  gates lists the gate ids in declaration order.          *)
IsPatch(p) ==
    /\ p.gates \in Seq(Gate)
    /\ \A i, j \in 1..Len(p.gates) : p.gates[i] = p.gates[j] => i = j
    /\ p.pipes \subseteq Gate \X Gate /\ p.egress \subseteq Gate
    /\ p.authority \subseteq Actor \X Gate /\ p.grants \subseteq Grants
    /\ p.floor \in [Gate -> Risk] /\ p.required \in [Gate -> Grade]
    /\ p.grade \in [Actor -> Grade] /\ p.boss \in [Actor -> Actor \cup {NoActor}]
    /\ \A c \in p.reserved \cup p.prohibited : IsClause(c)
    /\ p.obligations \subseteq Gate
    /\ p.mandate \in [Actor -> SUBSET Purpose]
    /\ p.consign \in [Gate -> Party \cup {NoParty}] /\ p.transfers \subseteq Transfers

Declared(p) == {p.gates[i] : i \in 1..Len(p.gates)}

Preds(p, g) == {h \in Gate : <<h, g>> \in p.pipes}

(* The gates reached from src along pipes, src included.                    *)
Reach(p, src) == Closure(Gate, p.pipes, src)

-----------------------------------------------------------------------------
(* validate                                                                 *)

(* Every gate lies on a pipe or egress path to the master.                  *)
ReachesMaster(p) == \A g \in Declared(p) : Reach(p, g) \cap p.egress # {}

Links(p) == {<<a, p.boss[a]>> : a \in {b \in Actor : p.boss[b] # NoActor}}

(* The risks an actor's grants cover over a kind at a gate.                 *)
RiskSet(p, a, g, k) ==
    UNION {IF r.kinds = {} \/ r.risks = {} THEN Risk ELSE r.risks :
              r \in {q \in p.grants : /\ q.actor = a /\ q.gate = g
                                      /\ q.kinds = {} \/ k \in q.kinds}}

BareAt(p, a, g) == \E r \in p.grants : r.actor = a /\ r.gate = g /\ r.kinds = {}

(* Mutant: a delegate is held to its delegator's kinds, not to its risks.   *)
AttenuatesKinds(p) ==
    \A l \in Links(p), r \in p.grants : r.actor = l[1] =>
        IF r.kinds = {} THEN BareAt(p, l[2], r.gate)
        ELSE \A k \in r.kinds : RiskSet(p, l[2], r.gate, k) # {}

(* Delegation never amplifies a declared grant, link by link.               *)
Attenuates(p) ==
    \A l \in Links(p), r \in p.grants : r.actor = l[1] =>
        IF r.kinds = {} THEN BareAt(p, l[2], r.gate)
        ELSE \A k \in r.kinds :
                (IF r.risks = {} THEN Risk ELSE r.risks) \subseteq RiskSet(p, l[2], r.gate, k)

(* Mutant: an actor that a bare authority cord authorizes is left out.      *)
GrantedByClause(p, g, k) ==
    {r.actor : r \in {q \in p.grants : q.gate = g /\ (q.kinds = {} \/ k \in q.kinds)}}

(* The actors that may act on kind k at g, at some risk: by a grant clause, *)
(* or, with no clause of theirs at g, by a bare authority cord.             *)
GrantedOver(p, g, k) ==
    {r.actor : r \in {q \in p.grants : q.gate = g /\ (q.kinds = {} \/ k \in q.kinds)}}
    \cup {a \in Actor : /\ <<a, g>> \in p.authority
                       /\ ~\E r \in p.grants : r.actor = a /\ r.gate = g}

(* A transfer goes to a consignee some gate declares, for purposes that     *)
(* every actor granted over its kind there is mandated to pursue.           *)
Licensed(p, t) ==
    LET consigning == {g \in Declared(p) : p.consign[g] = t.to}
    IN  /\ consigning # {} /\ t.within # {}
        /\ \A g \in consigning : \A a \in GrantedOver(p, g, t.kind) :
              t.within \subseteq p.mandate[a]

Valid(p) ==
    /\ p.pipes \subseteq Declared(p) \X Declared(p)
    /\ p.egress \cup p.obligations \subseteq Declared(p)
    /\ ReachesMaster(p)
    /\ Acyclic(Gate, p.pipes)
    /\ \A g \in Gate : p.required[g] # -1 => Preds(p, g) = {}
    /\ \A l \in Links(p) : p.grade[l[1]] <= p.grade[l[2]]
    /\ Acyclic(Actor, Links(p))
    /\ Attenuates(p)
    /\ \A g \in Declared(p) : p.consign[g] # NoParty => g \in p.egress
    /\ \A l \in Links(p) : p.mandate[l[1]] \subseteq p.mandate[l[2]]
    /\ \A t \in p.transfers : Licensed(p, t)

-----------------------------------------------------------------------------
(* One gate's own verdict on a token.                                       *)

(* verdicts.json, from the most permissive to the most restrictive.         *)
Verdicts == <<"auto", "human", "refused", "reserved", "prohibited">>
Verdict  == {Verdicts[i] : i \in 1..5}
Rank(v)  == CHOOSE i \in 1..5 : Verdicts[i] = v

(* Strictest wins.                                                          *)
Strictest(V) == CHOOSE v \in V : \A w \in V : Rank(w) <= Rank(v)

(* A gate's floor raises the token's risk and never lowers it.              *)
EffectiveRisk(p, g, t) == IF t.risk < p.floor[g] THEN p.floor[g] ELSE t.risk

(* Only the risk is raised by the gate; the other levels are the token's.   *)
Level(t, field, risk) == IF field = "risk" THEN risk ELSE t[field]

GuardHolds(w, t, risk) ==
    \/ w = NoGuard
    \/ w.op = ">=" /\ Level(t, w.field, risk) >= w.val
    \/ w.op = "=" /\ Level(t, w.field, risk) = w.val
    \/ w.op = "contains" /\ w.val \in t.tags

Holds(clauses, t, risk) ==
    \E c \in clauses : c.kind = t.kind /\ GuardHolds(c.when, t, risk)

(* A grant clause covers kind and risk; with no grant clause at this gate a *)
(* bare authority cord does.                                                *)
Authorized(p, g, a, kind, risk) ==
    LET here == {r \in p.grants : r.gate = g /\ r.actor = a}
    IN  IF here = {} THEN <<a, g>> \in p.authority
        ELSE \E r \in here : \/ r.kinds = {}
                             \/ kind \in r.kinds /\ (r.risks = {} \/ risk \in r.risks)

(* Assignment priority: prohibited > refused > reserved > auto.             *)
OwnVerdict(p, g, t, a) ==
    LET risk == EffectiveRisk(p, g, t)
    IN  IF Holds(p.prohibited, t, risk) THEN "prohibited"
        ELSE IF a = NoActor \/ ~Authorized(p, g, a, t.kind, risk) THEN "refused"
        ELSE IF Holds(p.reserved, t, risk) THEN "reserved"
        ELSE "auto"

GradeOf(p, a) == IF a = NoActor THEN -1 ELSE p.grade[a]

(* Grade is compared at the gate entered only, and only on auto.            *)
GradedVerdict(p, g, act) ==
    LET v == OwnVerdict(p, g, act.token, act.actor)
    IN  IF g = act.src /\ v = "auto" /\ GradeOf(p, act.actor) < p.required[g]
        THEN "human" ELSE v
=============================================================================
