----------------------------- MODULE GraphHarness -----------------------------
(***************************************************************************)
(* The four constructions that turn a proposed graph into edges a fact      *)
(* space can be built from: causal_construction.py,                         *)
(* structural_construction.py, temporal_construction.py and                 *)
(* relational_construction.py.                                              *)
(*                                                                         *)
(* A proposal is a record of sequences of claims.  Every claim says whether *)
(* all its spans occur in the text and how confident the model is; a claim  *)
(* of an edge runs from a literal to a literal, NoLiteral being an empty    *)
(* name.  A result has a status, extracted, rejected or escalated, and      *)
(* whatever of the proposal survives.                                       *)
(***************************************************************************)
EXTENDS Gates, Paths

Status(outcome) == IF outcome = "accepted" THEN "extracted" ELSE outcome

Grounded(claims)  == AllGrounded(Range(claims))
Named(claims)     == \A c \in Range(claims) : c.from # NoLiteral /\ c.to # NoLiteral
Pairs(claims)     == [i \in 1..Len(claims) |-> <<claims[i].from, claims[i].to>>]
ClaimEdges(claims, dimension) ==
    [i \in 1..Len(claims) |->
        Edge(claims[i].from, "claim", claims[i].to, dimension, 100 - claims[i].confidence)]

(* Where an edge starts is a fact, and every edge a rule: no literal and    *)
(* its negation may both be reached.                                        *)
AuditGraph(nodes, claims) ==
    Sound(nodes \cup {c.from : c \in Range(claims)},
          [i \in 1..Len(claims) |-> Rule({claims[i].from}, claims[i].to, {}, NoModality)],
          NoLiteral)

-----------------------------------------------------------------------------
ClaimsThat(p, status) ==
    PartAt(p.claims, {i \in 1..Len(p.claims) : p.claims[i].status = status})

Stateds(p)      == ClaimsThat(p, "stated")
Presupposeds(p) == ClaimsThat(p, "presupposed")

(* What the text only assumes is material when the model says so, or when   *)
(* nothing is stated besides.                                               *)
Material(p) == \/ \E c \in Range(Presupposeds(p)) : c.loadBearing
               \/ Stateds(p) = <<>> /\ Presupposeds(p) # <<>>

CausalGates == <<"decode", "wellformed", "grounding", "materiality", "audit", "confidence">>

CausalOk(p, gate) ==
    CASE gate = "decode"      -> p.decodes
      [] gate = "wellformed"  -> /\ Named(p.claims)
                                 /\ \A c \in Range(p.claims) :
                                       c.status \in {"stated", "presupposed"}
      [] gate = "grounding"   -> Grounded(Stateds(p))
      [] gate = "materiality" -> ~Material(p)
      [] gate = "audit"       -> AuditGraph({}, Stateds(p))
      [] gate = "confidence"  -> Confident(Range(Stateds(p)))

(* Mutant: what the text only assumes becomes an edge like any other.       *)
GroundPresupposed(p) ==
    LET outcome == Outcome(CausalGates, {"decode", "wellformed", "grounding"},
                           [g \in Range(CausalGates) |-> CausalOk(p, g)])
    IN  [status      |-> Status(outcome),
         edges       |-> IF outcome = "accepted" THEN ClaimEdges(p.claims, "causal") ELSE <<>>,
         presupposed |-> {}]

(* Stated links become edges; presupposed ones are only ever surfaced, also *)
(* by an escalation, though not by a rejection.                             *)
ConstructCausal(p) ==
    LET outcome == Outcome(CausalGates, {"decode", "wellformed", "grounding"},
                           [g \in Range(CausalGates) |-> CausalOk(p, g)])
    IN  [status      |-> Status(outcome),
         edges       |-> IF outcome = "accepted" THEN ClaimEdges(Stateds(p), "causal") ELSE <<>>,
         presupposed |-> IF outcome = "rejected" THEN {} ELSE Range(Pairs(Presupposeds(p)))]

-----------------------------------------------------------------------------
(* The two hierarchy predicates.  A whole's has-part and a part's part-of   *)
(* are the same predicate in the same direction.                            *)
NormPredicate(q) ==
    CASE q \in {"is-a", "isa", "kind-of", "subclass", "subclass-of", "instance-of"} -> "is-a"
      [] q \in {"part-of", "partof", "has-part", "component-of", "contains", "composed-of"}
           -> "part-of"
      [] OTHER -> "none"

EdgeNodes(claims) == UNION {{c.from, c.to} : c \in Range(claims)}

(* The terms an edge or a definition uses that nothing defines.             *)
UndefinedTerms(p) ==
    (EdgeNodes(p.edges) \cup UNION {d.uses : d \in Range(p.definitions)})
    \ ({c.literal : c \in Range(p.concepts)} \cup {d.literal : d \in Range(p.definitions)}
       \cup p.external)

(* The search starts from every node an edge leaves, in edge order.         *)
CyclicHierarchy(nodes, claims) ==
    HasCycle(Successors(nodes, Pairs(claims)), [i \in 1..Len(claims) |-> claims[i].from])

StructuralGates ==
    <<"decode", "grounding", "wellformed", "acyclicity", "closure", "audit", "confidence">>

StructuralOk(p, gate) ==
    CASE gate = "decode"     -> p.decodes
      [] gate = "grounding"  -> Grounded(p.concepts \o p.edges \o p.definitions)
      [] gate = "wellformed" -> /\ p.concepts # <<>> /\ Named(p.edges)
                                /\ \A e \in Range(p.edges) : NormPredicate(e.predicate) # "none"
      [] gate = "acyclicity" -> ~CyclicHierarchy(EdgeNodes(p.edges), p.edges)
      [] gate = "closure"    -> UndefinedTerms(p) = {}
      [] gate = "audit"      -> AuditGraph({c.literal : c \in Range(p.concepts)}, p.edges)
      [] gate = "confidence" -> Confident(Range(p.concepts \o p.edges \o p.definitions))

ConstructStructure(p) ==
    LET ok      == [g \in Range(StructuralGates) |-> StructuralOk(p, g)]
        k       == FirstFailing(StructuralGates, ok)
        outcome == Outcome(StructuralGates, {"decode", "grounding", "wellformed"}, ok)
    IN  [status  |-> Status(outcome),
         edges   |-> IF outcome = "accepted" THEN ClaimEdges(p.edges, "structural") ELSE <<>>,
         flagged |-> IF k <= Len(StructuralGates) /\ StructuralGates[k] = "closure"
                     THEN UndefinedTerms(p) ELSE {}]

-----------------------------------------------------------------------------
(* A transition may loop; an ordering may not.                              *)
TemporalClaims(p) == p.states \o p.transitions \o p.orderings \o p.deadlines

DefinedEvents(p) == {s.literal : s \in Range(p.states)}
                    \cup EdgeNodes(p.transitions) \cup EdgeNodes(p.orderings)

Unanchored(p) == {d \in Range(p.deadlines) : d.anchor \notin DefinedEvents(p)}

TemporalGates ==
    <<"decode", "wellformed", "grounding", "acyclicity", "anchoring", "audit", "confidence">>

TemporalOk(p, gate) ==
    CASE gate = "decode"     -> p.decodes
      [] gate = "wellformed" -> /\ \A s \in Range(p.states) : s.literal # NoLiteral
                                /\ Named(p.transitions) /\ Named(p.orderings)
                                /\ \A d \in Range(p.deadlines) :
                                      d.anchor # NoLiteral /\ d.parses
                                      /\ d.direction \in {"after", "before"}
      [] gate = "grounding"  -> Grounded(TemporalClaims(p))
      [] gate = "acyclicity" -> ~CyclicHierarchy(EdgeNodes(p.orderings), p.orderings)
      [] gate = "anchoring"  -> Unanchored(p) = {}
      [] gate = "audit"      -> AuditGraph({}, p.orderings)
      [] gate = "confidence" -> Confident(Range(TemporalClaims(p)))

ConstructTemporal(p) ==
    LET ok      == [g \in Range(TemporalGates) |-> TemporalOk(p, g)]
        k       == FirstFailing(TemporalGates, ok)
        outcome == Outcome(TemporalGates, {"decode", "wellformed", "grounding"}, ok)
        kept(claims) == IF outcome = "accepted" THEN claims ELSE <<>>
    IN  [status    |-> Status(outcome),
         edges     |-> ClaimEdges(kept(p.orderings), "temporal"),
         moves     |-> ClaimEdges(kept(p.transitions), "temporal"),
         deadlines |-> kept(p.deadlines),
         flagged   |-> IF k <= Len(TemporalGates) /\ TemporalGates[k] = "anchoring"
                       THEN Unanchored(p) ELSE {}]

-----------------------------------------------------------------------------
(* Each advantage entails a position of the counterparty.                   *)
Correlative == [claim |-> "duty", privilege |-> "no-claim", power |-> "liability",
                immunity |-> "disability"]
Advantages  == DOMAIN Correlative
Incidents   == Advantages \cup {Correlative[a] : a \in Advantages}

Lonely(p) == {j \in Range(p.jural) : j.incident \in Advantages /\ j.to = NoLiteral}

Correlatives(p) ==
    {[role |-> j.to, incident |-> Correlative[j.incident], toward |-> j.from] :
        j \in {k \in Range(p.jural) : k.incident \in Advantages /\ k.to # NoLiteral}}

(* The relations that are spoken of: the word escalate in a table entry is  *)
(* not taken for the name of one.                                           *)
Vocabulary(p) ==
    ({e.predicate : e \in Range(p.relations)} \cup UNION {Range(c) : c \in p.chains}
     \cup (UNION {Range(q) : q \in DOMAIN p.table} \ {"escalate"})) \ {NoLiteral}

RoleNames(p) == {r.literal : r \in Range(p.roles)} \ {NoLiteral}

RelationalGates ==
    <<"decode", "grounding", "wellformed", "correlativity", "algebra", "composability",
      "audit", "confidence">>

RelationalOk(p, gate) ==
    CASE gate = "decode"        -> p.decodes
      [] gate = "grounding"     -> Grounded(p.roles \o p.relations \o p.jural)
      [] gate = "wellformed"    -> /\ p.roles # <<>> /\ Named(p.relations)
                                   /\ \A e \in Range(p.relations) : e.predicate # NoLiteral
                                   /\ EdgeNodes(p.relations) \subseteq RoleNames(p)
                                   /\ \A j \in Range(p.jural) :
                                         /\ j.incident \in Incidents
                                         /\ j.from \in RoleNames(p)
                                         /\ j.to \in RoleNames(p) \cup {NoLiteral}
      [] gate = "correlativity" -> Lonely(p) = {}
      [] gate = "algebra"       -> \A q \in DOMAIN p.table : Range(q) \subseteq Vocabulary(p)
      [] gate = "composability" -> \A c \in p.chains : ~ComposeChain(p.table, c).escalated
      [] gate = "audit"         -> AuditGraph(RoleNames(p), p.relations)
      [] gate = "confidence"    -> Confident(Range(p.roles \o p.relations \o p.jural))

(* Correlatives are surfaced as soon as they are derived.                   *)
ConstructRelational(p) ==
    LET outcome == Outcome(RelationalGates, {"decode", "grounding", "wellformed", "algebra"},
                           [g \in Range(RelationalGates) |-> RelationalOk(p, g)])
    IN  [status       |-> Status(outcome),
         edges        |-> IF outcome = "accepted"
                          THEN ClaimEdges(p.relations, "relational") ELSE <<>>,
         correlatives |-> IF outcome = "rejected" THEN {} ELSE Correlatives(p),
         lonely       |-> IF outcome = "rejected" THEN {} ELSE Lonely(p)]
=============================================================================
