-------------------------------- MODULE MCReason --------------------------------
(***************************************************************************)
(* Small policy graphs.  Shapes ranges over every pipe and egress relation  *)
(* on three gates; Diamond is the four-gate graph with two paths to one     *)
(* terminal, in several declaration orders; Delegations varies grants along *)
(* a principal chain of three actors on one gate; Consignments varies       *)
(* mandates and transfers; Guards varies what clauses test.                 *)
(***************************************************************************)
EXTENDS Reason, TLC

CONSTANTS g1, g2, g3, g4, a1, a2, a3, k1, k2, u1, u2, x1, x2, t1

MCGate == {g1, g2, g3, g4}
MCActor == {a1, a2, a3}
MCKind == {k1, k2}
MCPurpose == {u1, u2}
MCParty == {x1, x2}
MCTag == {t1}

When(field, op, val) == [field |-> field, op |-> op, val |-> val]
C(k, w) == [kind |-> k, when |-> w]
Medium == C(k1, When("risk", ">=", 1))

G(a, g, ks, rs) == [actor |-> a, gate |-> g, kinds |-> ks, risks |-> rs]

(* a1 is graded 1 and granted everywhere, at g3 for low and medium k1 only. *)
Base == [gates |-> <<g1, g2, g3>>,
         pipes |-> {<<g1, g2>>, <<g2, g3>>}, egress |-> {g3},
         authority |-> {<<a2, g1>>, <<a1, g4>>},
         grants |-> {G(a1, g1, {}, {}), G(a1, g2, {k1, k2}, {}), G(a1, g3, {k1}, {0, 1})},
         floor |-> [g \in MCGate |-> IF g = g2 THEN 1 ELSE 0],
         required |-> [g \in MCGate |-> -1],
         grade |-> [a \in MCActor |-> IF a = a1 THEN 1 ELSE -1],
         boss |-> [a \in MCActor |-> NoActor],
         reserved |-> {Medium},
         prohibited |-> {C(k1, When("risk", ">=", 2))},
         obligations |-> {},
         mandate |-> [a \in MCActor |-> {}], consign |-> [g \in MCGate |-> NoParty],
         transfers |-> {}]

Shapes == {[Base EXCEPT !.pipes = ps, !.egress = eg, !.obligations = ob, !.reserved = rv] :
              ps \in SUBSET {<<g1, g2>>, <<g1, g3>>, <<g2, g3>>, <<g3, g1>>, <<g3, g2>>},
              eg \in SUBSET {g1, g2, g3}, ob \in {{}, {g1}},
              rv \in {{}, {Medium}}}

Diamond == {[Base EXCEPT !.gates = order, !.pipes = {<<g1, g2>>, <<g1, g3>>, <<g2, g4>>, <<g3, g4>>} \cup more,
                         !.egress = {g4} \cup eg, !.required = [@ EXCEPT ![g1] = rq],
                         !.reserved = rv] :
               order \in {<<g1, g2, g3, g4>>, <<g4, g3, g2, g1>>, <<g2, g1, g4, g3>>},
               more \in {{}, {<<g1, g4>>}, {<<g3, g2>>}}, eg \in {{}, {g2}},
               rq \in {-1, 1, 2}, rv \in {{}, {Medium}}}

ChainGrants == {{}, {G(a1, g1, {}, {})}, {G(a1, g1, {k1}, {})}, {G(a1, g1, {k1, k2}, {0, 1})}}

Renamed(rs, a) == {[r EXCEPT !.actor = a] : r \in rs}

Delegations == {[Base EXCEPT !.gates = <<g1>>, !.pipes = {}, !.egress = {g1},
                             !.grants = top \cup Renamed(mid, a2) \cup Renamed(low, a3),
                             !.authority = {}, !.boss = chain, !.grade = gr] :
                   top \in ChainGrants, mid \in ChainGrants, low \in ChainGrants,
                   chain \in {[a \in MCActor |-> IF a = a3 THEN a2 ELSE IF a = a2 THEN a1 ELSE NoActor],
                              [a \in MCActor |-> IF a = a3 THEN a2 ELSE IF a = a2 THEN a3 ELSE NoActor]},
                   gr \in {[a \in MCActor |-> 1], [a \in MCActor |-> IF a = a1 THEN 0 ELSE 1]}}

(* g1 feeds g2, which consigns to x1; a1 acts for a2 or for itself, by      *)
(* grant clauses or by cords.                                               *)
Consignments ==
    {[Base EXCEPT !.gates = <<g1, g2>>, !.pipes = {<<g1, g2>>}, !.egress = eg,
                  !.consign = [@ EXCEPT ![g2] = x1],
                  !.grants = gs, !.authority = {<<a1, g1>>, <<a1, g2>>, <<a2, g1>>},
                  !.reserved = {}, !.boss = [@ EXCEPT ![a1] = bs],
                  !.mandate = [@ EXCEPT ![a1] = m1, ![a2] = m2], !.transfers = ts] :
        eg \in {{g2}, {g1, g2}},
        gs \in {{}, {G(a1, g2, {k1}, {}), G(a2, g2, {k1, k2}, {})}},
        bs \in {NoActor, a2},
        m1 \in {{}, {u1}, {u1, u2}}, m2 \in {{}, {u1}},
        ts \in {{}, {[kind |-> k1, to |-> x1, within |-> {u1}]},
               {[kind |-> k2, to |-> x1, within |-> {u1, u2}],
                [kind |-> k1, to |-> x1, within |-> {u1}]}}}

(* g1 feeds g2; one clause on kind k1, over each of the fields; a1 may act  *)
(* at g2 at every risk, below the top, or at the top alone.                 *)
Guards ==
    {[Base EXCEPT !.gates = <<g1, g2>>, !.pipes = {<<g1, g2>>}, !.egress = {g2},
                  !.grants = {G(a1, g1, {}, {}), G(a1, g2, {k1}, rs)},
                  !.floor = [g \in MCGate |-> IF g = g2 THEN fl ELSE 0],
                  !.reserved = rv, !.prohibited = pr] :
        rs \in {{}, {0, 1}, {2}}, fl \in {0, 1},
        rv \in {{C(k1, w)} : w \in {When("reversibility", ">=", 1), When("uncertainty", "=", 0),
                                    When("tags", "contains", t1), When("party", "=", x2),
                                    When("kind", "=", k2), When("risk", "=", 1), NoGuard}},
        pr \in {{}, {C(k1, When("risk", ">=", 2))}}}

MCPatches == Shapes \cup Diamond \cup Delegations \cup Consignments \cup Guards

T(i, k, r) == [id |-> i, kind |-> k, risk |-> r, party |-> x1,
               reversibility |-> -1, uncertainty |-> 0, tags |-> {}]
A(s, a, t) == [src |-> s, actor |-> a, token |-> t, shape |-> "valid", observed |-> NoObservation]
Shaped(a, shape) == [a EXCEPT !.shape = shape]

Plain(acts) == [batch |-> acts, table |-> NoTable]

(* Observed on one of two targets, in one context, by an actor of one grade.*)
Saw(a, k, x) == [a EXCEPT !.observed = [kind |-> k, target |-> x, context |-> u1, grade |-> "1"]]

(* k1 is low, but high in context u1 on target u2, and medium at grade 1 of *)
(* that; k2 is not mapped but on target u1.                                 *)
MCTable == <<k1, Wildcard, Wildcard, Wildcard>> :> 0 @@ <<k1, u2, u1, Wildcard>> :> 2 @@ <<k1, u2, u1, "1">> :> 1
           @@ <<k2, u1, Wildcard, Wildcard>> :> 0
Observed(acts) == [batch |-> acts, table |-> MCTable]

MCSubmissions ==
    {Plain(<<A(g1, a1, T(7, k1, 0)), A(g2, a1, T(8, k1, 1))>>),
     Plain(<<Shaped(A(g1, a1, T(7, k1, 0)), "sourceless"),
             A(g1, a1, [T(8, k1, 0) EXCEPT !.party = x2, !.reversibility = 1, !.tags = {t1}])>>),
     Plain(<<Shaped(A(g1, a1, T(0, k1, 0)), "bare"), A(g1, a1, T(8, k2, 0))>>),
     Plain(<<A(g1, a3, T(0, k1, 0)), A(g1, a2, T(0, k2, 2))>>),
     Plain(<<A(g1, NoActor, T(7, k1, 0)), A(g3, a1, T(8, k1, 2))>>),
     Observed(<<[A(g1, a1, T(7, k1, 0)) EXCEPT !.observed = BadObservation],
                Saw(A(g1, a1, T(8, k1, 0)), k1, u2)>>),
     Observed(<<Saw(A(g1, a1, T(7, k2, 0)), k1, u1), Saw(A(g2, a1, T(8, k1, 1)), k1, u1)>>),
     Observed(<<Saw(Shaped(A(g1, a1, T(7, k1, 0)), "malformed"), k1, u1),
                A(g1, a1, T(8, k1, 0)), Saw(A(g1, a2, T(9, k2, 0)), Unclassifiable, u1)>>)}

(* Two activations of one token.                                            *)
DuplicateSubmissions == {Plain(<<A(g1, a1, T(7, k1, 0)), A(g2, a1, T(7, k1, 2))>>)}

(* An activation that is no dict after one that is.                         *)
AlienSubmissions == {Plain(<<A(g1, a1, T(7, k1, 0)), Shaped(A(g1, a1, T(0, k1, 0)), "alien")>>)}
=============================================================================
