-------------------------------- MODULE Paths --------------------------------
(***************************************************************************)
(* Composing dimensioned edges along paths (reasoning.py),                  *)
(* composing relations along a chain (relation.py) and closing a term over  *)
(* its definitional edges (definition_closure.py).                          *)
(*                                                                         *)
(* An edge's confidence is a cost: composing two edges multiplies their     *)
(* confidences and adds their costs, so the most confident path is the      *)
(* cheapest one and cost 0 is certainty.  A path is the sequence of the     *)
(* positions of its edges in the edge list, whose order is the order the    *)
(* search tries them in.                                                    *)
(***************************************************************************)
EXTENDS Integers, Sequences, FiniteSets, SequencesExt

CONSTANTS Escalate,     \* the composition the law leaves contested
          NoRelation,   \* the composition the table does not have
          NoAlgebra     \* no table at all

Edge(s, p, o, d, c) == [subject |-> s, predicate |-> p, object |-> o,
                        dimension |-> d, cost |-> c]

-----------------------------------------------------------------------------
(* compose_paths, without a confidence floor.                               *)

End(edges, start, p) == IF p = <<>> THEN start ELSE edges[Last(p)].object

Visited(edges, start, p) == {start} \cup {edges[p[k]].object : k \in 1..Len(p)}

(* The edges a path goes on along: to nowhere it has been.                  *)
Onward(edges, start, p) ==
    {i \in 1..Len(edges) : /\ edges[i].subject = End(edges, start, p)
                           /\ edges[i].object \notin Visited(edges, start, p)}

(* The simple paths from start of at most depth edges.                      *)
PathsFrom(edges, start, depth) ==
    LET upTo[n \in Nat] ==
            IF n = 0 THEN {<<>>}
            ELSE LET before == upTo[n - 1]
                 IN  before \cup UNION {{Append(p, i) : i \in Onward(edges, start, p)} :
                                        p \in {q \in before : Len(q) = n - 1}}
    IN  upTo[depth]

PathCost(edges, p) == FoldLeft(LAMBDA c, i : c + edges[i].cost, 0, p)

(* The order a depth-first search finds paths in: a path before those that  *)
(* go on from it, and else the one that takes the earlier edge.             *)
Earlier(q, p) ==
    \E k \in 1..Len(p) : /\ k <= Len(q) + 1 /\ \A j \in 1..k - 1 : q[j] = p[j]
                         /\ k <= Len(q) => q[k] < p[k]

(* The cap best of the paths found: the cheapest, and of equally cheap ones *)
(* the first found.  That some were dropped is logged and read by no caller,*)
(* and so is the order they are returned in.                                *)
KeepBest(edges, found, cap) ==
    LET priced    == {<<PathCost(edges, p), p>> : p \in found}
        better(x) == {y \in priced \ {x} : \/ y[1] < x[1]
                                           \/ y[1] = x[1] /\ Earlier(y[2], x[2])}
    IN  {x[2] : x \in {y \in priced : Cardinality(better(y)) < cap}}

ComposePaths(edges, start, depth, hops, cap) ==
    KeepBest(edges,
             {p \in PathsFrom(edges, start, IF depth < 2 THEN 2 ELSE depth) : Len(p) >= hops},
             cap)

-----------------------------------------------------------------------------
(* A relation algebra is its composition table, a function on the pairs it  *)
(* has an entry for.                                                        *)
ComposeRelations(table, a, b) ==
    IF <<a, b>> \in DOMAIN table THEN table[<<a, b>>] ELSE NoRelation

(* Mutant: a contested leg is forgotten once the fold starts again.         *)
ForgetContested(table, acc, next) ==
    IF acc.relation = Escalate THEN [relation |-> next, escalated |-> FALSE]
    ELSE LET r == ComposeRelations(table, acc.relation, next)
         IN  [relation |-> r, escalated |-> r = Escalate]

(* One leg of the fold: after a contested composition it starts again at    *)
(* the next leg, and remembers that it did.                                 *)
FoldLeg(table, acc, next) ==
    IF acc.relation = Escalate THEN [relation |-> next, escalated |-> TRUE]
    ELSE LET r == ComposeRelations(table, acc.relation, next)
         IN  [relation |-> r, escalated |-> acc.escalated \/ r = Escalate]

ComposeChain(table, chain) ==
    IF chain = <<>> THEN [relation |-> NoRelation, escalated |-> FALSE]
    ELSE LET upTo[k \in 1..Len(chain)] ==
                 IF k = 1 THEN [relation |-> chain[1], escalated |-> FALSE]
                 ELSE FoldLeg(table, upTo[k - 1], chain[k])
         IN  upTo[Len(chain)]

-----------------------------------------------------------------------------
(* The three-colour depth-first search that the taxonomy, the ordering and  *)
(* the definitional checks run, one step of its explicit stack at a time.   *)
(* succ maps a node to the sequence of its successors.                      *)
SearchStep(succ, s) ==
    IF s.found \/ s.stack = <<>> THEN s
    ELSE LET top == Last(s.stack)
         IN  IF top.rest = <<>>
             THEN [s EXCEPT !.colour[top.node] = "black", !.stack = Front(@)]
             ELSE LET next == Head(top.rest)
                      kept == [s.stack EXCEPT ![Len(s.stack)].rest = Tail(@)]
                  IN  CASE s.colour[next] = "grey"  -> [s EXCEPT !.found = TRUE]
                        [] s.colour[next] = "black" -> [s EXCEPT !.stack = kept]
                        [] s.colour[next] = "white" ->
                             [s EXCEPT !.colour[next] = "grey",
                                       !.stack = Append(kept, [node |-> next,
                                                               rest |-> succ[next]])]

(* The search from one start.  A step turns a white node grey, takes the top*)
(* off the stack, or takes a successor off the top.  A white node is worth  *)
(* the most, then a place on the stack, then a successor, so that each step *)
(* leaves less than before, and so many steps are enough.                   *)
SearchFrom(succ, s, start) ==
    LET steps == 2 * Cardinality(DOMAIN succ) * (1 + Max({Len(succ[x]) : x \in DOMAIN succ}))
        run[n \in Nat] ==
            IF n = 0
            THEN [s EXCEPT !.colour[start] = "grey",
                           !.stack = <<[node |-> start, rest |-> succ[start]]>>]
            ELSE SearchStep(succ, run[n - 1])
    IN  IF s.found \/ s.colour[start] # "white" THEN s ELSE run[steps]

NothingSearched(succ) == [colour |-> [x \in DOMAIN succ |-> "white"],
                          stack |-> <<>>, found |-> FALSE]

(* Mutant: only the first start is searched.                                *)
HasCycleFromFirst(succ, starts) ==
    starts # <<>> /\ SearchFrom(succ, NothingSearched(succ), starts[1]).found

HasCycle(succ, starts) ==
    LET after[k \in 0..Len(starts)] ==
            IF k = 0 THEN NothingSearched(succ)
            ELSE SearchFrom(succ, after[k - 1], starts[k])
    IN  after[Len(starts)].found

(* The k-th of a set of positions, and the part of a sequence at them.      *)
Nth(S, k) == CHOOSE i \in S : Cardinality({j \in S : j <= i}) = k

PartAt(s, S) == [k \in 1..Cardinality(S) |-> s[Nth(S, k)]]

(* The adjacency lists of the edges among nodes, in edge order.             *)
Successors(nodes, pairs) ==
    [x \in nodes |-> LET from == {i \in 1..Len(pairs) : pairs[i][1] = x}
                     IN  [k \in 1..Cardinality(from) |-> pairs[Nth(from, k)][2]]]

-----------------------------------------------------------------------------
(* The paths whose relations compose to one; without an algebra, all.       *)
Coherent(edges, table, paths) ==
    LET composed(p) == ComposeChain(table, [h \in 1..Len(p) |-> edges[p[h]].predicate])
    IN  {p \in paths : \/ table = NoAlgebra
                       \/ ~composed(p).escalated /\ composed(p).relation # NoRelation}

(* close_definition: the defining terms a term reaches along coherent       *)
(* chains; open when a chain is contested or a cycle can be reached.        *)
CloseDefinition(term, edges, table) ==
    LET nodes  == {edges[i].subject : i \in 1..Len(edges)}
                  \cup {edges[i].object : i \in 1..Len(edges)}
        pairs  == [i \in 1..Len(edges) |-> <<edges[i].subject, edges[i].object>>]
        paths  == ComposePaths(edges, term, 64, 1, 1000)
        settled == Coherent(edges, table, paths)
    IN  IF \A i \in 1..Len(edges) : edges[i].subject # term
        THEN [defined |-> FALSE, open |-> FALSE, tokens |-> {}]
        ELSE [defined |-> TRUE,
              open    |-> HasCycle(Successors(nodes, pairs), <<term>>) \/ settled # paths,
              tokens  |-> {edges[Last(p)].object : p \in settled}]
=============================================================================
