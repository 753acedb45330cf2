------------------------------ MODULE MCRootCauses ------------------------------
(***************************************************************************)
(* Every dependency graph on three premises, in both orders of declaration  *)
(* of n1's dependencies, settled and not; and lists with a repeated name    *)
(* and with a dependency that names nothing.                                *)
(***************************************************************************)
EXTENDS RootCauses

CONSTANTS n1, n2, n3, ghost

MCName == {n1, n2, n3, ghost}

P(n, s, d) == [name |-> n, status |-> s, deps |-> d]

Subsequences == {<<>>, <<n1>>, <<n2>>, <<n3>>, <<n1, n2>>, <<n1, n3>>, <<n2, n3>>,
                 <<n1, n2, n3>>}

Graphs == {<<P(n1, s1, d1), P(n2, s2, d2), P(n3, s3, d3)>> :
              s1 \in {"asserted", "unknown"}, s2 \in {"inferred", "contested"},
              s3 \in {"inferred", "presupposed"},
              d1 \in Subsequences \cup {<<n3, n2>>, <<n3, n1, n2>>},
              d2 \in Subsequences, d3 \in Subsequences}

Loose == {<<P(n1, s1, d1), P(n2, "inferred", d2), P(n1, s3, d3)>> :
             s1 \in {"asserted", "unknown"}, s3 \in {"asserted", "unknown"},
             d1 \in {<<>>, <<n2>>}, d2 \in {<<n1>>, <<ghost, n1>>, <<ghost>>},
             d3 \in {<<>>, <<n2, n2>>, <<n1, ghost>>}}

MCLists == Graphs \cup Loose \cup {<<>>}
=============================================================================
