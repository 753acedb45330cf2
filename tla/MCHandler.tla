------------------------------- MODULE MCHandler -------------------------------
(***************************************************************************)
(* Small requests: one that varies the grounding and the snapshots of two   *)
(* candidates, one that varies structure and attacks among three, and one   *)
(* that varies the envelope.  The store may move once between any two       *)
(* steps of the handler.                                                    *)
(***************************************************************************)
EXTENDS Handler

CONSTANTS c1, c2, c3, cx, s1, s2, t1, t2

MCCandidate == {c1, c2, c3, cx}
MCSource == {s1, s2}
MCText == {t1, t2}

MCStores == {st \in [MCSource -> MCText \cup {Missing}] : st[s1] # t2}

Plain == [src |-> s1, digest |-> NoDigest, ver |-> 0]
Other == [src |-> s2, digest |-> NoDigest, ver |-> 0]
Pinned == [src |-> s1, digest |-> t1, ver |-> 0]
Late == [src |-> s2, digest |-> t2, ver |-> 1]
Unversioned == [src |-> s1, digest |-> NoDigest, ver |-> NoVersion]

Three == <<c1, c2, c3>>
Base == [cands |-> Three, claim |-> [c \in MCCandidate |-> t1],
         refs |-> [c \in MCCandidate |-> <<Plain>>],
         schema |-> [c \in MCCandidate |-> "neutral"],
         edges |-> [c \in MCCandidate |-> "sound"],
         attacks |-> [c \in MCCandidate |-> {}],
         caps |-> {"signed-replay"}, wellFormed |-> TRUE, profileKnown |-> TRUE,
         injected |-> TRUE, inlineUnique |-> TRUE, signs |-> TRUE]

(* Two candidates, each with one or two references.                         *)
Groundings ==
    {[Base EXCEPT !.cands = <<c1, c2>>, !.injected = inj,
                  !.refs = [@ EXCEPT ![c1] = r1, ![c2] = r2]] :
        inj \in BOOLEAN,
        r1 \in {<<Plain, Other>>, <<Other, Pinned>>, <<Late>>, <<Unversioned>>},
        r2 \in {<<Pinned>>, <<Other>>, <<Plain, Unversioned>>}}

(* Three candidates; c1 and c3 may fail and declare attacks for others.     *)
Structures ==
    {[Base EXCEPT !.edges = [@ EXCEPT ![c1] = e1, ![c3] = e3],
                  !.refs = [@ EXCEPT ![c2] = r2],
                  !.attacks = [@ EXCEPT ![c1] = a1, ![c2] = a2, ![c3] = a3]] :
        e1 \in {"sound", "broken"}, e3 \in {"sound", "broken"},
        r2 \in {<<Plain>>, <<Other>>},
        a1 \in {{}, {<<c1, c2>>}, {<<c2, c3>>, <<c3, c2>>}, {<<c1, c2>>, <<c1, cx>>}},
        a2 \in {{}, {<<c2, c3>>}},
        a3 \in {{}, {<<c3, c1>>}, {<<c3, c3>>, <<c2, c1>>}}}

(* The envelope.                                                            *)
Envelopes ==
    {[Base EXCEPT !.caps = k, !.wellFormed = w, !.profileKnown = p, !.signs = g,
                  !.inlineUnique = u, !.injected = inj, !.schema = [@ EXCEPT ![c2] = s],
                  !.attacks = [@ EXCEPT ![c1] = a1]] :
        k \in {{}, {"signed-replay"}, {"signed-replay", "simulation"}},
        w \in BOOLEAN, p \in BOOLEAN, g \in BOOLEAN, u \in BOOLEAN, inj \in BOOLEAN,
        s \in {"neutral", "foreign"}, a1 \in {{}, {<<c1, c2>>, <<c2, c1>>}}}

MCRequests == Groundings \cup Structures \cup Envelopes

MCOffered == {"signed-replay", "decision-space"}
=============================================================================
