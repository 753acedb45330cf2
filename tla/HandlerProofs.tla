----------------------------- MODULE HandlerProofs -----------------------------
(***************************************************************************)
(* Proofs about the handler, for every set of requests, every store and     *)
(* however often its owner moves it.                                        *)
(*                                                                         *)
(* The loop over candidates and references has no place where its four      *)
(* properties hold by themselves: a verdict rests on what the loop has read *)
(* so far.  The inductive invariant says, for every position of the loop,   *)
(* what has been sorted, read and matched when it gets there.               *)
(***************************************************************************)
EXTENDS Handler, OperatorProofs

Stages == {"submitted", "preflight", "verify", "resolve", "decide",
           "built", "returned", "raised"}

InLoop == pc \in {"verify", "resolve"}

(* Where the handler is, and that the loop stays within its two lists.      *)
Position ==
    /\ req \in Requests
    /\ pc \in Stages
    /\ ci \in 1..(Len(req.cands) + 1) /\ ri \in Nat \ {0}
    /\ matched \in BOOLEAN
    /\ moves \in Nat
    /\ pc \in {"preflight", "verify", "resolve", "decide"} => req.wellFormed
    /\ InLoop => ci <= Len(req.cands) /\ ri <= Len(req.refs[Cand]) + 1
    /\ pc = "resolve" => ri <= Len(req.refs[Cand])
    /\ pc = "decide" => ci = Len(req.cands) + 1

(* Before the loop nothing has been read or judged.                         *)
Fresh ==
    /\ pc \in {"submitted", "preflight"} => /\ ci = 1 /\ ri = 1 /\ ~matched
                                            /\ receipts = {}
    /\ pc \notin {"built", "returned", "raised"} => result = NoResult

(* The candidates the loop has left behind.                                 *)
Seen == {req.cands[i] : i \in 1..(ci - 1)}

(* Each of them is valid or failed and not both; the pairs are those of the *)
(* valid ones, and the attacks those they declare.                          *)
Sorted ==
    /\ valid \cup failed = Seen
    /\ valid \cap failed = {}
    /\ pairs \in Seq(Candidate) /\ EachOnce(pairs, valid)
    /\ attacks = UNION {req.attacks[c] : c \in valid}

(* Valid candidates had every reference read and one of them carried the    *)
(* claim; the current one had those behind the position read, and one of    *)
(* them carried its claim if it is matched.                                 *)
Read ==
    /\ \A c \in valid : \A i \in 1..Len(req.refs[c]) : <<c, i>> \in receipts
    /\ \A c \in valid : Carried(c)
    /\ InLoop => \A i \in 1..(ri - 1) : <<Cand, i>> \in receipts
    /\ InLoop /\ matched =>
          \E i \in 1..(ri - 1) : <<Cand, i, req.claim[Cand]>> \in payloads

(* What a candidate needs to pass, judged on one store.                     *)
Grounds(c) ==
    /\ \A r \in RefsOf(c) : Verifies(r)
    /\ \E r \in RefsOf(c) : store[r.src] = req.claim[c]
    /\ Compiles(c)

(* On a store that has not moved the loop has judged by that store.         *)
Still ==
    moves = 0 =>
        /\ \A c \in Seen : c \in valid <=> Grounds(c)
        /\ InLoop => /\ \A i \in 1..(ri - 1) : Verifies(req.refs[Cand][i])
                     /\ matched <=> \E i \in 1..(ri - 1) :
                                        store[req.refs[Cand][i].src] = req.claim[Cand]
        /\ pc = "resolve" => Verifies(CandRef)

(* Beyond the preflight every reference names the snapshot it found.        *)
Gated ==
    pc \in {"verify", "resolve", "decide"} \/ result.kind = "decision" =>
        \A c \in Ids : /\ req.schema[c] = "neutral"
                       /\ \A r \in RefsOf(c) : gate # NoVersion => r.ver = gate

(* What each kind of answer was made from.                                  *)
Answered ==
    /\ result.kind \in {"unsupported", "escalation"} =>
          /\ result.accepted \cup result.undecided \cup result.rejected = {}
          /\ receipts = {}
    /\ result.kind = "decision" =>
          /\ ci = Len(req.cands) + 1
          /\ \E L \in Labellings(valid) :
                /\ IsGrounded(valid, attacks \cap (valid \X valid), L)
                /\ result = Decision(L)

IInv == Position /\ Fresh /\ Sorted /\ Read /\ Still /\ Gated /\ Answered

-----------------------------------------------------------------------------
(* Facts about requests and about the prefix of the candidates.             *)

(* What is known of a submitted request.                                    *)
LEMMA RequestFacts ==
    ASSUME req \in Requests
    PROVE  /\ req.cands \in Seq(Candidate) /\ Len(req.cands) \in Nat
           /\ \A c \in Ids : req.refs[c] \in Seq(Ref) /\ Len(req.refs[c]) \in Nat
           /\ \A i \in 1..Len(req.cands) : req.cands[i] \in Ids
           /\ req.wellFormed => PassesValidation(req)
<1>1. IsRequest(req)
  BY RequestsAssumption
<1> QED
  BY <1>1 DEF IsRequest, Ids

(* One more candidate behind the position: the one that was there, and it   *)
(* was not behind it before, since no two candidates share an id.           *)
LEMMA SeenGrows ==
    ASSUME Position, InLoop, req' = req, ci' = ci + 1
    PROVE  /\ Seen' = Seen \cup {Cand}
           /\ Cand \notin Seen
           /\ Cand \in Ids
           /\ Seen \subseteq Ids
<1>1. /\ req.cands \in Seq(Candidate) /\ Len(req.cands) \in Nat
      /\ \A i \in 1..Len(req.cands) : req.cands[i] \in Ids
      /\ PassesValidation(req)
  BY RequestFacts DEF Position, InLoop
<1>2. ci \in 1..Len(req.cands)
  BY <1>1 DEF Position
<1>3. Seen' = Seen \cup {Cand}
  <2>1. 1..(ci' - 1) = 1..(ci - 1) \cup {ci}
    BY <1>2
  <2> QED
    BY <2>1 DEF Seen, Cand
<1>4. Cand \notin Seen
  <2> SUFFICES ASSUME NEW i \in 1..(ci - 1), req.cands[i] = req.cands[ci] PROVE FALSE
    BY DEF Seen, Cand
  <2>1. i \in 1..Len(req.cands) /\ i # ci
    BY <1>1, <1>2
  <2> QED
    BY <1>1, <1>2, <2>1 DEF PassesValidation
<1>5. Cand \in Ids
  BY <1>1, <1>2 DEF Cand
<1>6. Seen \subseteq Ids
  <2>1. \A i \in 1..(ci - 1) : i \in 1..Len(req.cands)
    BY <1>1, <1>2
  <2> QED
    BY <1>1, <2>1 DEF Seen
<1> QED
  BY <1>3, <1>4, <1>5, <1>6

(* While the handler is in the loop it has answered nothing.                *)
LEMMA LoopHasNoResult ==
    ASSUME Position, Fresh, pc \in {"submitted", "preflight", "verify", "resolve", "decide"}
    PROVE  /\ result = NoResult
           /\ result.kind = "none"
BY DEF Fresh, NoResult

(* What was read and what was added stay so while nothing is read or added. *)
LEMMA KeptFacts ==
    ASSUME req' = req, payloads' = payloads, pairs' = pairs, valid' = valid
    PROVE  /\ \A c : Carried(c)' <=> Carried(c)
           /\ EachOnce(pairs, valid)' <=> EachOnce(pairs, valid)
BY DEF Carried, EachOnce

-----------------------------------------------------------------------------
(* The steps.                                                               *)

(* Nothing has been read when the request is submitted.                     *)
LEMMA InitInvariant == Init => IInv
<1> SUFFICES ASSUME Init PROVE IInv
  OBVIOUS
<1>1. Len(req.cands) \in Nat
  BY RequestFacts DEF Init
<1>2. Position
  <2>1. /\ ci = 1 /\ ri = 1 /\ moves = 0 /\ matched = FALSE /\ pc = "submitted"
        /\ req \in Requests
    BY DEF Init
  <2>2. ci \in 1..(Len(req.cands) + 1) /\ ri \in Nat \ {0} /\ moves \in Nat
    BY <1>1, <2>1
  <2> QED
    BY <2>1, <2>2 DEF Position, Stages, InLoop
<1>3. Fresh
  BY DEF Init, Fresh
<1>4. Seen = {}
  BY DEF Init, Seen
<1>5. Sorted /\ Read /\ Still
  BY <1>4 DEF Init, Sorted, Read, Still, InLoop, EachOnce
<1>6. result.kind = "none"
  BY DEF Init, NoResult
<1>7. Gated /\ Answered
  BY <1>6 DEF Init, Gated, Answered
<1> QED
  BY <1>2, <1>3, <1>5, <1>7 DEF IInv

(* The owner of the store: whatever was judged stays judged, and nothing is *)
(* said any more about a store that did not move.                           *)
LEMMA StoreStep == ASSUME IInv, StoreMoves PROVE IInv'
<1>1. UNCHANGED <<req, pc, ci, ri, matched, valid, failed, pairs, attacks,
                     receipts, payloads, gate, result>>
  BY DEF StoreMoves, locals
<1>2. moves' \in Nat /\ moves' # 0
  BY DEF StoreMoves, IInv, Position
<1>3. Position' /\ Fresh' /\ Sorted' /\ Read' /\ Gated'
  <2>1. Position' /\ Fresh'
    BY <1>1, <1>2 DEF IInv, Position, Fresh, InLoop, Cand, Stages
  <2>2. Seen' = Seen /\ Ids' = Ids /\ Cand' = Cand
    BY <1>1 DEF Seen, Ids, Cand
  <2>3. /\ \A c : Carried(c)' <=> Carried(c)
        /\ EachOnce(pairs, valid)' <=> EachOnce(pairs, valid)
    BY <1>1, KeptFacts
  <2>4. Sorted'
    BY <1>1, <2>2, <2>3 DEF IInv, Sorted
  <2>5. Read'
    BY <1>1, <2>2, <2>3 DEF IInv, Read, InLoop
  <2>6. Gated'
    BY <1>1, <2>2 DEF IInv, Gated, RefsOf
  <2> QED
    BY <2>1, <2>4, <2>5, <2>6
<1>4. Still'
  BY <1>2 DEF Still
<1>5. Answered'
  BY <1>1 DEF IInv, Answered, Decision
<1> QED
  BY <1>3, <1>4, <1>5 DEF IInv

(* A step outside the loop that leaves the locals and the store alone and   *)
(* makes no decision.                                                       *)
LEMMA EnvelopeStep ==
    ASSUME IInv, UNCHANGED <<req, provider, locals>>,
           \/ pc = "submitted" /\ pc' = "preflight" /\ req.wellFormed /\ result' = result
           \/ pc = "submitted" /\ pc' = "raised" /\ result' = result
           \/ /\ pc \in {"submitted", "preflight"} /\ pc' \in {"returned", "built"}
              /\ result'.kind \in {"unsupported", "escalation"}
              /\ result'.accepted = {} /\ result'.undecided = {} /\ result'.rejected = {}
    PROVE  IInv'
<1>1. /\ UNCHANGED <<req, store, moves, ci, ri, matched, valid, failed, pairs, attacks,
                     receipts, payloads, gate>>
  BY DEF provider, locals
<1>2. Position'
  BY <1>1 DEF IInv, Position, InLoop, Stages
<1>3. Fresh'
  BY <1>1 DEF IInv, Fresh
<1>4. Sorted' /\ Read' /\ Still'
  BY <1>1, KeptFacts DEF IInv, Sorted, Read, Still, Fresh, Seen, InLoop, Grounds, RefsOf, Verifies,
              Compiles, Ids
<1>5. result.kind = "none"
  BY LoopHasNoResult DEF IInv
<1>6. Gated' /\ Answered'
  BY <1>1, <1>5 DEF IInv, Gated, Answered, Fresh
<1> QED
  BY <1>2, <1>3, <1>4, <1>6 DEF IInv

(* The preflight found no gap: the loop starts, or there was nobody to look *)
(* at, which validate_request excludes.                                     *)
LEMMA PreflightStep == ASSUME IInv, PassPreflight PROVE IInv'
<1>1. /\ UNCHANGED <<req, store, version, moves, ci, ri, matched, valid, failed, pairs, attacks,
                     receipts, payloads, result>>
      /\ pc = "preflight" /\ pc' = "verify" /\ gate' = version
      /\ ci = 1 /\ ri = 1 /\ ~matched
  BY DEF PassPreflight, provider, IInv, Fresh
<1>2. /\ Len(req.cands) \in Nat /\ req.cands # <<>> /\ req.cands \in Seq(Candidate)
      /\ Cand \in Ids => Len(req.refs[Cand]) \in Nat
      /\ \A i \in 1..Len(req.cands) : req.cands[i] \in Ids
  BY <1>1, RequestFacts DEF IInv, Position, PassesValidation
<1>3. Len(req.cands) >= 1
  BY <1>2
<1>4. Cand \in Ids /\ Cand' = Cand
  BY <1>1, <1>2, <1>3 DEF Cand
<1>5. Position'
  <2>1. ci' <= Len(req'.cands) /\ ri' <= Len(req'.refs[Cand']) + 1
    BY <1>1, <1>2, <1>3, <1>4
  <2> QED
    BY <1>1, <2>1 DEF IInv, Position, Stages
<1>6. Fresh'
  BY <1>1 DEF IInv, Fresh
<1>7. Sorted'
  BY <1>1, KeptFacts DEF IInv, Sorted, Seen
<1>8. 1..(ri' - 1) = {}
  BY <1>1
<1>9. Read'
  BY <1>1, <1>8, KeptFacts DEF IInv, Read
<1>10. Still'
  BY <1>1, <1>8 DEF IInv, Still, Seen, Grounds, RefsOf, Verifies, Compiles, Ids
<1>11. Gated'
  <2>1. \A c \in Ids : req.schema[c] = "neutral"
    BY DEF PassPreflight, RequestErrors, UnsupportedSchema
  <2>2. version # NoVersion => \A c \in Ids : \A r \in RefsOf(c) : r.ver = version
    BY DEF PassPreflight, RequestErrors, OutsideSnapshot
  <2> QED
    BY <1>1, <2>1, <2>2 DEF Gated, Ids, RefsOf
<1>12. Answered'
  BY <1>1, LoopHasNoResult DEF IInv, Answered
<1> QED
  BY <1>5, <1>6, <1>7, <1>9, <1>10, <1>11, <1>12 DEF IInv

(* The loop leaves its candidate: the position stays in bounds.             *)
LEMMA NextCandidateStep ==
    ASSUME IInv, InLoop, NextCandidate, UNCHANGED <<req, provider, result, gate>>
    PROVE  Position' /\ Fresh' /\ Gated' /\ Answered'
<1>1. /\ UNCHANGED <<req, store, moves, result, gate>>
      /\ ci' = ci + 1 /\ ri' = 1 /\ matched' = FALSE
      /\ pc' = IF ci < Len(req.cands) THEN "verify" ELSE "decide"
  BY DEF NextCandidate, provider
<1>2. /\ Len(req.cands) \in Nat
      /\ \A c \in Ids : Len(req.refs[c]) \in Nat
      /\ \A i \in 1..Len(req.cands) : req.cands[i] \in Ids
  BY RequestFacts DEF IInv, Position
<1>3. ci \in 1..Len(req.cands)
  BY <1>2 DEF IInv, Position
<1>4. Position'
  <2>1. ci' \in 1..(Len(req'.cands) + 1) /\ ri' \in Nat \ {0} /\ moves' \in Nat
    BY <1>1, <1>2, <1>3 DEF IInv, Position
  <2>2. pc' = "verify" => ci' <= Len(req'.cands) /\ ri' <= Len(req'.refs[Cand']) + 1
    <3> SUFFICES ASSUME pc' = "verify"
                 PROVE  ci' <= Len(req'.cands) /\ ri' <= Len(req'.refs[Cand']) + 1
      OBVIOUS
    <3>1. ci + 1 \in 1..Len(req.cands)
      BY <1>1, <1>2, <1>3
    <3>2. Cand' \in Ids
      BY <1>1, <1>2, <3>1 DEF Cand
    <3> QED
      BY <1>1, <1>2, <3>1, <3>2
  <2>3. pc' = "decide" => ci' = Len(req'.cands) + 1
    BY <1>1, <1>2, <1>3
  <2>4. pc' \in {"verify", "decide"} /\ req.wellFormed
    BY <1>1 DEF IInv, Position, InLoop
  <2> QED
    BY <1>1, <2>1, <2>2, <2>3, <2>4 DEF IInv, Position, Stages, InLoop
<1>5. pc' \in {"verify", "decide"} /\ result.kind = "none" /\ result = NoResult
  BY <1>1, LoopHasNoResult DEF IInv, InLoop
<1>6. Fresh'
  BY <1>1, <1>5 DEF Fresh, NoResult
<1>7. Gated' /\ Answered'
  BY <1>1, <1>5 DEF IInv, InLoop, Gated, Answered, Ids, RefsOf
<1> QED
  BY <1>4, <1>6, <1>7

(* The candidate under the position fails, for a reason that on a store     *)
(* that has not moved is one of its own.                                    *)
LEMMA FailStep ==
    ASSUME IInv, InLoop, FailCandidate,
           moves = 0 => ~Grounds(Cand)
    PROVE  IInv'
<1>1. /\ UNCHANGED <<req, store, moves, valid, pairs, attacks, receipts, payloads>>
      /\ failed' = failed \cup {Cand} /\ ci' = ci + 1 /\ ri' = 1 /\ matched' = FALSE
      /\ pc' \in {"verify", "decide"}
  BY DEF FailCandidate, NextCandidate, provider
<1>2. /\ Seen' = Seen \cup {Cand} /\ Cand \notin Seen
  BY <1>1, SeenGrows DEF IInv
<1>3. Position' /\ Fresh' /\ Gated' /\ Answered'
  BY NextCandidateStep DEF FailCandidate
<1>4. Sorted'
  BY <1>1, <1>2, KeptFacts DEF IInv, Sorted
<1>5. 1..(ri' - 1) = {}
  BY <1>1
<1>6. Read'
  BY <1>1, <1>5, KeptFacts DEF IInv, Read
<1>7. Still'
  <2> SUFFICES ASSUME moves = 0 PROVE \A c \in Seen' : c \in valid' <=> Grounds(c)'
    BY <1>1, <1>5 DEF Still
  <2>1. \A c : Grounds(c)' <=> Grounds(c)
    BY <1>1 DEF Grounds, RefsOf, Verifies, Compiles, Ids
  <2>2. Cand \notin valid
    BY <1>2 DEF IInv, Sorted
  <2> QED
    BY <1>1, <1>2, <2>1, <2>2 DEF IInv, Still
<1> QED
  BY <1>3, <1>4, <1>6, <1>7 DEF IInv

(* Where the loop stands among the references of its candidate.             *)
LEMMA LoopFacts ==
    ASSUME IInv, InLoop
    PROVE  /\ Cand \in Ids /\ Len(req.refs[Cand]) \in Nat
           /\ ri \in Nat /\ ri >= 1 /\ ri <= Len(req.refs[Cand]) + 1
           /\ ci \in 1..Len(req.cands)
           /\ result.kind = "none" /\ req.wellFormed
<1>1. /\ Len(req.cands) \in Nat
      /\ \A c \in Ids : Len(req.refs[c]) \in Nat
      /\ \A i \in 1..Len(req.cands) : req.cands[i] \in Ids
  BY RequestFacts DEF IInv, Position
<1>2. ci \in 1..Len(req.cands) /\ ri \in Nat /\ ri >= 1
  BY <1>1 DEF IInv, Position
<1>3. Cand \in Ids
  BY <1>1, <1>2 DEF Cand
<1>4. ri <= Len(req.refs[Cand]) + 1 /\ req.wellFormed
  BY DEF IInv, Position, InLoop
<1>5. result.kind = "none"
  BY LoopHasNoResult DEF IInv, InLoop
<1> QED
  BY <1>1, <1>2, <1>3, <1>4, <1>5

(* verify has answered for the reference under the position.                *)
LEMMA VerifyStep == ASSUME IInv, VerifyRef PROVE IInv'
<1>1. /\ UNCHANGED <<req, store, version, moves, ci, ri, matched, valid, failed, pairs, attacks,
                     receipts, payloads, gate, result>>
      /\ pc = "verify" /\ pc' = "resolve" /\ InLoop /\ InLoop'
      /\ ri <= Len(req.refs[Cand]) /\ Verifies(CandRef)
  BY DEF VerifyRef, RefLeft, provider, locals, InLoop
<1>2. Cand' = Cand /\ Seen' = Seen /\ Ids' = Ids
  BY <1>1 DEF Cand, Seen, Ids
<1>3. Position'
  <2>1. ci \in 1..(Len(req.cands) + 1) /\ ci <= Len(req.cands) /\ ri <= Len(req.refs[Cand]) + 1
    BY <1>1 DEF IInv, Position
  <2> QED
    BY <1>1, <1>2, <2>1 DEF IInv, Position, Stages
<1>4. Fresh'
  BY <1>1 DEF IInv, Fresh
<1>5. Sorted' /\ Read'
  BY <1>1, <1>2, KeptFacts DEF IInv, Sorted, Read
<1>6. Still'
  <2>1. Verifies(CandRef)'
    BY <1>1, <1>2 DEF Verifies, CandRef
  <2>2. \A r : Verifies(r)' <=> Verifies(r)
    BY <1>1 DEF Verifies
  <2>3. \A c : Grounds(c)' <=> Grounds(c)
    BY <1>1, <1>2, <2>2 DEF Grounds, RefsOf, Compiles
  <2> QED
    BY <1>1, <1>2, <2>1, <2>2, <2>3 DEF IInv, Still
<1>7. Gated' /\ Answered'
  <2>1. result.kind = "none" /\ result'.kind = "none"
    BY <1>1, LoopFacts
  <2>2. \A c : RefsOf(c)' = RefsOf(c)
    BY <1>1 DEF RefsOf
  <2> QED
    BY <1>1, <1>2, <2>1, <2>2 DEF IInv, Gated, Answered
<1> QED
  BY <1>3, <1>4, <1>5, <1>6, <1>7 DEF IInv

(* resolve has returned the payload of a reference: it has a receipt, and   *)
(* the claim is matched when it was before or this payload carries it.      *)
LEMMA ResolveStep == ASSUME IInv, ResolveRef PROVE IInv'
<1>1. /\ UNCHANGED <<req, store, version, moves, ci, valid, failed, pairs, attacks, gate,
                     result>>
      /\ pc = "resolve" /\ pc' = "verify" /\ InLoop /\ InLoop'
      /\ ri' = ri + 1 /\ receipts' = receipts \cup {<<Cand, ri>>}
      /\ payloads' = payloads \cup {<<Cand, ri, store[CandRef.src]>>}
      /\ matched' = (matched \/ store[CandRef.src] = req.claim[Cand])
  BY DEF ResolveRef, provider, InLoop
<1>2. Cand' = Cand /\ Seen' = Seen /\ Ids' = Ids
  BY <1>1 DEF Cand, Seen, Ids
<1>3. /\ ri \in Nat /\ ri >= 1 /\ Len(req.refs[Cand]) \in Nat
      /\ ri <= Len(req.refs[Cand])
      /\ ci \in 1..Len(req.cands)
  BY <1>1, LoopFacts DEF IInv, Position
<1>4. \A i \in 1..(ri' - 1) : i \in 1..(ri - 1) \/ i = ri
  BY <1>1, <1>3
<1>5. ri \in 1..(ri' - 1) /\ 1..(ri - 1) \subseteq 1..(ri' - 1)
  BY <1>1, <1>3
<1>6. Position'
  <2>1. ri' \in Nat \ {0} /\ ri' <= Len(req.refs[Cand]) + 1 /\ matched' \in BOOLEAN
    BY <1>1, <1>3 DEF IInv, Position
  <2>2. ci <= Len(req.cands) /\ ci \in 1..(Len(req.cands) + 1)
    BY <1>1 DEF IInv, Position
  <2> QED
    BY <1>1, <1>2, <2>1, <2>2 DEF IInv, Position, Stages
<1>7. Fresh'
  BY <1>1 DEF IInv, Fresh
<1>8. Sorted'
  <2>1. EachOnce(pairs, valid)' <=> EachOnce(pairs, valid)
    BY <1>1 DEF EachOnce
  <2> QED
    BY <1>1, <1>2, <2>1 DEF IInv, Sorted
<1>9. Read'
  <2>1. \A i \in 1..(ri' - 1) : <<Cand, i>> \in receipts'
    BY <1>1, <1>4 DEF IInv, Read
  <2>2. \A c : Carried(c) => Carried(c)'
    BY <1>1 DEF Carried
  <2>3. matched' => \E i \in 1..(ri' - 1) : <<Cand, i, req.claim[Cand]>> \in payloads'
    <3>1. CASE matched
      <4>1. PICK i \in 1..(ri - 1) : <<Cand, i, req.claim[Cand]>> \in payloads
        BY <1>1, <3>1 DEF IInv, Read
      <4> QED
        BY <1>1, <1>5, <4>1
    <3>2. CASE store[CandRef.src] = req.claim[Cand]
      BY <1>1, <1>5, <3>2
    <3> QED
      BY <1>1, <3>1, <3>2
  <2> QED
    BY <1>1, <1>2, <2>1, <2>2, <2>3 DEF IInv, Read
<1>10. Still'
  <2> SUFFICES ASSUME moves = 0 PROVE Still'
    BY <1>1 DEF Still
  <2>1. \A r : Verifies(r)' <=> Verifies(r)
    BY <1>1 DEF Verifies
  <2>2. \A c : Grounds(c)' <=> Grounds(c)
    BY <1>1, <1>2, <2>1 DEF Grounds, RefsOf, Compiles
  <2>3. \A i \in 1..(ri' - 1) : Verifies(req.refs[Cand][i])
    BY <1>1, <1>4 DEF IInv, Still, CandRef
  <2>4. matched <=> \E i \in 1..(ri - 1) : store[req.refs[Cand][i].src] = req.claim[Cand]
    BY <1>1 DEF IInv, Still
  <2>5. matched' <=> \E i \in 1..(ri' - 1) : store[req.refs[Cand][i].src] = req.claim[Cand]
    <3>1. matched' <=> matched \/ store[req.refs[Cand][ri].src] = req.claim[Cand]
      BY <1>1 DEF CandRef
    <3> QED
      BY <1>4, <1>5, <2>4, <3>1
  <2> QED
    BY <1>1, <1>2, <2>1, <2>2, <2>3, <2>5 DEF IInv, Still
<1>11. Gated' /\ Answered'
  <2>1. result.kind = "none" /\ result'.kind = "none"
    BY <1>1, LoopFacts
  <2>2. \A c : RefsOf(c)' = RefsOf(c)
    BY <1>1 DEF RefsOf
  <2> QED
    BY <1>1, <1>2, <2>1, <2>2 DEF IInv, Gated, Answered
<1> QED
  BY <1>6, <1>7, <1>8, <1>9, <1>10, <1>11 DEF IInv

(* The four ways to fail.  Between verify and resolve a source can go away  *)
(* only on a store that moved.                                              *)
LEMMA RejectStep ==
    ASSUME IInv, RejectRef \/ ResolveFails \/ RejectClaim \/ RejectStructure
    PROVE  IInv'
<1>1. FailCandidate /\ InLoop
  BY DEF RejectRef, ResolveFails, RejectClaim, RejectStructure, RefLeft, RefsDone,
         ClaimGrounded, InLoop
<1>2. Cand \in Ids /\ Len(req.refs[Cand]) \in Nat /\ ri \in Nat /\ ri >= 1
  BY <1>1, LoopFacts
<1>3. \A i \in 1..Len(req.refs[Cand]) : req.refs[Cand][i] \in RefsOf(Cand)
  BY DEF RefsOf
<1>4. moves = 0 => ~Grounds(Cand)
  <2> SUFFICES ASSUME moves = 0, Grounds(Cand) PROVE FALSE
    OBVIOUS
  <2>1. CASE RejectRef
    <3>1. ri \in 1..Len(req.refs[Cand]) /\ ~Verifies(CandRef)
      BY <1>2, <2>1 DEF RejectRef, RefLeft
    <3> QED
      BY <1>3, <3>1 DEF Grounds, CandRef
  <2>2. CASE ResolveFails
    BY <2>2 DEF IInv, Still, ResolveFails, Verifies
  <2>3. CASE RejectClaim
    <3>1. ri > Len(req.refs[Cand]) /\ ~matched
      BY <2>3 DEF RejectClaim, RefsDone
    <3>2. ~\E i \in 1..(ri - 1) : store[req.refs[Cand][i].src] = req.claim[Cand]
      BY <1>1, <3>1 DEF IInv, Still
    <3>3. \A i \in 1..Len(req.refs[Cand]) : i \in 1..(ri - 1)
      BY <1>2, <3>1
    <3> QED
      BY <3>2, <3>3 DEF Grounds, RefsOf
  <2>4. CASE RejectStructure
    BY <2>4 DEF RejectStructure, Grounds
  <2> QED
    BY <2>1, <2>2, <2>3, <2>4
<1> QED
  BY <1>1, <1>4, FailStep

(* One more member adds its set to the union.                               *)
LEMMA UnionGrows ==
    ASSUME NEW f, NEW S, NEW a
    PROVE  UNION {f[c] : c \in S \cup {a}} = (UNION {f[c] : c \in S}) \cup f[a]
<1> DEFINE U == {f[c] : c \in S}
           V == {f[c] : c \in S \cup {a}}
<1>1. V = U \cup {f[a]}
  OBVIOUS
<1>2. UNION V = (UNION U) \cup f[a]
  <2> HIDE DEF U, V
  <2> QED
    BY <1>1
<1> QED
  BY <1>2

(* One more pair, of a candidate that had none.                             *)
LEMMA PairAppended ==
    ASSUME NEW s \in Seq(Candidate), NEW S, EachOnce(s, S),
           NEW c \in Candidate, c \notin S
    PROVE  /\ Append(s, c) \in Seq(Candidate)
           /\ EachOnce(Append(s, c), S \cup {c})
<1>1. PICK t : t = Append(s, c)
  OBVIOUS
<1>2. /\ t \in Seq(Candidate) /\ Len(t) = Len(s) + 1 /\ Len(s) \in Nat
      /\ t[Len(s) + 1] = c
      /\ \A i \in 1..Len(s) : t[i] = s[i]
  BY <1>1
<1>3. \A i \in 1..Len(t) : i \in 1..Len(s) \/ i = Len(s) + 1
  BY <1>2
<1>4. 1..Len(s) \subseteq 1..Len(t) /\ Len(s) + 1 \in 1..Len(t)
  BY <1>2
<1>5. \A i \in 1..Len(s) : s[i] \in S
  BY DEF EachOnce
<1>6. {t[i] : i \in 1..Len(t)} = S \cup {c}
  <2>1. S = {s[i] : i \in 1..Len(s)}
    BY DEF EachOnce
  <2> QED
    BY <1>2, <1>3, <1>4, <2>1
<1>7. ASSUME NEW i \in 1..Len(t), NEW j \in 1..Len(t), t[i] = t[j] PROVE i = j
  <2>1. CASE i \in 1..Len(s) /\ j \in 1..Len(s)
    BY <1>2, <1>7, <2>1 DEF EachOnce
  <2>2. CASE i = Len(s) + 1 /\ j \in 1..Len(s)
    BY <1>2, <1>5, <1>7, <2>2
  <2>3. CASE i \in 1..Len(s) /\ j = Len(s) + 1
    BY <1>2, <1>5, <1>7, <2>3
  <2> QED
    BY <1>3, <2>1, <2>2, <2>3
<1>8. EachOnce(t, S \cup {c})
  BY <1>6, <1>7 DEF EachOnce
<1> QED
  BY <1>1, <1>2, <1>8

(* The candidate passes with every reference read.                          *)
LEMMA CompileStep == ASSUME IInv, Compile PROVE IInv'
<1>1. /\ UNCHANGED <<req, store, moves, failed, receipts, payloads>>
      /\ valid' = valid \cup {Cand} /\ attacks' = attacks \cup req.attacks[Cand]
      /\ pairs' = Append(pairs, Cand)
      /\ ci' = ci + 1 /\ ri' = 1 /\ matched' = FALSE
      /\ pc' \in {"verify", "decide"} /\ InLoop
      /\ ri > Len(req.refs[Cand]) /\ matched /\ Compiles(Cand)
  BY DEF Compile, NextCandidate, provider, ClaimGrounded, RefsDone, InLoop
<1>2. /\ Seen' = Seen \cup {Cand} /\ Cand \notin Seen
  BY <1>1, SeenGrows DEF IInv
<1>3. Position' /\ Fresh' /\ Gated' /\ Answered'
  BY <1>1, NextCandidateStep DEF Compile
<1>4. /\ Len(req.refs[Cand]) \in Nat /\ ri \in Nat /\ ri >= 1
      /\ ri <= Len(req.refs[Cand]) + 1
  BY <1>1, LoopFacts
<1>5. 1..Len(req.refs[Cand]) = 1..(ri - 1)
  BY <1>1, <1>4
<1>6. Sorted'
  <2>1. UNION {req.attacks[c] : c \in valid \cup {Cand}}
            = (UNION {req.attacks[c] : c \in valid}) \cup req.attacks[Cand]
    BY UnionGrows
  <2>2. Cand \in Candidate
    <3>1. req.cands \in Seq(Candidate) /\ ci \in 1..Len(req.cands)
      BY <1>1, LoopFacts, RequestFacts DEF IInv, Position
    <3> QED
      BY <3>1 DEF Cand
  <2>3. pairs \in Seq(Candidate) /\ EachOnce(pairs, valid) /\ Cand \notin valid
    BY <1>2 DEF IInv, Sorted
  <2>4. Append(pairs, Cand) \in Seq(Candidate) /\ EachOnce(Append(pairs, Cand), valid \cup {Cand})
    BY <2>2, <2>3, PairAppended
  <2>5. pairs' \in Seq(Candidate) /\ EachOnce(pairs, valid)'
    BY <1>1, <2>4 DEF EachOnce
  <2> QED
    BY <1>1, <1>2, <2>1, <2>5 DEF IInv, Sorted
<1>7. 1..(ri' - 1) = {}
  BY <1>1
<1>8. Read'
  <2>1. \A i \in 1..Len(req.refs[Cand]) : <<Cand, i>> \in receipts
    BY <1>1, <1>5 DEF IInv, Read
  <2>2. \A c : Carried(c)' <=> Carried(c)
    BY <1>1 DEF Carried
  <2>3. Carried(Cand)
    BY <1>1, <1>5 DEF IInv, Read, Carried
  <2> QED
    BY <1>1, <1>7, <2>1, <2>2, <2>3 DEF IInv, Read
<1>9. Still'
  <2> SUFFICES ASSUME moves = 0 PROVE \A c \in Seen' : c \in valid' <=> Grounds(c)'
    BY <1>1, <1>7 DEF Still
  <2>1. \A c : Grounds(c)' <=> Grounds(c)
    BY <1>1 DEF Grounds, RefsOf, Verifies, Compiles, Ids
  <2>2. /\ \A i \in 1..(ri - 1) : Verifies(req.refs[Cand][i])
        /\ \E i \in 1..(ri - 1) : store[req.refs[Cand][i].src] = req.claim[Cand]
    BY <1>1 DEF IInv, Still
  <2>3. Grounds(Cand)
    BY <1>1, <1>5, <2>2 DEF Grounds, RefsOf
  <2> QED
    BY <1>1, <1>2, <2>1, <2>3 DEF IInv, Still
<1> QED
  BY <1>3, <1>6, <1>8, <1>9 DEF IInv

(* decision_space answers with a grounded labelling of what was sorted.     *)
LEMMA DecideStep == ASSUME IInv, Decide PROVE IInv'
<1>1. /\ UNCHANGED <<req, store, version, moves, ci, ri, matched, valid, failed, pairs, attacks,
                     receipts, payloads, gate>>
      /\ pc = "decide" /\ pc' = "built"
  BY DEF Decide, provider, locals
<1>2. PICK L \in Labellings(valid) :
          /\ IsGrounded(valid, attacks \cap (valid \X valid), L)
          /\ result' = Decision(L)
  BY DEF Decide
<1>3. Cand' = Cand /\ Seen' = Seen /\ Ids' = Ids /\ Decision(L)' = Decision(L)
  BY <1>1 DEF Cand, Seen, Ids, Decision
<1>4. result'.kind = "decision"
  BY <1>2 DEF Decision
<1>5. Position'
  BY <1>1 DEF IInv, Position, InLoop, Stages
<1>6. Fresh'
  BY <1>1 DEF Fresh
<1>7. Sorted' /\ Read'
  BY <1>1, <1>3, KeptFacts DEF IInv, Sorted, Read, InLoop
<1>8. Still'
  BY <1>1, <1>3 DEF IInv, Still, InLoop, Grounds, RefsOf, Verifies, Compiles
<1>9. Gated'
  <2>1. \A c : RefsOf(c)' = RefsOf(c)
    BY <1>1 DEF RefsOf
  <2> QED
    BY <1>1, <1>3, <2>1 DEF IInv, Gated
<1>10. Answered'
  <2>1. ci = Len(req.cands) + 1
    BY <1>1 DEF IInv, Position
  <2>2. L \in Labellings(valid)' /\ IsGrounded(valid, attacks \cap (valid \X valid), L)'
    BY <1>1, <1>2 DEF Labellings, IsGrounded
  <2> QED
    BY <1>1, <1>2, <1>3, <1>4, <2>1, <2>2 DEF Answered
<1> QED
  BY <1>5, <1>6, <1>7, <1>8, <1>9, <1>10 DEF IInv

(* Only the position changes, or nothing at all.                            *)
LEMMA ReturnStep == ASSUME IInv, Return \/ UNCHANGED vars PROVE IInv'
<1>1. /\ UNCHANGED <<req, store, version, moves, ci, ri, matched, valid, failed, pairs, attacks,
                     receipts, payloads, gate, result>>
      /\ \/ pc = "built" /\ pc' \in {"returned", "raised"}
         \/ pc' = pc
  BY DEF Return, provider, locals, vars
<1>2. Cand' = Cand /\ Seen' = Seen /\ Ids' = Ids /\ \A c : RefsOf(c)' = RefsOf(c)
  BY <1>1 DEF Cand, Seen, Ids, RefsOf
<1>3. Position' /\ Fresh'
  BY <1>1, <1>2 DEF IInv, Position, Fresh, InLoop, Stages
<1>4. Sorted' /\ Read'
  BY <1>1, <1>2, KeptFacts DEF IInv, Sorted, Read, InLoop
<1>5. Still'
  <2>1. \A r : Verifies(r)' <=> Verifies(r)
    BY <1>1 DEF Verifies
  <2>2. \A c : Grounds(c)' <=> Grounds(c)
    BY <1>1, <1>2, <2>1 DEF Grounds, Compiles
  <2>3. CandRef' = CandRef
    BY <1>1, <1>2 DEF CandRef
  <2> QED
    BY <1>1, <1>2, <2>1, <2>2, <2>3 DEF IInv, Still, InLoop
<1>6. Gated'
  BY <1>1, <1>2 DEF IInv, Gated
<1>7. Answered'
  <2>1. \A L : Decision(L)' = Decision(L)
    BY <1>1 DEF Decision
  <2> QED
    BY <1>1, <2>1 DEF IInv, Answered
<1> QED
  BY <1>3, <1>4, <1>5, <1>6, <1>7 DEF IInv

(* Every step of the handler and of the store keeps the invariant.          *)
LEMMA NextInvariant == IInv /\ [Next]_vars => IInv'
<1> SUFFICES ASSUME IInv, [Next]_vars PROVE IInv'
  OBVIOUS
<1>1. CASE StoreMoves
  BY <1>1, StoreStep
<1>2. CASE RefuseCapabilities
  BY <1>2, EnvelopeStep DEF RefuseCapabilities, NoResult
<1>3. CASE Refuse
  BY <1>3, EnvelopeStep DEF Refuse
<1>4. CASE Admit
  BY <1>4, EnvelopeStep DEF Admit, Admissible
<1>5. CASE Escalate
  BY <1>5, EnvelopeStep DEF Escalate, NoResult
<1>6. CASE PassPreflight
  BY <1>6, PreflightStep
<1>7. CASE VerifyRef
  BY <1>7, VerifyStep
<1>8. CASE ResolveRef
  BY <1>8, ResolveStep
<1>9. CASE RejectRef \/ ResolveFails \/ RejectClaim \/ RejectStructure
  BY <1>9, RejectStep
<1>10. CASE Compile
  BY <1>10, CompileStep
<1>11. CASE Decide
  BY <1>11, DecideStep
<1>12. CASE Return \/ UNCHANGED vars
  BY <1>12, ReturnStep
<1> QED
  BY <1>1, <1>2, <1>3, <1>4, <1>5, <1>6, <1>7, <1>8, <1>9, <1>10, <1>11, <1>12
     DEF Next, HandlerStep

-----------------------------------------------------------------------------
(* The theorems.                                                            *)

(* The inductive invariant holds in every reachable state.                  *)
THEOREM Invariance == Spec => []IInv
<1> QED
  BY InitInvariant, NextInvariant, PTL DEF Spec

(* Contract gaps precede verdicts, whatever the request and the store.      *)
THEOREM AlwaysGapsPrecedeVerdicts == Spec => []GapsPrecedeVerdicts
<1>1. IInv => GapsPrecedeVerdicts
  BY DEF IInv, Answered, Gated, GapsPrecedeVerdicts
<1> QED
  BY <1>1, Invariance, PTL

(* When the decision is made the loop has been through all candidates.      *)
LEMMA DecidedFacts ==
    ASSUME IInv, result.kind = "decision"
    PROVE  Seen = Ids /\ failed = Ids \ valid /\ valid \subseteq Ids
<1>1. Len(req.cands) \in Nat /\ ci = Len(req.cands) + 1
  BY RequestFacts DEF IInv, Position, Answered
<1>2. 1..(ci - 1) = 1..Len(req.cands)
  BY <1>1
<1>3. Seen = Ids
  BY <1>2 DEF Seen, Ids
<1> QED
  BY <1>3 DEF IInv, Sorted

(* On a still store, however many references a candidate lists, it passes   *)
(* exactly when all verify, one carries the claim and its structure         *)
(* compiles.                                                                *)
THEOREM AlwaysGroundedOnStillStore == Spec => []GroundedOnStillStore
<1>1. IInv => GroundedOnStillStore
  BY DecidedFacts DEF IInv, Still, Grounds, GroundedOnStillStore
<1> QED
  BY <1>1, Invariance, PTL

(* However the store moves between the calls, nobody is accepted or left    *)
(* undecided on a reference that was not resolved, or on payloads none of   *)
(* which was the claim.                                                     *)
THEOREM AlwaysReceiptForEveryReference == Spec => []ReceiptForEveryReference
<1>1. IInv => ReceiptForEveryReference
  <2> SUFFICES ASSUME IInv, result.kind = "decision"
               PROVE  result.accepted \cup result.undecided \subseteq valid
    BY DEF IInv, Read, ReceiptForEveryReference
  <2>1. PICK L \in Labellings(valid) : result = Decision(L)
    BY DEF IInv, Answered
  <2> QED
    BY <2>1 DEF Decision
<1> QED
  BY <1>1, Invariance, PTL

(* A failed candidate moves nobody's verdict and is not counted.  That the  *)
(* answer does not depend on which grounded labelling is looked at is       *)
(* GroundedUnique.                                                          *)
THEOREM AlwaysFailedAreInert == Spec => []FailedAreInert
<1>1. ASSUME IInv, result.kind = "decision" PROVE EachOnce(result.pairs, valid)
  <2>1. PICK M \in Labellings(valid) : result = Decision(M)
    BY <1>1 DEF IInv, Answered
  <2> QED
    BY <1>1, <2>1 DEF Decision, IInv, Sorted
<1>2. IInv => FailedAreInert
  <2> SUFFICES ASSUME IInv, result.kind = "decision", NEW L \in Labellings(valid),
                      IsGrounded(valid, (UNION {req.attacks[c] : c \in valid})
                                            \cap (valid \X valid), L)
               PROVE  /\ result.accepted = {c \in valid : L[c] = "in"}
                      /\ result.undecided = {c \in valid : L[c] = "undec"}
                      /\ result.rejected = {c \in valid : L[c] = "out"} \cup (Ids \ valid)
    BY <1>1 DEF FailedAreInert
  <2>1. PICK M \in Labellings(valid) :
            /\ IsGrounded(valid, attacks \cap (valid \X valid), M)
            /\ result = Decision(M)
    BY DEF IInv, Answered
  <2>2. attacks = UNION {req.attacks[c] : c \in valid}
    BY DEF IInv, Sorted
  <2>3. IsGrounded(valid, attacks \cap (valid \X valid), L)
    BY <2>2
  <2>4. L = M
    BY <2>1, <2>3, GroundedUnique
  <2>5. failed = Ids \ valid
    BY DecidedFacts
  <2> QED
    BY <2>1, <2>4, <2>5 DEF Decision
<1> QED
  BY <1>2, Invariance, PTL
=============================================================================
