-------------------------------- MODULE Handler --------------------------------
(***************************************************************************)
(* One candidate request on its way through SolverService.verify            *)
(* (service.py), UniversalHandler.__call__ (handler.py), the evidence       *)
(* provider (evidence.py), the structural compiler (structural.py) and the  *)
(* result checks (result.py, validation.py), all under                      *)
(* src/src/loomground_solver.                                               *)
(*                                                                         *)
(* The provider is the one part that is shared: an injected provider reads  *)
(* a store that its owner may advance between any two calls the handler     *)
(* makes.  The inline provider is a copy of what the request carries and    *)
(* never moves.  decision_space is used through what module DecisionSpace   *)
(* shows of it: its answer is the grounded labelling of the valid           *)
(* candidates.                                                              *)
(***************************************************************************)
EXTENDS Naturals, Sequences, Argumentation

CONSTANTS
    Requests,    \* the requests that are submitted (see IsRequest)
    Candidate, Source, Text,
    Stores,      \* the contents a provider's store may have
    Missing,     \* the store holds nothing under a source
    NoDigest,    \* a reference without content_digest
    NoVersion,   \* a reference or a provider without graph_version
    Offered,     \* capabilities in the service's manifest
    MaxMoves     \* bound: how often the owner of the store advances it

Versions == 0..MaxMoves

(* An EvidenceRef; spans and locators are part of what a source names.      *)
Ref == [src : Source, digest : Text \cup {NoDigest}, ver : Versions \cup {NoVersion}]

(* What validate_request has established of a request it accepts.           *)
PassesValidation(r) ==
    /\ r.cands # <<>>
    /\ \A i, j \in 1..Len(r.cands) : r.cands[i] = r.cands[j] => i = j
    /\ \A i \in 1..Len(r.cands) : r.refs[r.cands[i]] # <<>>

(* A ReasoningRequest, reduced to what the code branches on.                *)
IsRequest(r) ==
    /\ r.cands \in Seq(Candidate)
    /\ \A c \in {r.cands[i] : i \in 1..Len(r.cands)} :
          /\ r.claim[c] \in Text
          /\ r.refs[c] \in Seq(Ref)
          /\ r.schema[c] \in {"neutral", "foreign"}
          /\ r.edges[c] \in {"sound", "broken"}
          /\ r.attacks[c] \subseteq Candidate \X Candidate
    /\ r.wellFormed => PassesValidation(r)
    /\ r.wellFormed \in BOOLEAN        \* validate_request accepts it
    /\ r.profileKnown \in BOOLEAN      \* ConfigurationResolver.resolve finds it
    /\ r.injected \in BOOLEAN          \* evidence_provider was injected
    /\ r.inlineUnique \in BOOLEAN      \* no two inline entries share a key
    /\ r.signs \in BOOLEAN             \* the signer returns a non-empty signature

ASSUME RequestsAssumption == \A r \in Requests : IsRequest(r)

ASSUME StoresAssumption == \A s \in Stores : s \in [Source -> Text \cup {Missing}]

VARIABLES
    req,
    store, version, moves,   \* the provider's store and its graph_version
    pc,
    ci, ri, matched,         \* candidate, reference, and claim matched so far
    valid, failed,           \* verification: who passed, who failed
    pairs, attacks,          \* what the valid candidates' structures add
    receipts,
    payloads,                \* history: what resolve returned, by reference
    gate,                    \* graph_version as the preflight read it
    result

locals   == <<ci, ri, matched, valid, failed, pairs, attacks, receipts, payloads, gate>>
provider == <<store, version, moves>>
vars     == <<req, provider, pc, locals, result>>

NoResult == [kind |-> "none", status |-> "none", accepted |-> {}, undecided |-> {},
             rejected |-> {}, pairs |-> <<>>, signed |-> FALSE]

Ids == {req.cands[i] : i \in 1..Len(req.cands)}
Cand == req.cands[ci]
CandRef == req.refs[Cand][ri]

Init == /\ req \in Requests
        /\ store \in Stores
        /\ version \in IF req.injected THEN {0, NoVersion} ELSE {NoVersion}
        /\ moves = 0
        /\ pc = "submitted"
        /\ ci = 1 /\ ri = 1 /\ matched = FALSE
        /\ valid = {} /\ failed = {} /\ pairs = <<>> /\ attacks = {}
        /\ receipts = {} /\ payloads = {}
        /\ gate = NoVersion
        /\ result = NoResult

-----------------------------------------------------------------------------
(* The provider's owner.                                                    *)

Finished == pc \in {"returned", "raised"}

(* A live store is written; a snapshot-bound provider names a new snapshot. *)
StoreMoves == /\ req.injected /\ ~Finished
              /\ moves < MaxMoves
              /\ moves' = moves + 1
              /\ store' \in Stores \ {store}
              /\ version' = IF version = NoVersion THEN NoVersion ELSE version + 1
              /\ UNCHANGED <<req, pc, locals, result>>

-----------------------------------------------------------------------------
(* The service and the entry of the handler.                                *)

(* missing_capabilities: answered by the service, before the handler runs.  *)
RefuseCapabilities ==
    /\ pc = "submitted"
    /\ ~(req.caps \subseteq Offered)
    /\ result' = [NoResult EXCEPT !.kind = "unsupported", !.status = "escalate"]
    /\ pc' = "returned"
    /\ UNCHANGED <<req, provider, locals>>

Admissible == /\ req.wellFormed /\ req.profileKnown
              /\ req.injected \/ req.inlineUnique

(* validate_request, configurations.resolve or the inline provider raises.  *)
Refuse == /\ pc = "submitted"
          /\ req.caps \subseteq Offered
          /\ ~Admissible
          /\ pc' = "raised"
          /\ UNCHANGED <<req, provider, locals, result>>

Admit == /\ pc = "submitted"
         /\ req.caps \subseteq Offered
         /\ Admissible
         /\ pc' = "preflight"
         /\ UNCHANGED <<req, provider, locals, result>>

-----------------------------------------------------------------------------
(* _request_errors: contract gaps, before any candidate is looked at.       *)

RefsOf(c) == {req.refs[c][i] : i \in 1..Len(req.refs[c])}

UnsupportedSchema == {c \in Ids : req.schema[c] # "neutral"}

(* Mutant: a reference that names no snapshot is let through.               *)
StaleOnly == IF version = NoVersion THEN {}
             ELSE {c \in Ids : \E r \in RefsOf(c) : r.ver \notin {version, NoVersion}}

(* A reference without a snapshot, or with another than the provider's.     *)
OutsideSnapshot == IF version = NoVersion THEN {}
                   ELSE {c \in Ids : \E r \in RefsOf(c) : r.ver # version}

RequestErrors == UnsupportedSchema \cup OutsideSnapshot

(* build_request_escalation: every decision partition stays empty.          *)
Escalate == /\ pc = "preflight"
            /\ RequestErrors # {}
            /\ result' = [NoResult EXCEPT !.kind = "escalation", !.status = "escalate",
                                          !.signed = req.signs]
            /\ pc' = "built"
            /\ UNCHANGED <<req, provider, locals>>

PassPreflight == /\ pc = "preflight"
                 /\ RequestErrors = {}
                 /\ gate' = version
                 /\ pc' = "verify"
                 /\ UNCHANGED <<req, provider, ci, ri, matched, valid, failed, pairs, attacks,
                                receipts, payloads, result>>

-----------------------------------------------------------------------------
(* _verify_candidate, one provider call per step.                           *)

(* provider.verify(ref): the source is there and its digest is the one      *)
(* named.                                                                   *)
Verifies(r) == /\ store[r.src] # Missing
               /\ r.digest \in {NoDigest, store[r.src]}

(* The loop of __call__ goes on to the next candidate.                      *)
NextCandidate == /\ ci' = ci + 1 /\ ri' = 1 /\ matched' = FALSE
                 /\ pc' = IF ci < Len(req.cands) THEN "verify" ELSE "decide"

FailCandidate == /\ failed' = failed \cup {Cand}
                 /\ NextCandidate
                 /\ UNCHANGED <<req, provider, valid, pairs, attacks, receipts, payloads, gate,
                                result>>

(* Mutant: the last reference is left out of the loop.                      *)
RefLeftShort == pc = "verify" /\ ri < Len(req.refs[Cand])

(* for ref in candidate.evidence                                            *)
RefLeft == pc = "verify" /\ ri <= Len(req.refs[Cand])

VerifyRef == /\ RefLeft
             /\ Verifies(CandRef)
             /\ pc' = "resolve"
             /\ UNCHANGED <<req, provider, locals, result>>

RejectRef == RefLeft /\ ~Verifies(CandRef) /\ FailCandidate

(* Mutant: each reference decides anew whether the claim is matched.        *)
ResolveLastMatch == /\ pc = "resolve"
                    /\ store[CandRef.src] # Missing
                    /\ matched' = (store[CandRef.src] = req.claim[Cand])
                    /\ receipts' = receipts \cup {<<Cand, ri>>}
                    /\ payloads' = payloads \cup {<<Cand, ri, store[CandRef.src]>>}
                    /\ ri' = ri + 1
                    /\ pc' = "verify"
                    /\ UNCHANGED <<req, provider, ci, valid, failed, pairs, attacks, gate,
                                   result>>

(* payload = provider.resolve(ref), read after verify returned.             *)
ResolveRef == /\ pc = "resolve"
              /\ store[CandRef.src] # Missing
              /\ matched' = (matched \/ store[CandRef.src] = req.claim[Cand])
              /\ receipts' = receipts \cup {<<Cand, ri>>}
              /\ payloads' = payloads \cup {<<Cand, ri, store[CandRef.src]>>}
              /\ ri' = ri + 1
              /\ pc' = "verify"
              /\ UNCHANGED <<req, provider, ci, valid, failed, pairs, attacks, gate, result>>

(* The source went away between verify and resolve.                         *)
ResolveFails == pc = "resolve" /\ store[CandRef.src] = Missing /\ FailCandidate

RefsDone == pc = "verify" /\ ri > Len(req.refs[Cand])

(* No reference grounds the claim.                                          *)
RejectClaim == RefsDone /\ ~matched /\ FailCandidate

(* Mutant: a claim that matched is enough, references left to check or not. *)
ClaimGroundedEarly == pc = "verify" /\ matched

(* return True, "": all references resolved, one of them with the claim.    *)
ClaimGrounded == RefsDone /\ matched

(* The compiler finds every edge whole and every attack between submitted   *)
(* candidates.                                                              *)
Compiles(c) == /\ req.edges[c] = "sound"
               /\ req.attacks[c] \subseteq Ids \X Ids

(* verification[id] = (True, ""), with the candidate's pair and attacks     *)
(* added.  The neutral compiler makes one pair, of the candidate's id.      *)
Compile == /\ ClaimGrounded
           /\ Compiles(Cand)
           /\ valid' = valid \cup {Cand}
           /\ pairs' = Append(pairs, Cand)
           /\ attacks' = attacks \cup req.attacks[Cand]
           /\ NextCandidate
           /\ UNCHANGED <<req, provider, failed, receipts, payloads, gate, result>>

(* Mutant: both are added before the structure has been checked.            *)
RejectStructureLate == /\ ClaimGrounded
                       /\ ~Compiles(Cand)
                       /\ failed' = failed \cup {Cand}
                       /\ pairs' = Append(pairs, Cand)
                       /\ attacks' = attacks \cup req.attacks[Cand]
                       /\ NextCandidate
                       /\ UNCHANGED <<req, provider, valid, receipts, payloads, gate, result>>

(* structural verification failed: neither its pair nor its attacks.        *)
RejectStructure == ClaimGrounded /\ ~Compiles(Cand) /\ FailCandidate

-----------------------------------------------------------------------------
(* decision_space, build_result and validate_result.                        *)

(* build_result: escalated exactly when something stays undecided; the      *)
(* fingerprint counts what is in pairs.                                     *)
Decision(L) ==
    LET undecided == {c \in valid : L[c] = "undec"}
    IN  [kind      |-> "decision",
         status    |-> IF undecided = {} THEN "complete" ELSE "escalate",
         accepted  |-> {c \in valid : L[c] = "in"},
         undecided |-> undecided,
         rejected  |-> failed \cup {c \in valid : L[c] = "out"},
         pairs     |-> pairs,
         signed    |-> req.signs]

Decide == /\ pc = "decide"
          /\ \E L \in Labellings(valid) :
                /\ IsGrounded(valid, attacks \cap (valid \X valid), L)
                /\ result' = Decision(L)
          /\ pc' = "built"
          /\ UNCHANGED <<req, provider, locals>>

(* validate_result: parts disjoint and known, signed when asked for.        *)
ValidResult ==
    /\ result.accepted \cup result.undecided \cup result.rejected \subseteq Ids
    /\ result.accepted \cap result.undecided = {}
    /\ (result.accepted \cup result.undecided) \cap result.rejected = {}
    /\ "signed-replay" \in req.caps => result.signed

Return == /\ pc = "built"
          /\ pc' = IF ValidResult THEN "returned" ELSE "raised"
          /\ UNCHANGED <<req, provider, locals, result>>

HandlerStep ==
    \/ RefuseCapabilities \/ Refuse \/ Admit
    \/ Escalate \/ PassPreflight
    \/ VerifyRef \/ RejectRef \/ ResolveRef \/ ResolveFails \/ RejectClaim
    \/ Compile \/ RejectStructure
    \/ Decide \/ Return

Next == StoreMoves \/ HandlerStep

(* The handler runs on its caller's thread and waits for nothing; the owner *)
(* of the store owes it nothing.                                            *)
Spec == Init /\ [][Next]_vars /\ WF_vars(HandlerStep)

-----------------------------------------------------------------------------

(* Failure to understand a request is no evidence against a candidate: an   *)
(* answer that does not come from a decision names no candidate and no      *)
(* evidence was read for it; and a decision is made only when every         *)
(* reference named the snapshot the provider had at the preflight.          *)
GapsPrecedeVerdicts ==
    /\ result.kind \in {"unsupported", "escalation"} =>
          /\ result.accepted \cup result.undecided \cup result.rejected = {}
          /\ receipts = {}
    /\ result.kind = "decision" =>
          \A c \in Ids : /\ req.schema[c] = "neutral"
                         /\ \A r \in RefsOf(c) : gate # NoVersion => r.ver = gate

(* On a store that did not move, a candidate passed verification exactly    *)
(* when all of its references verify, one of them carries its claim and its *)
(* structure compiles, however many references were listed and in whatever  *)
(* order.                                                                   *)
GroundedOnStillStore ==
    result.kind = "decision" /\ moves = 0 =>
        \A c \in Ids : c \in valid <=>
            /\ \A r \in RefsOf(c) : Verifies(r)
            /\ \E r \in RefsOf(c) : store[r.src] = req.claim[c]
            /\ Compiles(c)

(* One of the payloads read for the candidate was its claim.                *)
Carried(c) == \E i \in 1..Len(req.refs[c]) : <<c, i, req.claim[c]>> \in payloads

(* On a moving store as well, nobody is accepted or left undecided unless   *)
(* each of its references went through verify and resolve and one of the    *)
(* payloads that resolve returned for it, whatever verify had seen and      *)
(* whatever the store holds by now, was its claim.                          *)
ReceiptForEveryReference ==
    result.kind = "decision" =>
        \A c \in result.accepted \cup result.undecided :
            /\ \A i \in 1..Len(req.refs[c]) : <<c, i>> \in receipts
            /\ Carried(c)

(* s lists each member of S once and nothing else.                          *)
EachOnce(s, S) == /\ {s[i] : i \in 1..Len(s)} = S
                  /\ \A i, j \in 1..Len(s) : s[i] = s[j] => i = j

(* A candidate that failed, at its grounding or at its structure, moves     *)
(* nobody's verdict and leaves no trace in the result's fingerprint: the    *)
(* pairs that are counted are those of the valid candidates, each once, and *)
(* the decision is the grounded labelling of the valid candidates under the *)
(* attacks that valid candidates declare, with all the others rejected.     *)
FailedAreInert ==
    result.kind = "decision" =>
        /\ EachOnce(result.pairs, valid)
        /\ \A L \in Labellings(valid) :
              IsGrounded(valid, (UNION {req.attacks[c] : c \in valid}) \cap (valid \X valid), L)
                  => /\ result.accepted = {c \in valid : L[c] = "in"}
                     /\ result.undecided = {c \in valid : L[c] = "undec"}
                     /\ result.rejected = {c \in valid : L[c] = "out"} \cup (Ids \ valid)

(* Every request is answered or refused with an exception.                  *)
EveryRequestEnds == <>Finished
=============================================================================
