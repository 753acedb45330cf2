----------------------------- MODULE Metacognition -----------------------------
(***************************************************************************)
(* The governed life of an improvement proposal: evaluation.py,             *)
(* lifecycle.py and store.py under src/src/loomground_solver/addons/        *)
(* metacognition, and the host that calls them.  A proposal is an immutable *)
(* value: every call returns a new one, and the host may go on using any    *)
(* copy it still holds, or reads back from the store after a restart.       *)
(***************************************************************************)
EXTENDS JsonlLog, FiniteSets

CONSTANTS
    Proposal, Version, Ref, Scope, File,
    Partition,     \* training, regression, adversarial, holdout
    Outcomes,      \* how the cases of each partition may come out
    ScopeOf,       \* proposal -> scope_id
    FileOf,        \* scope_id -> the name the sanitised scope_id gives
    Splitting,     \* proposals and versions whose text holds a line separator
    NoOutcome, NoRef,
    Slot,          \* the host's variables
    MaxRecords,    \* bound: records in the host's memory
    MaxWrites      \* bound: appends begun

ASSUME OutcomesAssumption == Outcomes \subseteq [Partition -> {"absent", "pass", "fail"}]

ASSUME NamesAssumption == ScopeOf \in [Proposal -> Scope] /\ FileOf \in [Scope -> File]

Status == {"draft", "evaluated", "authorized", "rejected", "promoted", "rolled_back"}

Log == {"proposals", "versions"} \X File

VARIABLES
    hand,      \* Slot -> the proposal value it holds
    records,   \* version and rollback records in memory
    logs,      \* Log -> the lines on disk
    writes,
    acked,     \* history: Log -> <<scope, record>> of the appends that returned
    granted    \* history: what authorize was given

memory == <<hand, records>>
disk   == <<logs, writes, acked>>
vars   == <<memory, disk, granted>>

Nothing == [kind |-> "nothing"]

Draft(p) == [kind |-> "proposal", id |-> p, status |-> "draft",
             outcome |-> NoOutcome, ref |-> NoRef]

VersionRecord(v, p, r) == [kind |-> "version", version |-> v, id |-> p, ref |-> r]
RollbackRecord(v, w, r) == [kind |-> "rollback", version |-> v, target |-> w, ref |-> r]

Init == /\ hand = [s \in Slot |-> Nothing]
        /\ records = {}
        /\ logs = [l \in Log |-> <<>>]
        /\ writes = 0
        /\ acked = [l \in Log |-> <<>>]
        /\ granted = {}


Held == {hand[s] : s \in Slot} \ {Nothing}

(* The host keeps what a call returned, in place of any value or none.      *)
Keep(p) == \E s \in Slot : hand' = [hand EXCEPT ![s] = p]

-----------------------------------------------------------------------------
(* recurring_gap_proposals emits drafts only.                               *)
Propose == /\ \E p \in Proposal : Keep(Draft(p))
           /\ UNCHANGED <<records, disk, granted>>

(* Mutant: an authorized proposal stays authorized when evaluated again.    *)
ReEvaluated(p, o) == [p EXCEPT !.status = IF @ = "authorized" THEN @ ELSE "evaluated",
                               !.outcome = o]

(* replace(proposal, status=EVALUATED, evaluation=...): any status goes in, *)
(* and an authorization_ref stays.                                          *)
Evaluated(p, o) == [p EXCEPT !.status = "evaluated", !.outcome = o]

Evaluate == /\ \E p \in Held, o \in Outcomes : Keep(Evaluated(p, o))
            /\ UNCHANGED <<records, disk, granted>>

(* complete and not failures                                                *)
Eligible(o) == o # NoOutcome /\ \A q \in Partition : o[q] = "pass"

Authorize == /\ \E p \in Held, r \in Ref :
                   /\ p.status = "evaluated" /\ Eligible(p.outcome)
                   /\ Keep([p EXCEPT !.status = "authorized", !.ref = r])
                   /\ granted' = granted \cup {<<p.id, p.outcome, r>>}
             /\ UNCHANGED <<records, disk>>

Promote == /\ \E p \in Held, v \in Version :
                 /\ p.status = "authorized" /\ p.ref # NoRef
                 /\ records' = records \cup {VersionRecord(v, p.id, p.ref)}
                 /\ Keep([p EXCEPT !.status = "promoted"])
           /\ Cardinality(records') <= MaxRecords
           /\ UNCHANGED <<disk, granted>>

(* rollback, with a reference and evidence: only a record comes of it.      *)
Rollback == /\ \E v, w \in records, r \in Ref :
                  /\ v.kind = "version" /\ w.kind = "version"
                  /\ records' = records \cup {RollbackRecord(v.version, w.version, r)}
            /\ Cardinality(records') <= MaxRecords
            /\ UNCHANGED <<hand, disk, granted>>

-----------------------------------------------------------------------------
(* The two append-only stores.                                              *)

Splits(rec) == \/ rec.kind # "rollback" /\ rec.id \in Splitting
               \/ rec.kind # "proposal" /\ rec.version \in Splitting

AppendTo(l, scope, rec) ==
    /\ writes < MaxWrites
    /\ writes' = writes + 1
    /\ logs' = [logs EXCEPT ![l] = Appended(@, rec, Splits(rec))]
    /\ acked' = [acked EXCEPT ![l] = Append(@, <<scope, rec>>)]
    /\ UNCHANGED <<memory, granted>>

(* The process dies while the record is being written.                      *)
DieAppending(l, rec) ==
    /\ writes < MaxWrites
    /\ writes' = writes + 1
    /\ \E file \in Torn(logs[l], rec, Splits(rec)) : logs' = [logs EXCEPT ![l] = file]
    /\ hand' = [s \in Slot |-> Nothing]
    /\ records' = {}
    /\ UNCHANGED <<acked, granted>>

(* <scope>.jsonl, beside the registry's <scope>.versions.jsonl.             *)
ProposalLog(p) == <<"proposals", FileOf[ScopeOf[p.id]]>>

(* Operational states are refused.                                          *)
Storable(p) == p.status \notin {"promoted", "rolled_back"}

SaveProposal == \E p \in Held : Storable(p) /\ AppendTo(ProposalLog(p), ScopeOf[p.id], p)

DieSavingProposal == \E p \in Held : Storable(p) /\ DieAppending(ProposalLog(p), p)

SaveRecord == \E s \in Scope, rec \in records : AppendTo(<<"versions", FileOf[s]>>, s, rec)

DieSavingRecord == \E s \in Scope, rec \in records :
                       DieAppending(<<"versions", FileOf[s]>>, rec)

(* Mutant: a line that does not parse is passed over.                       *)
LoadsLeniently(l) == TRUE

(* load returns: every line of the file parsed.                             *)
CanLoad(l) == Loads(logs[l])

(* The values of the lines that parse.                                      *)
Loaded(l) == {Contents(logs[l])[i] : i \in {j \in 1..Len(logs[l]) : logs[l][j].text # Garbage}}

LoadProposals == /\ \E s \in Scope :
                       LET l == <<"proposals", FileOf[s]>>
                       IN  CanLoad(l) /\ \E p \in Loaded(l) : Keep(p)
                 /\ UNCHANGED <<records, disk, granted>>

LoadRecords == /\ \E s \in Scope :
                     LET l == <<"versions", FileOf[s]>>
                     IN  CanLoad(l) /\ records' = records \cup Loaded(l)
               /\ Cardinality(records') <= MaxRecords
               /\ UNCHANGED <<hand, disk, granted>>

Next == \/ Propose \/ Evaluate \/ Authorize \/ Promote \/ Rollback
        \/ SaveProposal \/ SaveRecord \/ DieSavingProposal \/ DieSavingRecord
        \/ LoadProposals \/ LoadRecords

Spec == Init /\ [][Next]_vars

-----------------------------------------------------------------------------

(* Promotion is earned: whatever order the host calls in, whichever stale   *)
(* copy it uses and wherever it was read back from, an authorized or        *)
(* promoted proposal still carries the very evaluation its authorization    *)
(* was given on, with every partition present and passing, and every        *)
(* version record goes back to such an authorization.                       *)
PromotionIsEarned ==
    LET stored(kind) == UNION {Loaded(<<kind, f>>) : f \in File}
    IN  /\ \A p \in Held \cup stored("proposals") :
              p.status \in {"authorized", "promoted"} =>
                  Eligible(p.outcome) /\ <<p.id, p.outcome, p.ref>> \in granted
        /\ \A v \in records \cup stored("versions") :
              v.kind = "version" => \E g \in granted :
                  g[1] = v.id /\ g[3] = v.ref /\ Eligible(g[2])

(* s is what is left of t when some of t's elements are struck out.         *)
Within(s, t) == \E at \in [1..Len(s) -> 1..Len(t)] :
                   /\ \A i, j \in 1..Len(s) : i < j => at[i] < at[j]
                   /\ \A i \in 1..Len(s) : t[at[i]] = s[i]

(* No silent loss: after any crashes, a load either fails or returns every  *)
(* record whose append had returned, in the order of the appends.           *)
NoSilentLoss ==
    \A l \in Log : CanLoad(l) =>
        Within([i \in 1..Len(acked[l]) |-> acked[l][i][2]], Contents(logs[l]))

-----------------------------------------------------------------------------
(* Checked alone: "isolated by scope".  What load returns for a scope was   *)
(* appended under that scope.                                               *)
ScopesAreIsolated ==
    \A s, t \in Scope : \A i \in 1..Len(acked[<<"versions", FileOf[t]>>]) :
        LET e == acked[<<"versions", FileOf[t]>>][i]
        IN  e[1] = t /\ s # t /\ CanLoad(<<"versions", FileOf[s]>>) =>
                \/ e[2] \notin Loaded(<<"versions", FileOf[s]>>)
                \/ \E j \in 1..Len(acked[<<"versions", FileOf[s]>>]) :
                      acked[<<"versions", FileOf[s]>>][j] = <<s, e[2]>>
=============================================================================
