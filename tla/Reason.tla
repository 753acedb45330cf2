--------------------------------- MODULE Reason ---------------------------------
(***************************************************************************)
(* The Loomground route: reason() over a batch of activations (src/src/     *)
(* loomground_solver/loomground.py), with the governed risk of prom001.py   *)
(* when a host supplies a risk table, or the handler's result check         *)
(* (handler.py, validation.py) when the batch came with a request.  The     *)
(* batch is walked twice, as in the code: once as a whole, for the trace,   *)
(* and once activation by activation, for the verdicts.  One step governs   *)
(* one activation or evaluates one gate.                                    *)
(***************************************************************************)
EXTENDS PolicyGraph

CONSTANTS
    Patches,         \* the patches submitted, well formed or not
    Submissions,     \* the transports submitted with them, and the risk table
    Unclassifiable,  \* the kind of what the host could not classify
    NoTable,         \* reason() without a risk table: the handler's route
    NoObservation, BadObservation,   \* none made, or not a dict of strings
    NoToken,         \* no declared token kept for this activation
    Wildcard         \* the empty string in a key of the risk table

(* id = 0 stands for a token without an id.  "sourceless": source or actor  *)
(* is refused; "malformed": the token is; "bare": the token is empty and no *)
(* dict (null, "" or []); "alien": the activation is no dict, or its token  *)
(* neither a dict nor empty.  Neither of the last two has an id.            *)
IsActivation(a) ==
    /\ DOMAIN a = {"src", "actor", "token", "shape", "observed"}
    /\ a.src \in Gate /\ a.actor \in Actor \cup {NoActor} /\ IsToken(a.token)
    /\ a.shape \in {"valid", "sourceless", "malformed", "bare", "alien"}
    /\ \/ a.observed \in {NoObservation, BadObservation}
       \/ a.observed.kind \in Kind \cup {Unclassifiable}

(* entries: (kind, target, context, grade) -> risk, for some of the keys.   *)
IsTable(t) == t = NoTable \/ \A key \in DOMAIN t : Len(key) = 4 /\ t[key] \in Risk

ASSUME NoTokenAssumption == ~IsToken(NoToken)

ASSUME PatchesAssumption == \A p \in Patches : IsPatch(p)

ASSUME SubmissionsAssumption ==
    \A s \in Submissions : /\ IsTable(s.table)
                           /\ s.batch \in Seq({s.batch[i] : i \in 1..Len(s.batch)})
                           /\ \A i \in 1..Len(s.batch) : IsActivation(s.batch[i])

VARIABLES
    patch, sent, table,            \* the arguments
    batch,                         \* the activations as they are evaluated
    declared,                      \* declared_tokens: what the log shows
    pc,
    pass,                          \* "trace" or "decide"
    ai,                            \* the activation being governed or walked
    reach, indeg, ready, eff,      \* locals of the walk
    outcome,                       \* gate -> [verdict, master], the walk's result
    log,                           \* what the trace keeps
    accepted, undecided, rejected

given   == <<patch, sent, table>>
walk    == <<reach, indeg, ready, eff, outcome>>
answers == <<accepted, undecided, rejected>>
vars    == <<given, batch, declared, pc, pass, ai, walk, log, answers>>

Empty == [x \in {} |-> {}]

Init == /\ patch \in Patches
        /\ \E s \in Submissions : sent = s.batch /\ table = s.table
        /\ batch = <<>> /\ declared = <<>>
        /\ pc = "apply" /\ pass = "trace" /\ ai = 1
        /\ reach = {} /\ indeg = Empty /\ ready = {} /\ eff = Empty /\ outcome = Empty
        /\ log = <<>>
        /\ accepted = {} /\ undecided = {} /\ rejected = Empty

Act == batch[ai]

(* str(token.get("id") or f"activation-{index + 1}")                        *)
IdOf(i) == IF batch[i].shape \in {"bare", "alien"} \/ batch[i].token.id = 0 THEN i
           ELSE batch[i].token.id

(* f extended or overwritten at x, as a dict assignment does.               *)
Put(f, x, v) == [y \in DOMAIN f \cup {x} |-> IF y = x THEN v ELSE f[y]]

-----------------------------------------------------------------------------
(* apply: an ill-formed patch is refused before anything is evaluated.      *)
Apply == /\ pc = "apply"
         /\ pc' = IF ~Valid(patch) THEN "refused" ELSE IF table = NoTable THEN "next" ELSE "govern"
         /\ batch' = IF table = NoTable THEN sent ELSE <<>>
         /\ UNCHANGED <<given, declared, pass, ai, walk, log, answers>>

-----------------------------------------------------------------------------
(* The risk table: batch and declared are filled in step, by position.      *)

Governing == pc = "govern" /\ ai <= Len(sent)

(* Neither a dict nor observed: evaluated as it was sent.                   *)
Ungoverned(a) == a.shape \in {"bare", "alien"} \/ a.observed = NoObservation

PassThrough == /\ Governing /\ Ungoverned(sent[ai])
               /\ batch' = Append(batch, sent[ai])
               /\ declared' = Append(declared, NoToken)
               /\ ai' = ai + 1
               /\ UNCHANGED <<given, pc, pass, walk, log, answers>>

Refused(a) == ~Ungoverned(a) /\ (a.observed = BadObservation \/ a.shape = "malformed")

(* Mutant: a nulled activation takes no place among the declared tokens.    *)
NullUnaligned == /\ Governing /\ Refused(sent[ai])
                 /\ batch' = Append(batch, [sent[ai] EXCEPT !.shape = "alien"])
                 /\ ai' = ai + 1
                 /\ UNCHANGED <<given, declared, pc, pass, walk, log, answers>>

(* A malformed observation or declaration: None takes the activation's place*)
Null == /\ Governing /\ Refused(sent[ai])
        /\ batch' = Append(batch, [sent[ai] EXCEPT !.shape = "alien"])
        /\ declared' = Append(declared, NoToken)
        /\ ai' = ai + 1
        /\ UNCHANGED <<given, pc, pass, walk, log, answers>>

(* lookup: the exact key first, then ever less specific ones.               *)
Keys(o) == <<<<o.kind, o.target, o.context, o.grade>>, <<o.kind, o.target, o.context, Wildcard>>,
             <<o.kind, o.target, Wildcard, Wildcard>>, <<o.kind, Wildcard, Wildcard, Wildcard>>>>

Mapped(o) == {n \in 1..4 : Keys(o)[n] \in DOMAIN table}

Lookup(o) == table[Keys(o)[CHOOSE n \in Mapped(o) : \A m \in Mapped(o) : n <= m]]

(* Mutant: a declared risk replaces the computed one.                       *)
TakenHint(t, o) ==
    IF o.kind = Unclassifiable \/ t.kind # o.kind \/ Mapped(o) = {} THEN MaxRisk ELSE t.risk

(* Unclassifiable, mismatched or unmapped is the strictest tier; otherwise  *)
(* the declared risk may raise the table's.                                 *)
GovernedRisk(t, o) ==
    IF o.kind = Unclassifiable \/ t.kind # o.kind \/ Mapped(o) = {} THEN MaxRisk
    ELSE IF t.risk > Lookup(o) THEN t.risk ELSE Lookup(o)

Govern ==
    /\ Governing /\ ~Ungoverned(sent[ai]) /\ ~Refused(sent[ai])
    /\ LET a == sent[ai]
       IN  /\ batch' = Append(batch, [a EXCEPT !.token.kind = a.observed.kind,
                                               !.token.risk = GovernedRisk(a.token, a.observed)])
           /\ declared' = Append(declared, a.token)
    /\ ai' = ai + 1
    /\ UNCHANGED <<given, pc, pass, walk, log, answers>>

Governed == /\ pc = "govern" /\ ai > Len(sent)
            /\ ai' = 1
            /\ pc' = "next"
            /\ UNCHANGED <<given, batch, declared, pass, walk, log, answers>>

-----------------------------------------------------------------------------

(* Mutant: the outcome of the activation before is still there.             *)
EnterUncleared == /\ pc = "next" /\ ai <= Len(batch)
                  /\ Act.shape = "valid"
                  /\ reach' = Reach(patch, Act.src)
                  /\ indeg' = [g \in reach' |-> Cardinality(Preds(patch, g) \cap reach')]
                  /\ ready' = {g \in reach' : indeg'[g] = 0}
                  /\ eff' = Empty
                  /\ pc' = "walk"
                  /\ UNCHANGED <<given, batch, declared, pass, ai, outcome, log, answers>>

(* The reach of the activation and the gates ready to be evaluated.         *)
Enter == /\ pc = "next" /\ ai <= Len(batch)
         /\ Act.shape = "valid"
         /\ reach' = Reach(patch, Act.src)
         /\ indeg' = [g \in reach' |-> Cardinality(Preds(patch, g) \cap reach')]
         /\ ready' = {g \in reach' : indeg'[g] = 0}
         /\ eff' = Empty
         /\ outcome' = IF pass = "trace" THEN outcome ELSE Empty
         /\ pc' = "walk"
         /\ UNCHANGED <<given, batch, declared, pass, ai, log, answers>>

(* A malformed activation: skipped by the trace, rejected by the decision.  *)
SkipMalformed == /\ pc = "next" /\ ai <= Len(batch)
                 /\ Act.shape # "valid"
                 /\ rejected' = IF pass = "trace" THEN rejected
                                ELSE Put(rejected, IdOf(ai), "invalid")
                 /\ ai' = ai + 1
                 /\ UNCHANGED <<given, batch, declared, pc, pass, walk, log, accepted, undecided>>

(* Declaration order; an undeclared source comes last.                      *)
Position(g) == IF g \in Declared(patch)
               THEN CHOOSE i \in 1..Len(patch.gates) : patch.gates[i] = g
               ELSE Len(patch.gates) + 1

(* ready.pop(0): the first of the ready gates in declaration order.         *)
First(gates) == {g \in gates : \A h \in gates : Position(g) <= Position(h)}

(* Mutant: a gate's own verdict counts only where nothing flows in.         *)
InheritedVerdict ==
    LET f[g \in reach] == LET up == Preds(patch, g) \cap reach
                          IN  IF up = {} THEN GradedVerdict(patch, g, Act)
                              ELSE Strictest({f[h] : h \in up})
    IN  f

(* effective(g): own verdict joined with those of the reached predecessors. *)
Effective ==
    LET f[g \in reach] == Strictest({GradedVerdict(patch, g, Act)}
                                    \cup {f[h] : h \in Preds(patch, g) \cap reach})
    IN  f

(* issubset(egress): every obligation sits on a gate that egresses.         *)
Attached == patch.obligations \subseteq patch.egress

(* The master releases an auto action with every obligation attached.       *)
Master(g, v) == IF g \notin patch.egress THEN "none"
                ELSE IF v = "auto" /\ Attached THEN "act" ELSE "withhold"

(* Mutant: a gate is ready as soon as one predecessor has been evaluated.   *)
ReleasedByOne(g) == {h \in reach : <<g, h>> \in patch.pipes /\ h \notin DOMAIN eff}

(* Successors whose last open predecessor is g.                             *)
Released(g) == {h \in reach : <<g, h>> \in patch.pipes /\ indeg[h] = 1}

(* What the log says of g: the declared token beside the observed facts,    *)
(* when the gate's floor raised the risk.                                   *)
Entry(g, v) ==
    [act |-> ai, gate |-> g, verdict |-> v,
     token |-> IF EffectiveRisk(patch, g, Act.token) = Act.token.risk THEN NoToken
               ELSE IF declared # <<>> /\ ai <= Len(declared) /\ declared[ai] # NoToken
                    THEN declared[ai] ELSE Act.token]

(* One gate is popped from the worklist, evaluated and logged.              *)
Visit == /\ pc = "walk" /\ ready # {}
         /\ \E g \in First(ready), v \in Verdict :
                /\ v = Effective[g]
                /\ eff' = Put(eff, g, v)
                /\ outcome' = Put(outcome, g, [verdict |-> v, master |-> Master(g, v)])
                /\ log' = IF pass = "trace" THEN Append(log, Entry(g, v)) ELSE log
                /\ indeg' = [h \in reach |-> IF <<g, h>> \in patch.pipes
                                             THEN indeg[h] - 1 ELSE indeg[h]]
                /\ ready' = (ready \ {g}) \cup Released(g)
         /\ UNCHANGED <<given, batch, declared, pc, pass, ai, reach, answers>>

(* The worklist of one activation is empty in the trace pass.               *)
Traced == /\ pc = "walk" /\ ready = {} /\ pass = "trace"
          /\ ai' = ai + 1
          /\ pc' = "next"
          /\ UNCHANGED <<given, batch, declared, pass, walk, log, answers>>

(* _evaluate_with_log returns; the decision loop starts.                    *)
StartDeciding == /\ pc = "next" /\ ai > Len(batch) /\ pass = "trace"
                 /\ pass' = "decide"
                 /\ ai' = 1
                 /\ UNCHANGED <<given, batch, declared, pc, walk, log, answers>>

Terminals == {g \in DOMAIN outcome : outcome[g].master # "none"}
Withheld  == {outcome[g].verdict : g \in {h \in Terminals : outcome[h].master = "withhold"}}

(* Mutant: one acting terminal is enough.                                   *)
AcceptAny == \E g \in Terminals : outcome[g].master = "act"

(* Some terminal was reached and every one of them acts.                    *)
AcceptAll == Terminals # {} /\ Withheld = {}

Deciding == pc = "walk" /\ ready = {} /\ pass = "decide"

AcceptAct == /\ Deciding /\ AcceptAll
             /\ accepted' = accepted \cup {IdOf(ai)}
             /\ ai' = ai + 1 /\ pc' = "next"
             /\ UNCHANGED <<given, batch, declared, pass, walk, log, undecided, rejected>>

LeaveAct == /\ Deciding /\ ~AcceptAll /\ Withheld \cap {"human", "reserved"} # {}
            /\ undecided' = undecided \cup {IdOf(ai)}
            /\ ai' = ai + 1 /\ pc' = "next"
            /\ UNCHANGED <<given, batch, declared, pass, walk, log, accepted, rejected>>

(* Mutant: nothing is said of an activation that reaches no terminal.       *)
RejectWithoutDefault ==
    /\ Deciding /\ Withheld # {} /\ Withheld \cap {"human", "reserved"} = {}
    /\ rejected' = Put(rejected, IdOf(ai), Strictest(Withheld))
    /\ ai' = ai + 1 /\ pc' = "next"
    /\ UNCHANGED <<given, batch, declared, pass, walk, log, accepted, undecided>>

(* The strictest withheld verdict is the reason, refused without terminals. *)
RejectAct ==
    /\ Deciding /\ ~AcceptAll /\ Withheld \cap {"human", "reserved"} = {}
    /\ rejected' = Put(rejected, IdOf(ai),
                       IF Withheld = {} THEN "refused" ELSE Strictest(Withheld))
    /\ ai' = ai + 1 /\ pc' = "next"
    /\ UNCHANGED <<given, batch, declared, pass, walk, log, accepted, undecided>>

(* reason returns its partitions, to the handler or to the host that gave   *)
(* the table.                                                               *)
Conclude == /\ pc = "next" /\ ai > Len(batch) /\ pass = "decide"
            /\ pc' = IF table = NoTable THEN "concluded" ELSE "returned"
            /\ UNCHANGED <<given, batch, declared, pass, ai, walk, log, answers>>

Overlap == \/ accepted \cap undecided # {}
           \/ (accepted \cup undecided) \cap DOMAIN rejected # {}

(* validate_result: (activation.get("token") or {}).get("id") is computed   *)
(* for every activation before the partitions are compared: an empty token  *)
(* passes for none, of what is no dict get does not exist.                  *)
CheckResult ==
    /\ pc = "concluded"
    /\ pc' = IF \E i \in 1..Len(sent) : sent[i].shape = "alien" THEN "crashed"
             ELSE IF Overlap THEN "invalid" ELSE "returned"
    /\ UNCHANGED <<given, batch, declared, pass, ai, walk, log, answers>>

Next == \/ Apply \/ PassThrough \/ Null \/ Govern \/ Governed
        \/ Enter \/ SkipMalformed \/ Visit \/ Traced \/ StartDeciding
        \/ AcceptAct \/ LeaveAct \/ RejectAct \/ Conclude \/ CheckResult

(* A pure function on its caller's thread: it runs to its end.              *)
Spec == Init /\ [][Next]_vars /\ WF_vars(Next)

-----------------------------------------------------------------------------
(* Reference definitions: what the verdicts must be, without a worklist.    *)

(* The gates an activation passes on its way to g.                          *)
Path(i, g) == {h \in Reach(patch, batch[i].src) : g \in Reach(patch, h)}

PathVerdict(i, g) == Strictest({GradedVerdict(patch, h, batch[i]) : h \in Path(i, g)})

TerminalVerdicts(i) == {PathVerdict(i, g) : g \in Reach(patch, batch[i].src) \cap patch.egress}

ValidActs == {i \in 1..Len(batch) : batch[i].shape = "valid"}

(* No two activations go by one id.                                         *)
DistinctIds == \A i, j \in 1..Len(batch) : IdOf(i) = IdOf(j) => i = j

-----------------------------------------------------------------------------

(* Strictest wins along every path: what is logged for a gate is the        *)
(* strictest of what all the gates between the source and it say, whichever *)
(* of several paths they lie on and in whatever order they were evaluated.  *)
StrictestOnEveryPath ==
    \A n \in 1..Len(log) : log[n].verdict = PathVerdict(log[n].act, log[n].gate)

(* The log lists, activation by activation, every reached gate once, and    *)
(* never a gate before one it can be reached from.                          *)
LogIsTopological ==
    /\ \A m, n \in 1..Len(log) : m < n =>
          /\ log[m].act <= log[n].act
          /\ log[m].act = log[n].act => log[m].gate \notin Reach(patch, log[n].gate)
    /\ pass = "decide" =>
          {<<log[n].act, log[n].gate>> : n \in 1..Len(log)}
              = UNION {{i} \X Reach(patch, batch[i].src) : i \in ValidActs}

(* Complete mediation: an action is released only if every gate its         *)
(* activation reaches, on every branch, says auto on its own, and every     *)
(* obligation of the graph is attached where something egresses.            *)
MediationIsComplete ==
    \A i \in ValidActs : DistinctIds /\ IdOf(i) \in accepted =>
        /\ \A g \in Reach(patch, batch[i].src) :
              GradedVerdict(patch, g, batch[i]) = "auto"
        /\ patch.obligations \subseteq patch.egress

(* Each activation is answered, once, and by its own merits: whatever else  *)
(* the batch holds, the answer is the one its terminals call for.           *)
AnsweredOnItsOwn ==
    pc \in {"concluded", "returned"} /\ DistinctIds =>
        \A i \in 1..Len(batch) :
            LET held == {v \in TerminalVerdicts(i) : v # "auto" \/ ~Attached}
                here == <<IdOf(i) \in accepted, IdOf(i) \in undecided, IdOf(i) \in DOMAIN rejected>>
            IN  IF i \notin ValidActs
                THEN here = <<FALSE, FALSE, TRUE>> /\ rejected[IdOf(i)] = "invalid"
                ELSE IF held = {} /\ TerminalVerdicts(i) # {} THEN here = <<TRUE, FALSE, FALSE>>
                ELSE IF held \cap {"human", "reserved"} # {} THEN here = <<FALSE, TRUE, FALSE>>
                ELSE here = <<FALSE, FALSE, TRUE>> /\ rejected[IdOf(i)] # "invalid"

(* Delegation confers nothing: in a patch that is evaluated at all, what a  *)
(* grant clause lets an actor do at a gate is granted there to every actor  *)
(* up its principal chain, not only to its immediate delegator.             *)
ByGrant(a, g, kind, risk) ==
    /\ \E r \in patch.grants : r.actor = a /\ r.gate = g
    /\ Authorized(patch, g, a, kind, risk)

Principals(a) == Closure(Actor, Links(patch), a)

DelegationConfersNothing ==
    pc = "next" =>
        \A a \in Actor, g \in Gate, kind \in Kind, risk \in Risk :
            ByGrant(a, g, kind, risk) =>
                \A b \in Principals(a) : ByGrant(b, g, kind, risk)

(* Material goes onward only as mandated: when an action is released at a   *)
(* gate that consigns what it releases, the purposes of every transfer of   *)
(* its kind to that party are among those of the proposing actor and of     *)
(* everyone up its principal chain.                                         *)
OnwardAsMandated ==
    \A i \in ValidActs : DistinctIds /\ IdOf(i) \in accepted =>
        \A g \in Reach(patch, batch[i].src) \cap patch.egress, t \in patch.transfers :
            patch.consign[g] = t.to /\ t.kind = batch[i].token.kind =>
                \A b \in Principals(batch[i].actor) : t.within \subseteq patch.mandate[b]

(* What is not raised by a claim: grants that cover every risk below one    *)
(* they cover, and no clause that a higher risk escapes.                    *)
Monotone ==
    /\ \A r \in patch.grants : \A risk \in r.risks : 0..risk \subseteq r.risks
    /\ \A c \in patch.reserved \cup patch.prohibited :
          c.when = NoGuard \/ c.when.field # "risk" \/ c.when.op = ">="

(* The activation as its host saw it, whatever its actor declared of it.    *)
AsObserved(a) ==
    [a EXCEPT !.token.kind = a.observed.kind,
              !.token.risk = IF a.observed.kind = Unclassifiable \/ Mapped(a.observed) = {}
                             THEN MaxRisk ELSE Lookup(a.observed)]

(* A claim buys nothing: with a risk table, and grants and clauses that are *)
(* monotone in risk, an observed action is released only if every gate it   *)
(* reaches would let it through on the host's observation alone, no matter  *)
(* what kind and risk its token declared.                                   *)
ClaimBuysNothing ==
    table # NoTable /\ Monotone =>
        \A i \in ValidActs : ~Ungoverned(sent[i]) /\ DistinctIds /\ IdOf(i) \in accepted =>
            \A g \in Reach(patch, sent[i].src) :
                GradedVerdict(patch, g, AsObserved(sent[i])) = "auto"

(* Both sides of the record: where the log shows a token beside a risk that *)
(* was raised, it is the one this very activation declared, also when       *)
(* others of the batch were refused or never governed.                      *)
DualRecord ==
    \A n \in 1..Len(log) : log[n].token \in {NoToken, sent[log[n].act].token}

(* The worklist never starves: every batch is concluded or refused.         *)
EveryBatchEnds == <>(pc \in {"refused", "crashed", "invalid", "returned"})

-----------------------------------------------------------------------------
(* Checked alone: what the contract document says of a token id.  An id is  *)
(* accepted only when every terminal reached under it acts.                 *)
AcceptedIdActsEverywhere ==
    pc = "concluded" =>
        \A i \in ValidActs : IdOf(i) \in accepted =>
            \A g \in Reach(patch, batch[i].src) \cap patch.egress :
                Master(g, PathVerdict(i, g)) = "act"

(* Checked alone: what the contract document says of an activation that is  *)
(* no dict.  It is rejected, and the batch is answered all the same.        *)
NeverCrashes == pc # "crashed"
=============================================================================
