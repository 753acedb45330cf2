------------------------------- MODULE RootCauses -------------------------------
(***************************************************************************)
(* root_causes (src/src/loomground_solver/epistemic_status.py): which       *)
(* unsettled premises are causes and which only rest on one.  A depth-first *)
(* search over the declared dependencies looks for cycles, then every       *)
(* premise is put into one part.  One step follows one dependency.  The     *)
(* report's list of dangling dependencies, read off the input, is left out. *)
(***************************************************************************)
EXTENDS Naturals, Sequences, FiniteSets, Reachability

CONSTANTS
    Name,    \* what a dependency may name, premises and others
    Lists    \* the premise lists that are classified

Settled == {"asserted", "inferred"}
Status  == Settled \cup {"presupposed", "contested", "unknown"}

(* Names may repeat; a dependency may name no premise of the list.          *)
IsList(s) == s \in Seq([name : Name, status : Status, deps : Seq(Name)])

ASSUME ListsAssumption == \A s \in Lists : IsList(s)

VARIABLES
    items,
    pc,
    at,         \* the position the outer loop of either half has come to
    colour, stack, path, onCycle,     \* the search
    frontier, seen,                   \* rests_on_open of one premise
    part,       \* part[i]: where the i-th premise went
    overall

search   == <<colour, stack, path, onCycle>>
resting  == <<frontier, seen>>
vars     == <<items, pc, at, search, resting, part, overall>>

Names == {items[i].name : i \in 1..Len(items)}

(* by_name: the last premise of a name is the one that is looked up.        *)
ByName(n) == items[CHOOSE i \in 1..Len(items) :
                      items[i].name = n /\ \A j \in (i + 1)..Len(items) : items[j].name # n]

Unsettled(n) == ByName(n).status \notin Settled

Init == /\ items \in Lists
        /\ pc = "search" /\ at = 1
        /\ colour = [n \in Names |-> "white"]
        /\ stack = <<>> /\ path = <<>> /\ onCycle = {}
        /\ frontier = <<>> /\ seen = {}
        /\ part = <<>> /\ overall = "none"

-----------------------------------------------------------------------------
(* The search: each frame holds a premise and its dependencies still to try.*)

Frame(n) == [node |-> n, deps |-> ByName(n).deps]

Start == /\ pc = "search" /\ stack = <<>> /\ at <= Len(items)
         /\ at' = at + 1
         /\ LET n == items[at].name
            IN  IF colour[n] # "white" THEN UNCHANGED <<colour, stack, path>>
                ELSE /\ colour' = [colour EXCEPT ![n] = "grey"]
                     /\ stack' = <<Frame(n)>>
                     /\ path' = <<n>>
         /\ UNCHANGED <<items, pc, onCycle, resting, part, overall>>

Top == stack[Len(stack)]

Trying == pc = "search" /\ stack # <<>> /\ Top.deps # <<>>

Dep == Head(Top.deps)

Tried == [stack EXCEPT ![Len(stack)].deps = Tail(@)]

(* A dependency that names nothing, or one that is finished.                *)
Pass == /\ Trying /\ (Dep \in Names => colour[Dep] = "black")
        /\ stack' = Tried
        /\ UNCHANGED <<items, pc, at, colour, path, onCycle, resting, part, overall>>

(* Mutant: the whole path is taken for the cycle.                           *)
CloseWholePath == /\ Trying /\ Dep \in Names /\ colour[Dep] = "grey"
                  /\ onCycle' = onCycle \cup {path[i] : i \in 1..Len(path)}
                  /\ stack' = Tried
                  /\ UNCHANGED <<items, pc, at, colour, path, resting, part, overall>>

(* A dependency on the current path: all from there on lie on a cycle.  The *)
(* code's second case, a grey premise off the path, never arises: the       *)
(* CHOOSE below would have nothing to choose and TLC would stop.            *)
CloseCycle == /\ Trying /\ Dep \in Names /\ colour[Dep] = "grey"
              /\ LET from == CHOOSE i \in 1..Len(path) : path[i] = Dep
                 IN  onCycle' = onCycle \cup {path[i] : i \in from..Len(path)}
              /\ stack' = Tried
              /\ UNCHANGED <<items, pc, at, colour, path, resting, part, overall>>

Descend == /\ Trying /\ Dep \in Names /\ colour[Dep] = "white"
           /\ colour' = [colour EXCEPT ![Dep] = "grey"]
           /\ stack' = Append(Tried, Frame(Dep))
           /\ path' = Append(path, Dep)
           /\ UNCHANGED <<items, pc, at, onCycle, resting, part, overall>>

Front(s) == SubSeq(s, 1, Len(s) - 1)

Finish == /\ pc = "search" /\ stack # <<>> /\ Top.deps = <<>>
          /\ colour' = [colour EXCEPT ![Top.node] = "black"]
          /\ stack' = Front(stack)
          /\ path' = IF path # <<>> /\ path[Len(path)] = Top.node THEN Front(path) ELSE path
          /\ UNCHANGED <<items, pc, at, onCycle, resting, part, overall>>

Searched == /\ pc = "search" /\ stack = <<>> /\ at > Len(items)
            /\ pc' = "classify" /\ at' = 1
            /\ UNCHANGED <<items, search, resting, part, overall>>

-----------------------------------------------------------------------------
(* The classification, in input order.                                      *)

Put(where) == part' = Append(part, where) /\ at' = at + 1

Classifying == pc = "classify" /\ at <= Len(items)

PutCyclic == /\ Classifying /\ items[at].name \in onCycle
             /\ Put("cyclic")
             /\ UNCHANGED <<items, pc, search, resting, overall>>

PutRoot == /\ Classifying /\ items[at].name \notin onCycle
           /\ items[at].status \notin Settled
           /\ Put("root")
           /\ UNCHANGED <<items, pc, search, resting, overall>>

(* Settled in itself: what does it rest on?                                 *)
AskRest == /\ Classifying /\ items[at].name \notin onCycle
           /\ items[at].status \in Settled
           /\ pc' = "rest"
           /\ frontier' = ByName(items[at].name).deps /\ seen' = {}
           /\ UNCHANGED <<items, at, search, part, overall>>

Last == frontier[Len(frontier)]

Resting == pc = "rest" /\ frontier # <<>>

Known(n) == n \in seen \/ n \notin Names

(* Mutant: the dependency is looked at and not taken off.                   *)
PeekDep == /\ Resting /\ Known(Last)
           /\ UNCHANGED vars

DropDep == /\ Resting /\ Known(Last)
           /\ frontier' = Front(frontier)
           /\ UNCHANGED <<items, pc, at, search, seen, part, overall>>

PutDerived == /\ Resting /\ ~Known(Last) /\ Unsettled(Last)
              /\ Put("derived")
              /\ pc' = "classify"
              /\ frontier' = <<>> /\ seen' = {}
              /\ UNCHANGED <<items, search, overall>>

(* Mutant: what a settled dependency rests on is not looked at.             *)
RestDirectly == /\ Resting /\ ~Known(Last) /\ ~Unsettled(Last)
                /\ frontier' = Front(frontier) /\ seen' = seen \cup {Last}
                /\ UNCHANGED <<items, pc, at, search, part, overall>>

RestFurther == /\ Resting /\ ~Known(Last) /\ ~Unsettled(Last)
               /\ frontier' = Front(frontier) \o ByName(Last).deps
               /\ seen' = seen \cup {Last}
               /\ UNCHANGED <<items, pc, at, search, part, overall>>

PutSettled == /\ pc = "rest" /\ frontier = <<>>
              /\ Put("settled")
              /\ pc' = "classify" /\ seen' = {}
              /\ UNCHANGED <<items, search, frontier, overall>>

(* Mutant: the last premise of each name decides.                           *)
FoldByName == IF \E n \in Names : Unsettled(n) THEN "open" ELSE "satisfied"

(* propagate_premises: one unsettled premise leaves the whole set open.     *)
Fold == IF \E i \in 1..Len(items) : items[i].status \notin Settled THEN "open" ELSE "satisfied"

Return == /\ pc = "classify" /\ at > Len(items)
          /\ pc' = "returned"
          /\ overall' = Fold
          /\ UNCHANGED <<items, at, search, resting, part>>

Next == \/ Start \/ Pass \/ CloseCycle \/ Descend \/ Finish \/ Searched
        \/ PutCyclic \/ PutRoot \/ AskRest \/ DropDep \/ PutDerived
        \/ RestFurther \/ PutSettled \/ Return

(* A pure function on its caller's thread: it runs to its return.           *)
Spec == Init /\ [][Next]_vars /\ WF_vars(Next)

-----------------------------------------------------------------------------
(* Reference definitions.                                                   *)

RestsOn(m, n) == n \in Names /\ \E i \in 1..Len(ByName(m).deps) : ByName(m).deps[i] = n

Dependence == {e \in Names \X Names : RestsOn(e[1], e[2])}

(* What m rests on, transitively, through premises of S only.               *)
Basis(m, S) == UNION {Closure(S, Dependence, n) : n \in {k \in S : RestsOn(m, k)}}

(* The cycles are found: what is reported as cyclic does lie on a cycle,    *)
(* and once it is set aside no cycle is left among the others, so that no   *)
(* part of the report rests on itself.                                      *)
CyclesAreBroken ==
    pc # "search" =>
        /\ \A n \in onCycle : n \in Basis(n, Names)
        /\ \A n \in Names \ onCycle : n \notin Basis(n, Names \ onCycle)

(* Causes and consequences: a premise that is settled and not cyclic is     *)
(* derived exactly if it rests on an unsettled premise at any remove, also  *)
(* across a cycle, and also where a name it rests on is used twice.         *)
DerivedRestsOnOpen ==
    \A i \in 1..Len(part) : part[i] \in {"derived", "settled"} =>
        (part[i] = "derived") = \E n \in Basis(items[i].name, Names) : Unsettled(n)

(* It orders, it does not decide: the set is open exactly if some premise   *)
(* of the report is unsettled on its own, as a root or inside a cycle, even *)
(* where one name is used twice.                                            *)
OrdersTheFold ==
    pc = "returned" =>
        (overall = "open") = \E i \in 1..Len(part) :
            \/ part[i] = "root"
            \/ part[i] = "cyclic" /\ items[i].status \notin Settled

(* A cycle does not hang the traversal.                                     *)
Terminates == <>(pc = "returned")

-----------------------------------------------------------------------------
(* Checked alone: what the report says of its cyclic part.  A premise on a  *)
(* dependency cycle is reported as cyclic and is no cause or consequence.   *)
EveryCyclicReported ==
    pc = "returned" =>
        \A i \in 1..Len(part) : items[i].name \in Basis(items[i].name, Names) => part[i] = "cyclic"
=============================================================================
