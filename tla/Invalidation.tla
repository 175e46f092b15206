---------------------------- MODULE Invalidation ----------------------------
(***************************************************************************)
(* computeAffected (internal/compiler/evaluate.go) step by step: one step  *)
(* per declared change, then a first-in first-out walk of the reverse      *)
(* dependency edges, one step per module taken from the queue.             *)
(*                                                                         *)
(* The walk appends the dependents it finds in the order of the sorted     *)
(* declarations.  The model appends them in any order, which includes that *)
(* one; the result is proved not to depend on it.                          *)
(***************************************************************************)
EXTENDS AffectedSet

CONSTANTS
    Identity,   \* module identities, declared or only mentioned
    Inputs      \* the pairs [decls, changes] the function is called with

\* What parsing and validation leave of a declaration, a change and a call.
Dependency  == [target : Identity, invalidates : STRING]
Rule        == [id : STRING, kind : STRING]
Declaration == [identity : Identity, deps : SUBSET Dependency, rules : SUBSET Rule]
Change      == [module : Identity, kind : STRING]

ASSUME InputsAssumption ==
    Inputs \subseteq [decls : Seq(Declaration), changes : Seq(Change)]

VARIABLES
    input,      \* the arguments; never changes
    phase,      \* "seed": reading changes, "walk": emptying the queue, "done"
    next,       \* index of the next change to read
    seen,       \* the map seen, as the set of its keys
    queue,      \* modules whose dependents have not been visited yet
    unknowns,   \* the unknown evidence appended so far
    affected    \* the result; {} until the function returns

vars == <<input, phase, next, seen, queue, unknowns, affected>>

Decls   == input.decls
Changes == input.changes

TypeOK ==
    /\ input \in Inputs
    /\ phase \in {"seed", "walk", "done"}
    /\ next \in 1..Len(Changes) + 1
    /\ seen \subseteq Known(Decls)
    /\ queue \in Seq(Known(Decls))
    /\ unknowns \subseteq ChangeUnknowns(Decls, Changes)
    /\ affected \subseteq Known(Decls)

-----------------------------------------------------------------------------
Init ==
    /\ input \in Inputs
    /\ phase = "seed"
    /\ next = 1
    /\ seen = {}
    /\ queue = <<>>
    /\ unknowns = {}
    /\ affected = {}

\* Mutants: undeclared modules, or changes of any kind, seed the walk.
SeedOf_Undeclared(change) ==
    IF change.kind = "semantic" THEN {change.module} ELSE {}

SeedOf_AnyKind(change) ==
    IF change.module \in Known(Decls) THEN {change.module} ELSE {}

\* The seed a change contributes: none unless it is a semantic change of a
\* declared module.
SeedOf(change) ==
    IF change.module \in Known(Decls) /\ change.kind = "semantic"
    THEN {change.module}
    ELSE {}

\* The ways to lay a finite set out as a sequence without repetition.
Orders(S) == Bijection(1..Cardinality(S), S)

\* Mutant: members of S seen before are appended again.
Enqueue_Again(S, q) ==
    \E order \in Orders(S) :
        /\ seen' = seen \cup S
        /\ queue' = q \o order

\* Mark the members of S not seen before and append them to the queue q.
Enqueue(S, q) ==
    \E order \in Orders(S \ seen) :
        /\ seen' = seen \cup S
        /\ queue' = q \o order

\* Mutant: a change of an undeclared module ends the reading of changes.
ReadChange_StopsAtUnknown ==
    /\ phase = "seed"
    /\ next <= Len(Changes)
    /\ unknowns' = unknowns \cup ChangeUnknown(Decls, Changes[next])
    /\ Enqueue(SeedOf(Changes[next]), queue)
    /\ next' = IF Changes[next].module \in Known(Decls) THEN next + 1 ELSE Len(Changes) + 1
    /\ UNCHANGED <<input, phase, affected>>

\* One iteration over changes.
ReadChange ==
    /\ phase = "seed"
    /\ next <= Len(Changes)
    /\ unknowns' = unknowns \cup ChangeUnknown(Decls, Changes[next])
    /\ Enqueue(SeedOf(Changes[next]), queue)
    /\ next' = next + 1
    /\ UNCHANGED <<input, phase, affected>>

StartWalk ==
    /\ phase = "seed"
    /\ next > Len(Changes)
    /\ phase' = "walk"
    /\ UNCHANGED <<input, next, seen, queue, unknowns, affected>>

\* Mutants: dependents are marked but not visited themselves; the visited
\* module stays in the queue.
Visit_MarksOnly ==
    /\ phase = "walk"
    /\ queue # <<>>
    /\ seen' = seen \cup SemanticDependents(Decls, Head(queue))
    /\ queue' = Tail(queue)
    /\ UNCHANGED <<input, phase, next, unknowns, affected>>

Visit_NoPop ==
    /\ phase = "walk"
    /\ queue # <<>>
    /\ Enqueue(SemanticDependents(Decls, Head(queue)), queue)
    /\ UNCHANGED <<input, phase, next, unknowns, affected>>

\* One iteration of the walk: current := queue[0]; visit its dependents.
Visit ==
    /\ phase = "walk"
    /\ queue # <<>>
    /\ Enqueue(SemanticDependents(Decls, Head(queue)), Tail(queue))
    /\ UNCHANGED <<input, phase, next, unknowns, affected>>

Return ==
    /\ phase = "walk"
    /\ queue = <<>>
    /\ phase' = "done"
    /\ affected' = seen
    /\ UNCHANGED <<input, next, seen, queue, unknowns>>

Terminated == phase = "done" /\ UNCHANGED vars

Next == ReadChange \/ StartWalk \/ Visit \/ Return \/ Terminated

Spec == Init /\ [][Next]_vars

\* The function runs on one goroutine that nothing blocks, so an enabled
\* iteration is taken.
FairSpec == Spec /\ WF_vars(Next)
-----------------------------------------------------------------------------
\* The queue holds modules already marked as seen, and none of them twice.
QueueIsSeen == IsInjective(queue) /\ Range(queue) \subseteq seen

\* Nothing the walk still owes is forgotten: the seeds read so far are seen,
\* and every seen module is queued or has all its semantic dependents seen.
Frontier ==
    /\ \A i \in 1..next - 1 : SeedOf(Changes[i]) \subseteq seen
    /\ \A m \in seen \ Range(queue) : SemanticDependents(Decls, m) \subseteq seen

\* No module is marked that the changes do not invalidate: the walk never
\* leaves the least closed set, on no graph, cyclic ones included.
NothingSpurious == seen \subseteq Affected(Decls, Changes)

\* A module that has left the queue never returns to it, whatever cycles,
\* repeated changes and parallel edges lead back to it: a visit is final.
VisitedOnce ==
    [][\A m \in seen \ Range(queue) : m \notin Range(queue')]_vars

\* computeAffected returns on every graph, cyclic ones included.
Termination == <>(phase = "done")

\* The walk implements the one-step specification: whatever the order of the
\* queue, the returned set is the least closed one and the evidence is that
\* of exactly the changes given.
Abstract == INSTANCE AffectedSpec WITH
    resolved <- phase = "done",
    unknowns <- IF phase = "done" THEN unknowns ELSE {}

ImplementsAffectedSpec == Abstract!Spec
=============================================================================
