------------------------- MODULE InvalidationProofs -------------------------
(***************************************************************************)
(* Proofs about the invalidation walk, for every set of identities and     *)
(* every set of inputs: any number of modules, any graph (cyclic or not),  *)
(* any duplicate declarations and any list of changes.                     *)
(***************************************************************************)
EXTENDS Invalidation, SequenceTheorems, FiniteSetTheorems, TLAPS

-----------------------------------------------------------------------------
(* Sequences and orders. *)

LEMMA TailRange ==
    ASSUME NEW S, NEW q \in Seq(S), q # <<>>
    PROVE  Range(q) = {Head(q)} \cup Range(Tail(q))
<1>1. /\ Tail(q) \in Seq(S)
      /\ Len(q) \in Nat \ {0}
      /\ Len(Tail(q)) = Len(q) - 1
      /\ \A i \in 1..Len(Tail(q)) : Tail(q)[i] = q[i + 1]
      /\ Head(q) = q[1]
    BY HeadTailProperties, EmptySeq
<1>2. Range(q) = {q[i] : i \in 1..Len(q)}
    BY RangeEquality
<1>3. Range(Tail(q)) = {Tail(q)[i] : i \in 1..Len(Tail(q))}
    BY <1>1, RangeEquality
<1>4. ASSUME NEW i \in 1..Len(q) PROVE q[i] \in {Head(q)} \cup Range(Tail(q))
    <2>1. CASE i = 1
        BY <2>1, <1>1
    <2>2. CASE i # 1
        <3>1. i - 1 \in 1..Len(Tail(q)) /\ Tail(q)[i - 1] = q[i]
            BY <2>2, <1>1
        <3> QED
            BY <3>1, <1>3
    <2> QED
        BY <2>1, <2>2
<1>5. ASSUME NEW i \in 1..Len(Tail(q)) PROVE Tail(q)[i] \in Range(q)
    BY <1>1, <1>2
<1>6. Head(q) \in Range(q)
    BY <1>1, <1>2
<1> QED
    BY <1>2, <1>3, <1>4, <1>5, <1>6

LEMMA TailInjective ==
    ASSUME NEW S, NEW q \in Seq(S), q # <<>>, IsInjective(q)
    PROVE  IsInjective(Tail(q))
<1>1. /\ Tail(q) \in Seq(S)
      /\ Len(q) \in Nat \ {0}
      /\ Len(Tail(q)) = Len(q) - 1
      /\ DOMAIN Tail(q) = 1..Len(Tail(q))
      /\ DOMAIN q = 1..Len(q)
      /\ \A i \in 1..Len(Tail(q)) : Tail(q)[i] = q[i + 1]
    BY HeadTailProperties, EmptySeq, LenProperties
<1> SUFFICES ASSUME NEW i \in 1..Len(Tail(q)), NEW j \in 1..Len(Tail(q)),
                    Tail(q)[i] = Tail(q)[j]
             PROVE  i = j
    BY <1>1 DEF IsInjective
<1>2. i + 1 \in DOMAIN q /\ j + 1 \in DOMAIN q /\ q[i + 1] = q[j + 1]
    BY <1>1
<1>3. i + 1 = j + 1
    BY <1>2 DEF IsInjective
<1> QED
    BY <1>3, <1>1

LEMMA ConcatInjective ==
    ASSUME NEW S, NEW s \in Seq(S), NEW t \in Seq(S),
           IsInjective(s), IsInjective(t), Range(s) \cap Range(t) = {}
    PROVE  IsInjective(s \o t)
<1> DEFINE u == s \o t
<1>1. /\ Len(s) \in Nat /\ Len(t) \in Nat
      /\ DOMAIN s = 1..Len(s)
      /\ DOMAIN t = 1..Len(t)
      /\ u \in Seq(S)
      /\ DOMAIN u = 1..Len(s) + Len(t)
      /\ \A i \in 1..Len(s) + Len(t) :
            u[i] = IF i <= Len(s) THEN s[i] ELSE t[i - Len(s)]
    BY ConcatProperties, LenProperties
<1>2. /\ \A i \in 1..Len(s) : s[i] \in Range(s)
      /\ \A i \in 1..Len(t) : t[i] \in Range(t)
    BY <1>1 DEF Range
<1> HIDE DEF u
<1> SUFFICES ASSUME NEW i \in 1..Len(s) + Len(t), NEW j \in 1..Len(s) + Len(t),
                    u[i] = u[j]
             PROVE  i = j
    BY <1>1 DEF IsInjective, u
<1>3. CASE i <= Len(s) /\ j <= Len(s)
    <2>1. i \in 1..Len(s) /\ j \in 1..Len(s) /\ s[i] = s[j]
        BY <1>1, <1>3
    <2> QED
        BY <2>1, <1>1 DEF IsInjective
<1>4. CASE i <= Len(s) /\ ~(j <= Len(s))
    <2>1. i \in 1..Len(s) /\ j - Len(s) \in 1..Len(t) /\ s[i] = t[j - Len(s)]
        BY <1>1, <1>4
    <2> QED
        BY <2>1, <1>2
<1>5. CASE ~(i <= Len(s)) /\ j <= Len(s)
    <2>1. j \in 1..Len(s) /\ i - Len(s) \in 1..Len(t) /\ s[j] = t[i - Len(s)]
        BY <1>1, <1>5
    <2> QED
        BY <2>1, <1>2
<1>6. CASE ~(i <= Len(s)) /\ ~(j <= Len(s))
    <2>1. /\ i - Len(s) \in 1..Len(t)
          /\ j - Len(s) \in 1..Len(t)
          /\ t[i - Len(s)] = t[j - Len(s)]
        BY <1>1, <1>6
    <2>2. i - Len(s) = j - Len(s)
        BY <2>1, <1>1 DEF IsInjective
    <2> QED
        BY <2>2, <1>1
<1> QED
    BY <1>3, <1>4, <1>5, <1>6

\* An order of a finite set is a sequence that lists it without repetition.
LEMMA OrderProperties ==
    ASSUME NEW S, IsFiniteSet(S), NEW order \in Orders(S)
    PROVE  order \in Seq(S) /\ Range(order) = S /\ IsInjective(order)
<1>1. Cardinality(S) \in Nat
    BY FS_CardinalityType
<1>2. /\ order \in [1..Cardinality(S) -> S]
      /\ IsInjective(order)
      /\ \A t \in S : \E i \in 1..Cardinality(S) : order[i] = t
    BY DEF Orders, Bijection, Injection, Surjection
<1>3. order \in Seq(S)
    BY <1>1, <1>2, SeqDef
<1>4. Range(order) = S
    BY <1>2 DEF Range
<1> QED
    BY <1>2, <1>3, <1>4
-----------------------------------------------------------------------------
(* The operators on declarations and changes. *)

LEMMA DependentsAreKnown ==
    ASSUME NEW decls, NEW m
    PROVE  SemanticDependents(decls, m) \subseteq Known(decls)
BY DEF SemanticDependents, Known

LEMMA KnownIsFinite ==
    ASSUME NEW S, NEW decls \in Seq(S)
    PROVE  IsFiniteSet(Known(decls))
<1> DEFINE f == [i \in 1..Len(decls) |-> decls[i].identity]
<1>1. Len(decls) \in Nat /\ DOMAIN decls = 1..Len(decls)
    BY LenProperties
<1>2. f \in Surjection(1..Len(decls), Known(decls))
    BY <1>1 DEF Known, Surjection
<1>3. IsFiniteSet(1..Len(decls))
    BY <1>1, FS_Interval
<1> QED
    BY <1>2, <1>3, FS_Surjection

\* Affected is below every closed set of declared modules that holds the seeds.
LEMMA AffectedIsLeast ==
    ASSUME NEW decls, NEW changes, NEW S \in SUBSET Known(decls),
           Seeds(decls, changes) \subseteq S, ClosedUnder(decls, S)
    PROVE  Affected(decls, changes) \subseteq S
BY DEF Affected

\* Affected is itself such a set.
LEMMA AffectedIsClosed ==
    ASSUME NEW decls, NEW changes
    PROVE  /\ Seeds(decls, changes) \subseteq Affected(decls, changes)
           /\ ClosedUnder(decls, Affected(decls, changes))
<1>1. Seeds(decls, changes) \subseteq Affected(decls, changes)
    BY DEF Seeds, Affected
<1>2. ASSUME NEW m \in Affected(decls, changes),
             NEW n \in SemanticDependents(decls, m)
      PROVE  n \in Affected(decls, changes)
    <2>1. n \in Known(decls) /\ m \in Known(decls)
        BY <1>2, DependentsAreKnown DEF Affected
    <2>2. ASSUME NEW S \in SUBSET Known(decls),
                 Seeds(decls, changes) \subseteq S, ClosedUnder(decls, S)
          PROVE  n \in S
        <3>1. m \in S
            BY <2>2, AffectedIsLeast
        <3> QED
            BY <3>1, <2>1, <2>2 DEF ClosedUnder
    <2> QED
        BY <2>1, <2>2 DEF Affected
<1> QED
    BY <1>1, <1>2 DEF ClosedUnder

-----------------------------------------------------------------------------
(* The inductive invariant. *)

\* The evidence is that of exactly the changes read so far.
EvidenceSoFar ==
    unknowns = UNION {ChangeUnknown(Decls, Changes[i]) : i \in 1..next - 1}

\* What the control state says of the other variables.
PhaseMeaning ==
    /\ phase # "seed" => next = Len(Changes) + 1
    /\ phase = "done" => queue = <<>> /\ affected = seen
    /\ phase # "done" => affected = {}

IInv ==
    /\ TypeOK
    /\ QueueIsSeen
    /\ Frontier
    /\ NothingSpurious
    /\ EvidenceSoFar
    /\ PhaseMeaning

\* What the parser and the validator guarantee of the arguments.
LEMMA InputTypes ==
    ASSUME TypeOK
    PROVE  /\ Decls \in Seq(Declaration)
           /\ Changes \in Seq(Change)
           /\ Len(Changes) \in Nat
           /\ DOMAIN Changes = 1..Len(Changes)
           /\ next \in Nat
           /\ IsFiniteSet(Known(Decls))
<1>1. Decls \in Seq(Declaration) /\ Changes \in Seq(Change)
    BY InputsAssumption DEF TypeOK, Decls, Changes
<1>2. Len(Changes) \in Nat /\ DOMAIN Changes = 1..Len(Changes)
    BY <1>1, LenProperties
<1>3. next \in Nat
    BY <1>2 DEF TypeOK
<1> QED
    BY <1>1, <1>2, <1>3, KnownIsFinite

\* What appending the unseen members of S to the queue q does.
LEMMA EnqueueProperties ==
    ASSUME TypeOK,
           NEW S \in SUBSET Known(Decls),
           NEW q \in Seq(Known(Decls)), IsInjective(q), Range(q) \subseteq seen,
           Enqueue(S, q)
    PROVE  /\ seen' = seen \cup S
           /\ queue' \in Seq(Known(Decls))
           /\ Range(queue') = Range(q) \cup (S \ seen)
           /\ IsInjective(queue')
<1>1. IsFiniteSet(S \ seen)
    BY InputTypes, FS_Subset
<1>2. PICK order \in Orders(S \ seen) : seen' = seen \cup S /\ queue' = q \o order
    BY DEF Enqueue
<1>3. order \in Seq(S \ seen) /\ Range(order) = S \ seen /\ IsInjective(order)
    BY <1>1, OrderProperties
<1>4. order \in Seq(Known(Decls))
    BY <1>3, SeqMonotonic
<1>5. queue' \in Seq(Known(Decls)) /\ Range(queue') = Range(q) \cup (S \ seen)
    BY <1>2, <1>3, <1>4, ConcatProperties, RangeConcatenation
<1>6. Range(q) \cap Range(order) = {}
    BY <1>3
<1>7. IsInjective(queue')
    BY <1>2, <1>3, <1>4, <1>6, ConcatInjective
<1> QED
    BY <1>2, <1>5, <1>7

LEMMA InitEstablishesIInv == Init => IInv
<1> SUFFICES ASSUME Init PROVE IInv
    OBVIOUS
<1>1. /\ input \in Inputs /\ phase = "seed" /\ next = 1
      /\ seen = {} /\ queue = <<>> /\ unknowns = {} /\ affected = {}
    BY DEF Init
<1>2. Len(Changes) \in Nat
    BY <1>1, InputsAssumption, LenProperties DEF Changes
<1>3. TypeOK
    BY <1>1, <1>2, EmptySeq DEF TypeOK
<1>4. Range(queue) = {} /\ IsInjective(queue)
    BY <1>1 DEF Range, IsInjective
<1>5. 1..next - 1 = {}
    BY <1>1
<1> QED
    BY <1>1, <1>3, <1>4, <1>5
    DEF IInv, QueueIsSeen, Frontier, NothingSpurious, EvidenceSoFar, PhaseMeaning

LEMMA ReadChangePreservesIInv ==
    ASSUME IInv, ReadChange
    PROVE  IInv'
<1> DEFINE change == Changes[next]
<1>1. /\ TypeOK /\ QueueIsSeen /\ Frontier /\ NothingSpurious
      /\ EvidenceSoFar /\ PhaseMeaning
    BY DEF IInv
<1>2. /\ phase = "seed" /\ phase' = "seed" /\ next <= Len(Changes)
      /\ unknowns' = unknowns \cup ChangeUnknown(Decls, change)
      /\ Enqueue(SeedOf(change), queue)
      /\ next' = next + 1
      /\ input' = input /\ affected' = affected
    BY DEF ReadChange
<1>3. Decls' = Decls /\ Changes' = Changes
    BY <1>2 DEF Decls, Changes
<1>4. /\ Len(Changes) \in Nat /\ DOMAIN Changes = 1..Len(Changes)
      /\ next \in 1..Len(Changes) /\ next \in DOMAIN Changes
    BY <1>1, <1>2, InputTypes DEF TypeOK
<1>5. SeedOf(change) \subseteq Seeds(Decls, Changes)
    BY <1>4 DEF SeedOf, Seeds
<1>6. SeedOf(change) \in SUBSET Known(Decls)
    BY <1>5 DEF Seeds
<1>7. /\ seen' = seen \cup SeedOf(change)
      /\ queue' \in Seq(Known(Decls))
      /\ Range(queue') = Range(queue) \cup (SeedOf(change) \ seen)
      /\ IsInjective(queue')
    <2> HIDE DEF change
    <2> QED
        BY <1>1, <1>2, <1>6, EnqueueProperties DEF QueueIsSeen, TypeOK
<1>8. \A i \in 1..next' - 1 : i \in 1..next - 1 \/ i = next
    BY <1>2, <1>4
<1>9. TypeOK'
    <2>1. ChangeUnknown(Decls, change) \subseteq ChangeUnknowns(Decls, Changes)
        BY <1>4 DEF ChangeUnknowns
    <2>2. next' \in 1..Len(Changes) + 1
        BY <1>2, <1>4
    <2> QED
        BY <1>1, <1>2, <1>3, <1>6, <1>7, <2>1, <2>2 DEF TypeOK
<1>10. QueueIsSeen'
    BY <1>1, <1>7 DEF QueueIsSeen
<1>11. Frontier'
    <2>1. \A i \in 1..next' - 1 : SeedOf(Changes[i]) \subseteq seen'
        BY <1>1, <1>7, <1>8 DEF Frontier
    <2>2. \A m \in seen' \ Range(queue') : SemanticDependents(Decls, m) \subseteq seen'
        BY <1>1, <1>7 DEF Frontier
    <2>3. \A i : SeedOf(Changes[i])' = SeedOf(Changes[i])
        BY <1>3 DEF SeedOf
    <2> QED
        BY <1>3, <2>1, <2>2, <2>3 DEF Frontier
<1>12. NothingSpurious'
    BY <1>1, <1>3, <1>5, <1>7, AffectedIsClosed DEF NothingSpurious
<1>13. EvidenceSoFar'
    <2>1. 1..next' - 1 = (1..next - 1) \cup {next}
        BY <1>2, <1>4
    <2>2. unknowns' = UNION {ChangeUnknown(Decls, Changes[i]) : i \in 1..next' - 1}
        BY <1>1, <1>2, <2>1 DEF EvidenceSoFar
    <2> QED
        BY <1>3, <2>2 DEF EvidenceSoFar
<1>14. PhaseMeaning'
    BY <1>1, <1>2 DEF PhaseMeaning
<1> QED
    BY <1>9, <1>10, <1>11, <1>12, <1>13, <1>14 DEF IInv

LEMMA VisitPreservesIInv ==
    ASSUME IInv, Visit
    PROVE  IInv'
<1> DEFINE current == Head(queue)
           found   == SemanticDependents(Decls, current)
<1>1. /\ TypeOK /\ QueueIsSeen /\ Frontier /\ NothingSpurious
      /\ EvidenceSoFar /\ PhaseMeaning
    BY DEF IInv
<1>2. /\ phase = "walk" /\ phase' = "walk" /\ queue # <<>>
      /\ Enqueue(found, Tail(queue))
      /\ next' = next /\ unknowns' = unknowns
      /\ input' = input /\ affected' = affected
    BY DEF Visit
<1>3. Decls' = Decls /\ Changes' = Changes
    BY <1>2 DEF Decls, Changes
<1>4. queue \in Seq(Known(Decls))
    BY <1>1 DEF TypeOK
<1>5. /\ Range(queue) = {current} \cup Range(Tail(queue))
      /\ IsInjective(Tail(queue))
      /\ Tail(queue) \in Seq(Known(Decls))
      /\ current \in Known(Decls)
    BY <1>1, <1>2, <1>4, TailRange, TailInjective, HeadTailProperties DEF QueueIsSeen
<1>6. current \in seen /\ Range(Tail(queue)) \subseteq seen
    BY <1>1, <1>5 DEF QueueIsSeen
<1>7. found \in SUBSET Known(Decls)
    BY DependentsAreKnown
<1>8. /\ seen' = seen \cup found
      /\ queue' \in Seq(Known(Decls))
      /\ Range(queue') = Range(Tail(queue)) \cup (found \ seen)
      /\ IsInjective(queue')
    <2> HIDE DEF found
    <2> QED
        BY <1>1, <1>2, <1>5, <1>6, <1>7, EnqueueProperties
<1>9. TypeOK'
    BY <1>1, <1>2, <1>3, <1>7, <1>8 DEF TypeOK
<1>10. QueueIsSeen'
    BY <1>6, <1>8 DEF QueueIsSeen
<1>11. Frontier'
    <2>1. ASSUME NEW m \in seen' \ Range(queue')
          PROVE  SemanticDependents(Decls, m) \subseteq seen'
        <3>1. CASE m = current
            BY <3>1, <1>8
        <3>2. CASE m # current
            <4>1. m \in seen \ Range(queue)
                BY <2>1, <3>2, <1>5, <1>8
            <4> QED
                BY <4>1, <1>1, <1>8 DEF Frontier
        <3> QED
            BY <3>1, <3>2
    <2>2. \A i : SeedOf(Changes[i])' = SeedOf(Changes[i])
        BY <1>3 DEF SeedOf
    <2> HIDE DEF found, current
    <2>3. \A i \in 1..next' - 1 : SeedOf(Changes[i]) \subseteq seen'
        BY <1>1, <1>2, <1>8 DEF Frontier
    <2> QED
        BY <1>3, <2>1, <2>2, <2>3 DEF Frontier
<1>12. NothingSpurious'
    <2>1. current \in Affected(Decls, Changes) \cap Known(Decls)
        BY <1>1, <1>5, <1>6 DEF NothingSpurious
    <2>2. found \subseteq Affected(Decls, Changes)
        BY <2>1, AffectedIsClosed DEF ClosedUnder
    <2> QED
        BY <1>1, <1>3, <1>8, <2>2 DEF NothingSpurious
<1>13. EvidenceSoFar' /\ PhaseMeaning'
    BY <1>1, <1>2, <1>3 DEF EvidenceSoFar, PhaseMeaning
<1> QED
    BY <1>9, <1>10, <1>11, <1>12, <1>13 DEF IInv

LEMMA StartWalkPreservesIInv ==
    ASSUME IInv, StartWalk
    PROVE  IInv'
<1>1. /\ phase = "seed" /\ phase' = "walk" /\ next > Len(Changes)
      /\ UNCHANGED <<input, next, seen, queue, unknowns, affected>>
    BY DEF StartWalk
<1>2. next = Len(Changes) + 1
    BY <1>1, InputTypes DEF IInv, TypeOK
<1> QED
    BY <1>1, <1>2 DEF IInv, TypeOK, QueueIsSeen, Frontier, NothingSpurious,
        EvidenceSoFar, PhaseMeaning, SeedOf, Decls, Changes

LEMMA ReturnPreservesIInv ==
    ASSUME IInv, Return
    PROVE  IInv'
<1>1. /\ phase = "walk" /\ phase' = "done" /\ queue = <<>> /\ affected' = seen
      /\ UNCHANGED <<input, next, seen, queue, unknowns>>
    BY DEF Return
<1> QED
    BY <1>1 DEF IInv, TypeOK, QueueIsSeen, Frontier, NothingSpurious,
        EvidenceSoFar, PhaseMeaning, SeedOf, Decls, Changes

LEMMA StutterPreservesIInv ==
    ASSUME IInv, UNCHANGED vars
    PROVE  IInv'
BY DEF vars, IInv, TypeOK, QueueIsSeen, Frontier, NothingSpurious,
    EvidenceSoFar, PhaseMeaning, SeedOf, Decls, Changes

\* The invariant of the walk holds in every reachable state.
THEOREM IInvInvariant == Spec => []IInv
<1>1. Init => IInv
    BY InitEstablishesIInv
<1>2. IInv /\ [Next]_vars => IInv'
    <2> SUFFICES ASSUME IInv, [Next]_vars PROVE IInv'
        OBVIOUS
    <2>1. CASE ReadChange
        BY <2>1, ReadChangePreservesIInv
    <2>2. CASE StartWalk
        BY <2>2, StartWalkPreservesIInv
    <2>3. CASE Visit
        BY <2>3, VisitPreservesIInv
    <2>4. CASE Return
        BY <2>4, ReturnPreservesIInv
    <2>5. CASE UNCHANGED vars
        BY <2>5, StutterPreservesIInv
    <2> QED
        BY <2>1, <2>2, <2>3, <2>4, <2>5 DEF Next, Terminated
<1> QED
    BY <1>1, <1>2, PTL DEF Spec

\* Every variable keeps its type.
THEOREM TypeCorrect == Spec => []TypeOK
<1>1. IInv => TypeOK
    BY DEF IInv
<1> QED
    BY <1>1, IInvInvariant, PTL

\* The queue never holds a module twice, nor one that is not marked as seen.
THEOREM QueueCorrect == Spec => []QueueIsSeen
<1>1. IInv => QueueIsSeen
    BY DEF IInv
<1> QED
    BY <1>1, IInvInvariant, PTL

\* The walk never loses a module it still owes a visit.
THEOREM FrontierCorrect == Spec => []Frontier
<1>1. IInv => Frontier
    BY DEF IInv
<1> QED
    BY <1>1, IInvInvariant, PTL

\* The walk never marks a module outside the least closed set.
THEOREM MarksOnlyAffected == Spec => []NothingSpurious
<1>1. IInv => NothingSpurious
    BY DEF IInv
<1> QED
    BY <1>1, IInvInvariant, PTL

-----------------------------------------------------------------------------
(* Each module is visited at most once. *)

\* A module that has left the queue never returns to it.
THEOREM NeverRevisited == Spec => VisitedOnce
<1> DEFINE Settled == \A m \in seen \ Range(queue) : m \notin Range(queue')
<1>1. ASSUME IInv, [Next]_vars
      PROVE  Settled
    <2>1. TypeOK /\ QueueIsSeen
        BY <1>1 DEF IInv
    <2>2. queue \in Seq(Known(Decls))
        BY <2>1 DEF TypeOK
    <2>3. CASE ReadChange
        <3>1. SeedOf(Changes[next]) \in SUBSET Known(Decls)
            BY DEF SeedOf
        <3>2. Enqueue(SeedOf(Changes[next]), queue)
            BY <2>3 DEF ReadChange
        <3>3. Range(queue') = Range(queue) \cup (SeedOf(Changes[next]) \ seen)
            BY <2>1, <2>2, <3>1, <3>2, EnqueueProperties DEF QueueIsSeen
        <3> QED
            BY <3>3
    <2>4. CASE Visit
        <3> DEFINE found == SemanticDependents(Decls, Head(queue))
        <3>1. queue # <<>> /\ Enqueue(found, Tail(queue))
            BY <2>4 DEF Visit
        <3>2. /\ Range(queue) = {Head(queue)} \cup Range(Tail(queue))
              /\ IsInjective(Tail(queue))
              /\ Tail(queue) \in Seq(Known(Decls))
              /\ Range(Tail(queue)) \subseteq seen
            BY <2>1, <2>2, <3>1, TailRange, TailInjective, HeadTailProperties
            DEF QueueIsSeen
        <3>3. found \in SUBSET Known(Decls)
            BY DependentsAreKnown
        <3> HIDE DEF found
        <3>4. Range(queue') = Range(Tail(queue)) \cup (found \ seen)
            BY <2>1, <3>1, <3>2, <3>3, EnqueueProperties
        <3> QED
            BY <3>2, <3>4
    <2>5. CASE StartWalk \/ Return \/ UNCHANGED vars
        <3>1. queue' = queue
            BY <2>5 DEF StartWalk, Return, vars
        <3> QED
            BY <3>1
    <2> QED
        BY <1>1, <2>3, <2>4, <2>5 DEF Next, Terminated
<1>2. IInv /\ [Next]_vars => [Settled]_vars
    BY <1>1
<1>3. Spec => [][Settled]_vars
    BY <1>2, IInvInvariant, PTL DEF Spec
<1> QED
    BY <1>3 DEF VisitedOnce

-----------------------------------------------------------------------------
(* The walk implements the one-step specification. *)

\* What the function returns is what the abstract specification computes.
LEMMA ReturnResolves ==
    ASSUME IInv, Return
    PROVE  /\ affected' = Affected(Decls, Changes)
           /\ unknowns' = ChangeUnknowns(Decls, Changes)
<1>1. /\ TypeOK /\ Frontier /\ NothingSpurious /\ EvidenceSoFar /\ PhaseMeaning
    BY DEF IInv
<1>2. /\ phase = "walk" /\ queue = <<>> /\ affected' = seen /\ unknowns' = unknowns
    BY DEF Return
<1>3. next = Len(Changes) + 1
    BY <1>1, <1>2 DEF PhaseMeaning
<1>4. DOMAIN Changes = 1..Len(Changes) /\ 1..next - 1 = 1..Len(Changes)
    BY <1>1, <1>3, InputTypes
<1>5. seen \in SUBSET Known(Decls)
    BY <1>1 DEF TypeOK
<1>6. Seeds(Decls, Changes) \subseteq seen
    BY <1>1, <1>4 DEF Frontier, Seeds, SeedOf
<1>7. Range(queue) = {}
    BY <1>2 DEF Range
<1>8. ClosedUnder(Decls, seen)
    BY <1>1, <1>7 DEF Frontier, ClosedUnder
<1>9. seen = Affected(Decls, Changes)
    BY <1>1, <1>5, <1>6, <1>8, AffectedIsLeast DEF NothingSpurious
<1>10. unknowns = ChangeUnknowns(Decls, Changes)
    BY <1>1, <1>4 DEF EvidenceSoFar, ChangeUnknowns
<1> QED
    BY <1>2, <1>9, <1>10

\* The abstract specification reads the same definitions of the result.
LEMMA SameReference ==
    ASSUME NEW decls, NEW changes
    PROVE  /\ Abstract!Affected(decls, changes) = Affected(decls, changes)
           /\ Abstract!ChangeUnknowns(decls, changes) = ChangeUnknowns(decls, changes)
<1>1. Abstract!Known(decls) = Known(decls)
    BY DEF Abstract!Known, Known
<1>2. Abstract!Seeds(decls, changes) = Seeds(decls, changes)
    BY <1>1 DEF Abstract!Seeds, Seeds
<1>3. \A dep : Abstract!PropagatesSemantically(decls, dep)
               <=> PropagatesSemantically(decls, dep)
    BY DEF Abstract!PropagatesSemantically, PropagatesSemantically,
           Abstract!LastDecl, LastDecl
<1>4. \A m : Abstract!SemanticDependents(decls, m) = SemanticDependents(decls, m)
    BY <1>3 DEF Abstract!SemanticDependents, SemanticDependents
<1>5. \A S : Abstract!ClosedUnder(decls, S) <=> ClosedUnder(decls, S)
    BY <1>1, <1>4 DEF Abstract!ClosedUnder, ClosedUnder
<1>6. Abstract!Affected(decls, changes) = Affected(decls, changes)
    BY <1>1, <1>2, <1>5 DEF Abstract!Affected, Affected
<1>7. \A c : Abstract!ChangeUnknown(decls, c) = ChangeUnknown(decls, c)
    BY <1>1 DEF Abstract!ChangeUnknown, ChangeUnknown,
                Abstract!SupportedKinds, SupportedKinds
<1>8. Abstract!ChangeUnknowns(decls, changes) = ChangeUnknowns(decls, changes)
    BY <1>7 DEF Abstract!ChangeUnknowns, ChangeUnknowns
<1> QED
    BY <1>6, <1>8

\* computeAffected returns the least closed set and exactly the evidence of
\* the given changes, on every graph and for every order of its queue.
THEOREM Implementation == Spec => ImplementsAffectedSpec
<1>1. Init => Abstract!Init
    BY DEF Init, Abstract!Init
<1>2. IInv /\ [Next]_vars => [Abstract!Resolve]_Abstract!vars
    <2> SUFFICES ASSUME IInv, [Next]_vars
                 PROVE  [Abstract!Resolve]_Abstract!vars
        OBVIOUS
    <2>1. CASE ReadChange
        BY <2>1 DEF ReadChange, Abstract!vars
    <2>2. CASE StartWalk
        BY <2>2 DEF StartWalk, Abstract!vars
    <2>3. CASE Visit
        BY <2>3 DEF Visit, Abstract!vars
    <2>4. CASE Return
        <3>1. /\ affected' = Affected(input.decls, input.changes)
              /\ unknowns' = ChangeUnknowns(input.decls, input.changes)
            BY <2>4, ReturnResolves DEF Decls, Changes
        <3>2. phase = "walk" /\ phase' = "done" /\ input' = input
            BY <2>4 DEF Return
        <3> QED
            BY <3>1, <3>2, SameReference DEF Abstract!Resolve
    <2>5. CASE UNCHANGED vars
        BY <2>5 DEF vars, Abstract!vars
    <2> QED
        BY <2>1, <2>2, <2>3, <2>4, <2>5 DEF Next, Terminated
<1> QED
    BY <1>1, <1>2, IInvInvariant, PTL DEF Spec, ImplementsAffectedSpec, Abstract!Spec
=============================================================================
