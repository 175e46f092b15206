-------------------------- MODULE TestStreamProofs --------------------------
(***************************************************************************)
(* Theorems about TestStream.tla, for any packages and tests and any       *)
(* number of stray lines.                                                  *)
(*                                                                         *)
(* Writer and reader never run at the same time, but the outcomes of the   *)
(* tests reach the counts only by way of the file.  So the invariant says  *)
(* two things: what the lines of the file tell of the tests, and what the  *)
(* counts tell of the lines that have been read.                           *)
(***************************************************************************)
EXTENDS TestStream, FiniteSetTheorems, TLAPS

Statuses == {"idle", "running", "pass", "fail", "skip"}
Ends     == {"pass", "fail", "skip"}

Started    == Event("run", TRUE, FALSE)
EndOf(how) == Event(how, TRUE, FALSE)

KnownLines ==
    {Started, Garbage, Endless, Event("output", TRUE, FALSE), Event("output", FALSE, TRUE)}
    \cup {EndOf(how) : how \in Ends} \cup {Event(how, FALSE, FALSE) : how \in Ends}

With(status) == {pt \in All : state[pt[1]][pt[2]] = status}
At(f, line)  == {i \in DOMAIN f : f[i] = line}
Seen(line)   == {i \in DOMAIN file : i < next /\ file[i] = line}

\* Every test has its state.
Shape == state = [p \in Packages |-> [t \in Tests[p] |-> state[p][t]]]

LinesTell ==
    /\ file \in Seq(KnownLines)
    /\ Lines(Started) + In("idle") = Cardinality(All)
    /\ \A how \in {"fail", "skip"} : Lines(EndOf(how)) = In(how)

Counts == [total : Nat, executed : Nat, reused : Nat, failed : Nat, unknown : Nat]

CountsTell ==
    /\ metrics \in Counts
    /\ next = 0 => metrics = Zero
    /\ outcome # "error" =>
          /\ metrics.total = Cardinality(Seen(Started))
          /\ metrics.executed = metrics.total
          /\ metrics.failed = Cardinality(Seen(EndOf("fail")))
          /\ metrics.unknown = Cardinality(Seen(EndOf("skip"))) + Cardinality(Seen(Garbage))
    /\ outcome = "counted" => next = Len(file) + 1

Inv == TypeOK /\ Shape /\ LinesTell /\ CountsTell

-----------------------------------------------------------------------------
(* Counting. *)

\* A line that is appended counts once, with its kind and no other.
LEMMA AppendCounts ==
    ASSUME NEW f \in Seq(KnownLines), NEW line, NEW x
    PROVE  /\ Cardinality(At(f, x)) \in Nat
           /\ Cardinality(At(Append(f, line), x))
                  = Cardinality(At(f, x)) + (IF line = x THEN 1 ELSE 0)
<1>1. IsFiniteSet(At(f, x)) /\ Cardinality(At(f, x)) \in Nat
  <2>1. IsFiniteSet(1..Len(f))
    BY FS_Interval
  <2>2. At(f, x) \in SUBSET (1..Len(f))
    BY DEF At
  <2> QED BY <2>1, <2>2, FS_Subset, FS_CardinalityType
<1>2. At(Append(f, line), x) = IF line = x THEN At(f, x) \cup {Len(f) + 1} ELSE At(f, x)
  BY DEF At
<1>3. Len(f) + 1 \notin At(f, x)
  BY DEF At
<1>4. CASE line = x
  <2>1. Cardinality(At(f, x) \cup {Len(f) + 1}) = Cardinality(At(f, x)) + 1
    BY <1>1, <1>3, FS_AddElement
  <2> QED BY <1>1, <1>2, <1>4, <2>1
<1>5. CASE line # x
  BY <1>1, <1>2, <1>5
<1> QED BY <1>4, <1>5

\* The same of a line that is read.
LEMMA ReadCounts ==
    ASSUME Shape, LinesTell, next \in DOMAIN file, next' = next + 1, file' = file, NEW x
    PROVE  /\ Cardinality(Seen(x)) \in Nat
           /\ Cardinality(Seen(x)') = Cardinality(Seen(x)) + (IF file[next] = x THEN 1 ELSE 0)
<1> file \in Seq(KnownLines) /\ next \in Nat
  BY DEF LinesTell
<1>1. IsFiniteSet(Seen(x)) /\ Cardinality(Seen(x)) \in Nat
  <2>1. IsFiniteSet(1..Len(file))
    BY FS_Interval
  <2>2. Seen(x) \in SUBSET (1..Len(file))
    BY DEF Seen
  <2> QED BY <2>1, <2>2, FS_Subset, FS_CardinalityType
<1>2. Seen(x)' = IF file[next] = x THEN Seen(x) \cup {next} ELSE Seen(x)
  BY DEF Seen
<1>3. next \notin Seen(x)
  BY DEF Seen
<1>4. CASE file[next] = x
  <2>1. Cardinality(Seen(x) \cup {next}) = Cardinality(Seen(x)) + 1
    BY <1>1, <1>3, FS_AddElement
  <2> QED BY <1>1, <1>2, <1>4, <2>1
<1>5. CASE file[next] # x
  BY <1>1, <1>2, <1>5
<1> QED BY <1>4, <1>5

LEMMA InIsNat ==
    ASSUME NEW status
    PROVE  IsFiniteSet(With(status)) /\ In(status) = Cardinality(With(status)) /\ In(status) \in Nat
<1>1. With(status) \in SUBSET All /\ In(status) = Cardinality(With(status))
  BY DEF With, In
<1> QED BY <1>1, TestsAssumption, FS_Subset, FS_CardinalityType

\* A test that changes its state leaves one count and joins another.
LEMMA BecomesCounts ==
    ASSUME Shape, NEW p \in Packages, NEW t \in Tests[p], NEW from, NEW to, from # to,
           Becomes(p, t, from, to), NEW status
    PROVE  In(status)' = In(status) + (IF status = to THEN 1 ELSE 0)
                                    - (IF status = from THEN 1 ELSE 0)
<1> DEFINE here == <<p, t>>
<1>1. /\ here \in All
      /\ \A pt \in All : /\ pt[1] \in Packages /\ pt[2] \in Tests[pt[1]]
                         /\ pt = <<pt[1], pt[2]>>
  BY DEF All
<1>2. \A pt \in All : state'[pt[1]][pt[2]] = IF pt = here THEN to ELSE state[pt[1]][pt[2]]
  BY <1>1 DEF Becomes, Shape
<1>3. state[here[1]][here[2]] = from
  BY DEF Becomes
<1>4. In(status)' = Cardinality(With(status)')
  BY DEF In, With
<1>5. CASE status = to
  <2>1. With(status)' = With(status) \cup {here} /\ here \notin With(status)
    BY <1>1, <1>2, <1>3, <1>5 DEF With
  <2>2. Cardinality(With(status) \cup {here}) = Cardinality(With(status)) + 1
    BY <2>1, InIsNat, FS_AddElement
  <2> QED BY <2>1, <2>2, <1>4, <1>5, InIsNat
<1>6. CASE status = from
  <2>1. With(status)' = With(status) \ {here} /\ here \in With(status)
    BY <1>1, <1>2, <1>3, <1>6 DEF With
  <2>2. Cardinality(With(status) \ {here}) = Cardinality(With(status)) - 1
    BY <2>1, InIsNat, FS_RemoveElement
  <2> QED BY <2>1, <2>2, <1>4, <1>6, InIsNat
<1>7. CASE status \notin {from, to}
  <2>1. With(status)' = With(status)
    BY <1>1, <1>2, <1>3, <1>7 DEF With
  <2> QED BY <2>1, <1>4, <1>7, InIsNat
<1> QED BY <1>5, <1>6, <1>7

\* A file is known by its kinds of lines: none is taken for another.
LEMMA LinesDiffer ==
    /\ Started # Garbage /\ \A how \in Ends : EndOf(how) # Started /\ EndOf(how) # Garbage
    /\ EndOf("fail") # EndOf("skip") /\ EndOf("pass") \notin {EndOf("fail"), EndOf("skip")}
    /\ \A how \in Ends : Event(how, FALSE, FALSE) \notin
          {Started, Garbage, EndOf("fail"), EndOf("skip")}
    /\ \A line \in {Event("output", TRUE, FALSE), Event("output", FALSE, TRUE), Endless} :
          line \notin {Started, Garbage, EndOf("fail"), EndOf("skip")}
BY DEF Started, EndOf, Event, Garbage, Endless, Ends

-----------------------------------------------------------------------------
(* The writer. *)

LEMMA InitInv == Init => Inv
<1> SUFFICES ASSUME Init PROVE Inv
  OBVIOUS
<1>1. TypeOK /\ Shape
  BY DEF Init, TypeOK, Shape, Zero
<1>2. /\ With("idle") = All
      /\ \A status \in {"fail", "skip"} : With(status) = {}
  BY DEF Init, With, All
<1>3. \A line : Seen(line) = {} /\ At(file, line) = {} /\ Lines(line) = Cardinality(At(file, line))
  BY DEF Init, At, Seen, Lines
<1>4. LinesTell
  <2>1. \A line : Lines(line) = 0
    BY <1>3, FS_EmptySet
  <2>2. In("idle") = Cardinality(All) /\ Cardinality(All) \in Nat
    BY <1>2, InIsNat
  <2>3. In("fail") = 0 /\ In("skip") = 0
    BY <1>2, InIsNat, FS_EmptySet
  <2>4. file \in Seq(KnownLines)
    BY DEF Init
  <2> QED BY <2>1, <2>2, <2>3, <2>4 DEF LinesTell
<1>5. CountsTell
  <2>1. \A line : Cardinality(Seen(line)) = 0
    BY <1>3, FS_EmptySet
  <2>2. metrics = Zero /\ outcome = "none" /\ Zero \in Counts
    BY DEF Init, Zero, Counts
  <2> QED BY <2>1, <2>2 DEF CountsTell, Zero
<1> QED BY <1>1, <1>4, <1>5 DEF Inv

\* Whatever is written, the reader has not begun.
LEMMA NothingReadYet ==
    ASSUME Inv, writing, UNCHANGED reading, file' \in Seq(KnownLines)
    PROVE  CountsTell'
<1>1. next = 0 /\ outcome # "counted"
  <2>1. next = 0
    BY DEF Inv, TypeOK, LinesTell
  <2>2. Len(file) \in Nat
    BY DEF Inv, LinesTell
  <2> QED BY <2>1, <2>2 DEF Inv, CountsTell
<1>2. \A line : Seen(line) = {} /\ Seen(line)' = {}
  BY <1>1 DEF Seen, Inv, LinesTell, reading
<1> QED BY <1>1, <1>2 DEF Inv, CountsTell, reading

LEMMA EmitCounts ==
    ASSUME Inv, NEW line \in KnownLines, file' = Append(file, line)
    PROVE  /\ file' \in Seq(KnownLines)
           /\ Len(file') = Len(file) + 1
           /\ \A x : /\ Lines(x) \in Nat
                     /\ Lines(x)' = Lines(x) + (IF line = x THEN 1 ELSE 0)
<1>1. file \in Seq(KnownLines)
  BY DEF Inv, LinesTell
<1>2. ASSUME NEW x
      PROVE  Lines(x) \in Nat /\ Lines(x)' = Lines(x) + (IF line = x THEN 1 ELSE 0)
    <2>1. Lines(x) = Cardinality(At(file, x)) /\ Lines(x)' = Cardinality(At(file', x))
    BY DEF Lines, At
  <2> QED BY <1>1, <2>1, AppendCounts
<1> QED BY <1>1, <1>2

LEMMA StartTestKeeps == ASSUME Inv, StartTest PROVE Inv'
<1> PICK p \in Packages : \E t \in Tests[p] :
        Becomes(p, t, "idle", "running") /\ Emit(Started)
  BY DEF StartTest, Started
<1> PICK t \in Tests[p] : Becomes(p, t, "idle", "running") /\ Emit(Started)
  OBVIOUS
<1>1. /\ writing /\ UNCHANGED <<reading, writing, ended>> /\ file' = Append(file, Started)
      /\ state' = [state EXCEPT ![p][t] = "running"]
  BY DEF Becomes, Emit
<1>2. Shape' /\ TypeOK'
  <2>1. Shape'
    BY <1>1 DEF Inv, Shape
  <2>2. \A q \in Packages : state'[q] \in [Tests[q] -> Statuses]
    BY <1>1 DEF Inv, Shape, TypeOK, Statuses
  <2>3. next' \in 0..Len(file') + 1
    BY <1>1, EmitCounts DEF Inv, TypeOK, LinesTell, KnownLines, reading
  <2> QED BY <1>1, <2>1, <2>2, <2>3 DEF Inv, TypeOK, Statuses, reading
<1>3. LinesTell'
  <2>1. Started \in KnownLines
    BY DEF KnownLines
  <2>2. \A status : In(status)' = In(status) + (IF status = "running" THEN 1 ELSE 0)
                                             - (IF status = "idle" THEN 1 ELSE 0)
    BY BecomesCounts DEF Inv
  <2>3. /\ file' \in Seq(KnownLines)
        /\ Lines(Started) \in Nat /\ Lines(Started)' = Lines(Started) + 1
        /\ \A how \in {"fail", "skip"} : Lines(EndOf(how))' = Lines(EndOf(how))
    <3>1. Started # EndOf("fail") /\ Started # EndOf("skip")
      BY LinesDiffer DEF Ends
    <3> QED BY <1>1, <2>1, <3>1, EmitCounts
  <2>4. /\ In("idle") \in Nat /\ In("idle")' = In("idle") - 1
        /\ \A how \in {"fail", "skip"} : In(how)' = In(how)
    BY <2>2, InIsNat
  <2> QED BY <2>3, <2>4 DEF Inv, LinesTell
<1>4. CountsTell'
  BY <1>1, <1>3, NothingReadYet DEF LinesTell
<1> QED BY <1>2, <1>3, <1>4 DEF Inv

LEMMA EndTestKeeps == ASSUME Inv, EndTest PROVE Inv'
<1> PICK p \in Packages : \E t \in Tests[p], how \in Ends :
        Becomes(p, t, "running", how) /\ Emit(EndOf(how))
  BY DEF EndTest, EndOf, Ends
<1> PICK t \in Tests[p], how \in Ends : Becomes(p, t, "running", how) /\ Emit(EndOf(how))
  OBVIOUS
<1>1. /\ writing /\ UNCHANGED <<reading, writing, ended>> /\ file' = Append(file, EndOf(how))
      /\ state' = [state EXCEPT ![p][t] = how]
  BY DEF Becomes, Emit
<1>2. Shape' /\ TypeOK'
  <2>1. Shape'
    BY <1>1 DEF Inv, Shape
  <2>2. \A q \in Packages : state'[q] \in [Tests[q] -> Statuses]
    BY <1>1 DEF Inv, Shape, TypeOK, Statuses, Ends
  <2>3. next' \in 0..Len(file') + 1
    BY <1>1, EmitCounts DEF Inv, TypeOK, LinesTell, KnownLines, reading
  <2> QED BY <1>1, <2>1, <2>2, <2>3 DEF Inv, TypeOK, Statuses, reading
<1>3. LinesTell'
  <2>1. EndOf(how) \in KnownLines
    BY DEF KnownLines
  <2>2. \A status : In(status)' = In(status) + (IF status = how THEN 1 ELSE 0)
                                             - (IF status = "running" THEN 1 ELSE 0)
    <3>1. how # "running"
      BY DEF Ends
    <3> QED BY <3>1, BecomesCounts DEF Inv
  <2>3. \A x \in {"fail", "skip"} : (EndOf(how) = EndOf(x)) = (how = x)
    BY LinesDiffer DEF Ends
  <2>4. /\ file' \in Seq(KnownLines) /\ Lines(Started)' = Lines(Started)
        /\ \A x \in {"fail", "skip"} :
              Lines(EndOf(x))' = Lines(EndOf(x)) + (IF how = x THEN 1 ELSE 0)
    <3>1. Started # EndOf(how)
      BY LinesDiffer
    <3> QED BY <1>1, <2>1, <2>3, <3>1, EmitCounts
  <2>5. /\ In("idle")' = In("idle")
        /\ \A x \in {"fail", "skip"} : In(x)' = In(x) + (IF how = x THEN 1 ELSE 0)
    BY <2>2, InIsNat DEF Ends
  <2> QED BY <2>4, <2>5 DEF Inv, LinesTell
<1>4. CountsTell'
  BY <1>1, <1>3, NothingReadYet DEF LinesTell
<1> QED BY <1>2, <1>3, <1>4 DEF Inv

\* A line that tells of no test.
LEMMA StrayLineKeeps ==
    ASSUME Inv, NEW line \in KnownLines, line \notin {Started, EndOf("fail"), EndOf("skip")},
           writing, file' = Append(file, line), UNCHANGED <<reading, state>>,
           ended' \subseteq Packages, writing' \in BOOLEAN
    PROVE  Inv'
<1>1. Shape'
  BY DEF Inv, Shape
<1>2. TypeOK'
  <2>1. next = 0
    BY DEF Inv, TypeOK, LinesTell
  <2>2. Len(file') \in Nat
    BY EmitCounts
  <2> QED BY <2>1, <2>2 DEF Inv, TypeOK, reading
<1>3. LinesTell'
  <2>1. \A status : In(status)' = In(status)
    BY DEF In
  <2>2. file' \in Seq(KnownLines)
    BY EmitCounts
  <2>3. Lines(Started)' = Lines(Started)
    BY EmitCounts
  <2>4. \A how \in {"fail", "skip"} : Lines(EndOf(how))' = Lines(EndOf(how))
    BY EmitCounts
  <2> QED BY <2>1, <2>2, <2>3, <2>4 DEF Inv, LinesTell
<1>4. CountsTell'
  BY <1>3, NothingReadYet DEF LinesTell
<1> QED BY <1>1, <1>2, <1>3, <1>4 DEF Inv

LEMMA WriterKeeps ==
    ASSUME Inv, EndPackage \/ Noise \/ EndWriting
    PROVE  Inv'
<1>1. CASE EndPackage
  <2> PICK p \in Packages \ ended, how \in Ends :
          ended' = ended \cup {p} /\ Emit(Event(how, FALSE, FALSE)) /\ state' = state
    BY <1>1 DEF EndPackage, Ends
  <2>1. Event(how, FALSE, FALSE) \in KnownLines
    BY DEF KnownLines
  <2>2. Event(how, FALSE, FALSE) \notin {Started, EndOf("fail"), EndOf("skip")}
    BY LinesDiffer
  <2>3. ended' \subseteq Packages
    BY DEF Inv, TypeOK
  <2> QED BY <2>1, <2>2, <2>3, StrayLineKeeps DEF Emit
<1>2. CASE Noise
  <2> PICK line \in {Event("output", TRUE, FALSE), Event("output", FALSE, TRUE),
                     Garbage, Endless} : Emit(line) /\ UNCHANGED <<state, ended>>
    BY <1>2 DEF Noise
  <2>1. line \in KnownLines
    BY DEF KnownLines
  <2>2. line \notin {Started, EndOf("fail"), EndOf("skip")}
    BY LinesDiffer DEF Ends
  <2>3. ended' \subseteq Packages
    BY DEF Inv, TypeOK
  <2> QED BY <2>1, <2>2, <2>3, StrayLineKeeps DEF Emit
<1>3. CASE EndWriting
  <2>1. CASE file' = file
    BY <1>3, <2>1 DEF EndWriting, Inv, TypeOK, Shape, LinesTell, CountsTell, Lines, In, Seen,
                      reading
  <2>2. CASE file' = Append(file, Garbage)
    <3>1. Garbage \in KnownLines /\ Garbage \notin {Started, EndOf("fail"), EndOf("skip")}
      BY LinesDiffer DEF KnownLines, Ends
    <3>2. ended' \subseteq Packages
      BY <1>3 DEF EndWriting, Inv, TypeOK
    <3> QED BY <1>3, <2>2, <3>1, <3>2, StrayLineKeeps DEF EndWriting
  <2> QED BY <1>3, <2>1, <2>2 DEF EndWriting
<1> QED BY <1>1, <1>2, <1>3

-----------------------------------------------------------------------------
(* The reader. *)

LEMMA StartedCounts ==
    ASSUME NEW m \in Counts
    PROVE  [m EXCEPT !.total = @ + 1, !.executed = @ + 1] \in Counts
<1> DEFINE half == [m EXCEPT !.total = @ + 1]
<1>1. half \in Counts
  BY DEF Counts
<1>2. \A c \in Counts : [c EXCEPT !.executed = @ + 1] \in Counts
  BY DEF Counts
<1>3. [m EXCEPT !.total = @ + 1, !.executed = @ + 1] = [half EXCEPT !.executed = @ + 1]
  BY DEF Counts
<1> QED BY <1>1, <1>2, <1>3

LEMMA ReadLineKeeps == ASSUME Inv, ReadLine PROVE Inv'
<1> DEFINE line == file[next]
<1>1. /\ next \in DOMAIN file /\ next' = next + 1 /\ outcome = "none" /\ line # Endless
      /\ metrics' = Counted(metrics, line) /\ UNCHANGED <<written, outcome>>
  BY DEF ReadLine
<1>2. line \in KnownLines /\ file \in Seq(KnownLines)
  BY <1>1 DEF Inv, LinesTell
<1>3. \A x : /\ Cardinality(Seen(x)) \in Nat
             /\ Cardinality(Seen(x)') = Cardinality(Seen(x)) + (IF line = x THEN 1 ELSE 0)
  BY <1>1, ReadCounts DEF Inv, written
<1>4. Shape' /\ LinesTell'
  BY <1>1 DEF Inv, Shape, LinesTell, Lines, In, written
<1>5. metrics' \in Counts
  <2>1. metrics \in Counts
    BY DEF Inv, CountsTell
  <2>2. \/ metrics' = [metrics EXCEPT !.total = @ + 1, !.executed = @ + 1]
        \/ metrics' = [metrics EXCEPT !.failed = @ + 1]
        \/ metrics' = [metrics EXCEPT !.reused = @ + 1]
        \/ metrics' = [metrics EXCEPT !.unknown = @ + 1]
        \/ metrics' = metrics
    BY <1>1 DEF Counted
  <2>3. CASE metrics' = [metrics EXCEPT !.total = @ + 1, !.executed = @ + 1]
    BY <2>1, <2>3, StartedCounts
  <2>4. CASE metrics' = [metrics EXCEPT !.failed = @ + 1]
    BY <2>1, <2>4 DEF Counts
  <2>5. CASE metrics' = [metrics EXCEPT !.reused = @ + 1]
    BY <2>1, <2>5 DEF Counts
  <2>6. CASE metrics' = [metrics EXCEPT !.unknown = @ + 1]
    BY <2>1, <2>6 DEF Counts
  <2> QED BY <2>1, <2>2, <2>3, <2>4, <2>5, <2>6
<1>6. TypeOK'
  BY <1>1, <1>2, <1>5 DEF Inv, TypeOK, Zero, Counts, written
<1>7. /\ metrics'.total = metrics.total + (IF line = Started THEN 1 ELSE 0)
      /\ metrics'.executed = metrics.executed + (IF line = Started THEN 1 ELSE 0)
      /\ metrics'.failed = metrics.failed + (IF line = EndOf("fail") THEN 1 ELSE 0)
      /\ metrics'.unknown = metrics.unknown + (IF line = EndOf("skip") THEN 1 ELSE 0)
                                            + (IF line = Garbage THEN 1 ELSE 0)
  BY <1>1, <1>2
     DEF Inv, CountsTell, Counts, Counted, KnownLines, Ends, Started, EndOf, Event, Garbage
<1>8. CountsTell'
  BY <1>1, <1>3, <1>5, <1>7 DEF Inv, CountsTell, TypeOK
<1> QED BY <1>4, <1>6, <1>8 DEF Inv

LEMMA ReaderKeeps ==
    ASSUME Inv, Open \/ FailOpen \/ FailRead \/ EndOfFile
    PROVE  Inv'
<1> USE DEF Inv, written
<1>1. Shape' /\ LinesTell'
  BY DEF Open, FailOpen, FailRead, EndOfFile, Shape, LinesTell, Lines, In
<1>2. Len(file) \in Nat /\ \A i \in DOMAIN file : i \in Nat /\ i >= 1
  BY DEF LinesTell
<1>3. CASE Open
  <2>1. \A x : Seen(x)' = Seen(x)
    BY <1>2, <1>3 DEF Open, Seen
  <2> QED BY <1>1, <1>2, <1>3, <2>1 DEF Open, TypeOK, CountsTell
<1>4. CASE FailOpen
  BY <1>1, <1>4 DEF FailOpen, TypeOK, CountsTell
<1>5. CASE FailRead
  BY <1>1, <1>5 DEF FailRead, TypeOK, CountsTell, Counts, Zero
<1>6. CASE EndOfFile
  <2>1. \A x : Seen(x)' = Seen(x)
    BY <1>6 DEF EndOfFile, Seen
  <2> QED BY <1>1, <1>6, <2>1 DEF EndOfFile, TypeOK, CountsTell
<1> QED BY <1>3, <1>4, <1>5, <1>6

LEMMA NextInv == Inv /\ [Next]_vars => Inv'
<1> SUFFICES ASSUME Inv, [Next]_vars PROVE Inv'
  OBVIOUS
<1>1. CASE UNCHANGED vars
  BY <1>1 DEF Inv, TypeOK, Shape, LinesTell, CountsTell, Lines, In, Seen, vars, written, reading
<1>2. CASE Next
  <2>1. CASE Ended
    BY <1>1, <2>1 DEF Ended
  <2> QED BY <1>2, <2>1, StartTestKeeps, EndTestKeeps, WriterKeeps, ReadLineKeeps, ReaderKeeps
          DEF Next
<1> QED BY <1>1, <1>2

LEMMA Invariant == Spec => []Inv
BY InitInv, NextInv, PTL DEF Spec

-----------------------------------------------------------------------------
(* The theorems. *)

\* The writer, the reader and the counts keep their types, and whatever ends
\* in an error returns no counts at all.
THEOREM TypeCorrect == Spec => []TypeOK
<1>1. Inv => TypeOK
  BY DEF Inv
<1> QED BY <1>1, Invariant, PTL

\* However the events interleave and wherever the writer was killed, the
\* counts that are returned are those of the tests.
THEOREM Counting == Spec => []CountsAreOutcomes
<1>1. Inv => CountsAreOutcomes
  <2> SUFFICES ASSUME Inv, outcome = "counted" PROVE CountsAreOutcomes
    BY DEF CountsAreOutcomes
  <2>1. \A line : Cardinality(Seen(line)) = Lines(line)
    <3>1. next = Len(file) + 1 /\ file \in Seq(KnownLines)
      BY DEF Inv, CountsTell, LinesTell
    <3>2. \A line : Seen(line) = {i \in DOMAIN file : file[i] = line}
      BY <3>1 DEF Seen
    <3> QED BY <3>2 DEF Lines
  <2>2. metrics.total \in Nat /\ Cardinality(All) \in Nat
    BY TestsAssumption, FS_CardinalityType DEF Inv, CountsTell, Counts
  <2>3. /\ metrics.total = Lines(Started) /\ metrics.executed = metrics.total
        /\ metrics.failed = Lines(EndOf("fail"))
        /\ metrics.unknown = Lines(EndOf("skip")) + Lines(Garbage)
    BY <2>1 DEF Inv, CountsTell
  <2> QED BY <2>2, <2>3, InIsNat DEF Inv, LinesTell, CountsAreOutcomes
<1> QED BY <1>1, Invariant, PTL
=============================================================================
