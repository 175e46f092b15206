------------------------- MODULE ConformanceProofs -------------------------
(***************************************************************************)
(* Theorems about the conformance command: for any manifests, any outcome  *)
(* of their fixtures, any number of runs, edits, crashes and failures.     *)
(*                                                                         *)
(* The properties speak of the end of a run, so the inductive invariant    *)
(* says what is true of the loop half way: which entries are dealt with,   *)
(* which case each of them has, and which files are settled by now.        *)
(***************************************************************************)
EXTENDS Conformance, FiniteSetTheorems, TLAPS

\* While the files of an entry are written, it has its case already.
Writing == {"report", "report open", "program", "program open"}
Done    == IF at \in Writing THEN next ELSE next - 1

\* The cases of a run that goes on, or that has ended by itself.
Known == Running \/ exit \in {"ok", "refuted"}

CaseRecords == [name : Names, decision : Verdicts]
FilesOf(name) == {Report(name), Program(name)}

\* Each entry that is dealt with has its case, and the decision of the corpus
\* remembers every case.
CaseList ==
    /\ cases \in Seq(CaseRecords)
    /\ Len(cases) = Place(manifest, Done)
    /\ \A i \in 1..Done : manifest[i].selected =>
          /\ cases[Place(manifest, i)].name = manifest[i].name
          /\ decision = "CLOSED" => cases[Place(manifest, i)].decision = manifest[i].expected

Progress ==
    /\ at \in Writing => next <= Len(manifest) /\ manifest[next].selected
    /\ at \notin Writing \cup {"loop"} => next = Len(manifest) + 1

\* The names whose files are being written.
Busy == IF at \in Writing THEN {Last.name} ELSE {}

LastOfName(i) == \A j \in DOMAIN cases : j > i => cases[j].name # cases[i].name

\* The files of every other case are whole and of this run; the last case of
\* a name is the one they hold.
Settled ==
    \A i \in DOMAIN cases : cases[i].name \notin Busy =>
        \A path \in FilesOf(cases[i].name) :
            /\ files[path].run = runs /\ files[path].kind = "whole"
            /\ LastOfName(i) => files[path] = Whole(<<cases[i]>>)

ReportFirst ==
    at \in {"program", "program open"} => files[Report(Last.name)] = Whole(<<Last>>)

\* The corpus report is that of an earlier run until it is opened.
CorpusLast ==
    /\ Running /\ at \notin {"corpus open", "exit"} => files[Corpus].run < runs
    /\ at = "corpus open" => files[Corpus] = Partial
    /\ Known /\ at \in {"exit", "exited"} => files[Corpus] = Whole(cases)

CorpusNames ==
    files[Corpus].kind = "whole" =>
        \A i \in DOMAIN files[Corpus].holds : files[Corpus].holds[i].name \in Names

\* An exit code tells the decision.
ExitTells == ~Running /\ exit = "ok" => decision = "CLOSED"

Loop == CaseList /\ Progress /\ Settled /\ ReportFirst

Inv == /\ TypeOK
       /\ Known => Loop
       /\ CorpusLast /\ CorpusNames /\ CorpusNeverAhead
       /\ ExitTells

-----------------------------------------------------------------------------
(* Places. *)

LEMMA PlaceType ==
    ASSUME NEW m, NEW i \in Nat
    PROVE  /\ IsFiniteSet({j \in 1..i : m[j].selected})
           /\ Place(m, i) \in Nat
<1>1. IsFiniteSet(1..i)
  BY FS_Interval
<1>2. {j \in 1..i : m[j].selected} \in SUBSET (1..i)
  OBVIOUS
<1>3. IsFiniteSet({j \in 1..i : m[j].selected})
  BY <1>1, <1>2, FS_Subset
<1> QED BY <1>3, FS_CardinalityType DEF Place

LEMMA PlaceZero ==
    ASSUME NEW m
    PROVE  Place(m, 0) = 0
<1>1. {j \in 1..0 : m[j].selected} = {}
  OBVIOUS
<1> QED BY <1>1, FS_EmptySet DEF Place

LEMMA PlaceNext ==
    ASSUME NEW m, NEW i \in Nat
    PROVE  Place(m, i + 1) = IF m[i + 1].selected THEN Place(m, i) + 1 ELSE Place(m, i)
<1> DEFINE before == {j \in 1..i : m[j].selected}
           upTo   == {j \in 1..(i + 1) : m[j].selected}
<1>1. CASE m[i + 1].selected
  <2>1. upTo = before \cup {i + 1} /\ i + 1 \notin before
    BY <1>1
  <2>2. IsFiniteSet(before)
    BY PlaceType
  <2>3. Cardinality(upTo) = Cardinality(before) + 1
    BY <2>1, <2>2, FS_AddElement
  <2> QED BY <1>1, <2>3 DEF Place
<1>2. CASE ~m[i + 1].selected
  <2>1. upTo = before
    BY <1>2
  <2> QED BY <1>2, <2>1 DEF Place
<1> QED BY <1>1, <1>2

LEMMA PlaceGrows ==
    ASSUME NEW m, NEW i \in Nat, NEW k \in Nat, i <= k
    PROVE  Place(m, i) <= Place(m, k)
<1>1. {j \in 1..i : m[j].selected} \in SUBSET {j \in 1..k : m[j].selected}
  OBVIOUS
<1>2. IsFiniteSet({j \in 1..k : m[j].selected})
  BY PlaceType
<1> QED BY <1>1, <1>2, FS_Subset DEF Place

LEMMA PlacePositive ==
    ASSUME NEW m, NEW i \in Nat, i > 0, m[i].selected
    PROVE  Place(m, i) >= 1
<1>1. i - 1 \in Nat /\ (i - 1) + 1 = i
  OBVIOUS
<1>2. Place(m, i) = Place(m, i - 1) + 1
  BY <1>1, PlaceNext
<1>3. Place(m, i - 1) \in Nat
  BY <1>1, PlaceType
<1> QED BY <1>2, <1>3

-----------------------------------------------------------------------------
(* Files. *)

LEMMA PathsOf ==
    ASSUME NEW name \in Names
    PROVE  /\ FilesOf(name) \subseteq Paths
           /\ Corpus \notin FilesOf(name)
           /\ Report(name) # Program(name)
           /\ \A other : other # name => FilesOf(name) \cap FilesOf(other) = {}
<1>1. name # "conformance"
  BY ManifestAssumption DEF Names
<1>2. <<name, "json">> # <<"conformance", "json">> /\ <<name, "go">> # <<"conformance", "json">>
  BY <1>1
<1>3. FilesOf(name) \subseteq Paths
  BY DEF FilesOf, Paths
<1>4. ASSUME NEW other, other # name PROVE FilesOf(name) \cap FilesOf(other) = {}
  <2>1. /\ <<name, "json">> # <<other, "json">> /\ <<name, "go">> # <<other, "go">>
        /\ <<name, "json">> # <<other, "go">> /\ <<name, "go">> # <<other, "json">>
    BY <1>4
  <2> QED BY <2>1 DEF FilesOf, Report, Program
<1> QED BY <1>2, <1>3, <1>4 DEF FilesOf, Report, Program, Corpus

LEMMA CorpusIsPath == Corpus \in Paths
BY DEF Paths

LEMMA CasesAreNamed ==
    ASSUME cases \in Seq(CaseRecords)
    PROVE  \A i \in DOMAIN cases : cases[i].name \in Names
<1> SUFFICES ASSUME NEW i \in DOMAIN cases PROVE cases[i].name \in Names
  OBVIOUS
<1>1. cases[i] \in CaseRecords
  OBVIOUS
<1> QED BY <1>1 DEF CaseRecords

LEMMA OwnRange ==
    ASSUME NEW n \in Nat
    PROVE  n \in 0..n
OBVIOUS

LEMMA Numbers ==
    ASSUME TypeOK
    PROVE  /\ runs \in Nat /\ Len(manifest) \in Nat /\ next \in Nat /\ next > 0
           /\ manifest \in Seq(Entries) /\ next <= Len(manifest) + 1
           /\ DOMAIN manifest = 1..Len(manifest)
           /\ \A path \in Paths : files[path].run \in Nat /\ files[path].run <= runs
<1>1. manifest \in Seq(Entries)
  BY ManifestAssumption DEF TypeOK
<1>2. Len(manifest) \in Nat /\ DOMAIN manifest = 1..Len(manifest)
  BY <1>1
<1>3. runs \in Nat
  <2>1. runs \in 0..MaxRuns
    BY DEF TypeOK
  <2> QED BY <2>1, BoundAssumption
<1>4. next \in Nat /\ next > 0 /\ next <= Len(manifest) + 1
  <2>1. next \in 1..(Len(manifest) + 1)
    BY DEF TypeOK
  <2> QED BY <1>2, <2>1
<1>5. ASSUME NEW path \in Paths PROVE files[path].run \in Nat /\ files[path].run <= runs
  <2>1. files[path].run \in 0..runs
    BY DEF TypeOK
  <2> QED BY <1>3, <2>1
<1> QED BY <1>1, <1>2, <1>3, <1>4, <1>5

\* The name of the case whose files are being written.
LEMMA LastIsNamed ==
    ASSUME TypeOK, Loop, at \in Writing
    PROVE  /\ Len(cases) \in Nat /\ Len(cases) >= 1
           /\ DOMAIN cases = 1..Len(cases)
           /\ Last = cases[Len(cases)] /\ Last.name \in Names
<1>1. next \in Nat /\ next > 0
  BY Numbers
<1>2. Done = next /\ manifest[next].selected
  BY DEF Done, Loop, Progress
<1>3. Len(cases) = Place(manifest, next) /\ cases \in Seq(CaseRecords)
  BY <1>2 DEF Loop, CaseList
<1>4. Place(manifest, next) >= 1 /\ Place(manifest, next) \in Nat
  BY <1>1, <1>2, PlacePositive, PlaceType
<1>5. DOMAIN cases = 1..Len(cases) /\ Len(cases) \in DOMAIN cases
  BY <1>3, <1>4
<1>6. cases[Len(cases)] \in CaseRecords
  BY <1>3, <1>5
<1> QED BY <1>3, <1>4, <1>5, <1>6 DEF Last, CaseRecords

-----------------------------------------------------------------------------
LEMMA InitInv == Init => Inv
<1> SUFFICES ASSUME Init PROVE Inv
  OBVIOUS
<1> USE DEF Init
<1>1. TypeOK
  <2>1. Len(manifest) \in Nat
    BY ManifestAssumption
  <2>2. \A path \in Paths : files[path].run = 0
    BY DEF Absent
  <2> QED BY <2>1, <2>2, BoundAssumption DEF TypeOK
<1>2. ~Known /\ ~Running
  BY DEF Known, Running
<1>3. files[Corpus].kind # "whole"
  BY CorpusIsPath DEF Absent
<1> QED BY <1>1, <1>2, <1>3
    DEF Inv, CorpusLast, CorpusNames, CorpusNeverAhead, ExitTells, Running

\* What the corpus report of an earlier run says stays true while the files
\* of a case are written.
LEMMA CaseWriteKeepsCorpus ==
    ASSUME Inv, at \in Writing, at' \in Writing \cup {"loop"},
           NEW path \in FilesOf(Last.name), NEW content,
           content.run = runs, runs' = runs,
           files' = [files EXCEPT ![path] = content]
    PROVE  CorpusLast' /\ CorpusNames' /\ CorpusNeverAhead'
<1>1. Last.name \in Names
  BY LastIsNamed DEF Inv, Known, Running, Writing
<1>2. path \in Paths /\ path # Corpus
  BY <1>1, PathsOf
<1>3. DOMAIN files = Paths /\ Corpus \in Paths
  BY CorpusIsPath DEF Inv, TypeOK
<1>4. files'[Corpus] = files[Corpus] /\ files'[path] = content
  BY <1>2, <1>3
<1>5. files[Corpus].run < runs
  BY DEF Inv, CorpusLast, Running, Writing
<1>6. CorpusLast'
  BY <1>4, <1>5 DEF CorpusLast, Writing
<1>7. CorpusNames'
  BY <1>4 DEF Inv, CorpusNames
<1>8. CorpusNeverAhead'
  <2> SUFFICES ASSUME files[Corpus].kind = "whole", NEW i \in DOMAIN files[Corpus].holds,
                      NEW name, name = files[Corpus].holds[i].name,
                      NEW other \in FilesOf(name)
               PROVE  /\ files'[other].run >= files[Corpus].run
                      /\ files'[other].run = files[Corpus].run => files'[other].kind = "whole"
    BY <1>4 DEF CorpusNeverAhead, FilesOf
  <2>1. name \in Names
    BY DEF Inv, CorpusNames
  <2>2. other \in Paths
    BY <2>1, PathsOf
  <2>3. CASE other = path
    <3>1. runs \in Nat /\ files[Corpus].run \in Nat
      BY <1>3, Numbers DEF Inv
    <3> QED BY <1>4, <1>5, <2>3, <3>1
  <2>4. CASE other # path
    <3>1. files'[other] = files[other]
      BY <1>3, <2>2, <2>4
    <3> QED BY <3>1 DEF Inv, CorpusNeverAhead, FilesOf
  <2> QED BY <2>3, <2>4
<1> QED BY <1>6, <1>7, <1>8

\* A step that leaves the directory and the number of the run alone.
LEMMA QuietKeepsCorpus ==
    ASSUME Inv, UNCHANGED <<files, runs>>, CorpusLast'
    PROVE  CorpusNames' /\ CorpusNeverAhead'
BY DEF Inv, CorpusNames, CorpusNeverAhead

\* A step within one entry: the list of cases stays, and the entry.
LEMMA SameEntryKeeps ==
    ASSUME Inv, at \in Writing, at' \in Writing,
           UNCHANGED <<manifest, next, cases, decision>>
    PROVE  CaseList' /\ Progress' /\ Last' = Last /\ Busy' = Busy
<1>1. Known /\ Done' = next /\ Done = next
  BY DEF Done, Known, Running, Writing
<1>2. CaseList'
  BY <1>1 DEF Inv, Loop, CaseList
<1>3. Progress'
  BY <1>1 DEF Inv, Loop, Progress, Writing
<1> QED BY <1>2, <1>3 DEF Last, Busy

\* Writing a file of the case at hand leaves the files of the others settled.
LEMMA CaseWriteKeepsSettled ==
    ASSUME Inv, at \in Writing, at' \in Writing,
           UNCHANGED <<manifest, next, cases, decision, runs>>,
           NEW path \in FilesOf(Last.name), NEW content,
           files' = [files EXCEPT ![path] = content]
    PROVE  Settled'
<1>1. Loop /\ Busy' = Busy /\ Busy = {Last.name}
  BY SameEntryKeeps DEF Inv, Known, Running, Writing, Busy
<1>2. Last.name \in Names /\ cases \in Seq(CaseRecords)
  BY <1>1, LastIsNamed DEF Inv, Loop, CaseList
<1> SUFFICES ASSUME NEW i \in DOMAIN cases, cases[i].name # Last.name,
                    NEW other \in FilesOf(cases[i].name)
             PROVE  /\ files'[other].run = runs /\ files'[other].kind = "whole"
                    /\ LastOfName(i) => files'[other] = Whole(<<cases[i]>>)
  BY <1>1 DEF Settled, LastOfName, Whole
<1>3. cases[i].name \in Names
  BY <1>2, CasesAreNamed
<1>4. other \in Paths /\ other # path
  BY <1>2, <1>3, PathsOf
<1>5. files'[other] = files[other]
  BY <1>4 DEF Inv, TypeOK
<1> QED BY <1>1, <1>5 DEF Loop, Settled

\* A file that is written has the number of the run.
LEMMA WriteKeepsType ==
    ASSUME TypeOK, NEW path, NEW content, content.run = runs,
           files' = [files EXCEPT ![path] = content],
           next' \in 1..Len(manifest) + 1,
           at' \in {"exited", "loop", "report", "report open", "program", "program open",
                    "corpus", "corpus open", "exit"},
           UNCHANGED <<fixture, manifest, decision, exit, runs, edits>>
    PROVE  TypeOK'
<1>0. runs \in 0..runs
  BY Numbers, OwnRange
<1>1. DOMAIN files = Paths /\ DOMAIN files' = Paths
  BY DEF TypeOK
<1>2. ASSUME NEW other \in Paths PROVE files'[other].run \in 0..runs
  <2>1. files'[other] = IF other = path THEN content ELSE files[other]
    BY <1>1
  <2>2. files[other].run \in 0..runs
    BY DEF TypeOK
  <2>3. CASE other = path
    <3>1. files'[other].run = runs
      BY <2>1, <2>3
    <3> QED BY <1>0, <3>1
  <2>4. CASE other # path
    BY <2>1, <2>2, <2>4
  <2> QED BY <2>3, <2>4
<1> QED BY <1>1, <1>2 DEF TypeOK

\* The loop is behind when the corpus report is written.
LEMMA CorpusWriteKeepsLoop ==
    ASSUME TypeOK, Loop, at \in {"corpus", "corpus open"}, at' \in {"corpus open", "exit"},
           NEW content, files' = [files EXCEPT ![Corpus] = content],
           UNCHANGED <<manifest, next, cases, decision, runs>>
    PROVE  Loop'
<1>1. CaseList' /\ Progress' /\ ReportFirst'
  BY DEF Loop, CaseList, Progress, ReportFirst, Writing, Done
<1>2. Settled'
  <2>1. ASSUME NEW i \in DOMAIN cases, NEW path \in FilesOf(cases[i].name)
        PROVE  files'[path] = files[path]
    <3>1. cases[i].name \in Names
      BY CasesAreNamed DEF Loop, CaseList
    <3>2. path # Corpus /\ path \in Paths
      BY <2>1, <3>1, PathsOf
    <3> QED BY <3>2 DEF TypeOK
  <2>2. Busy = {} /\ Busy' = {}
    BY DEF Busy, Writing
  <2>3. ASSUME NEW i \in DOMAIN cases, NEW path \in FilesOf(cases[i].name)
        PROVE  /\ files'[path].run = runs /\ files'[path].kind = "whole"
               /\ LastOfName(i) => files'[path] = Whole(<<cases[i]>>)
    BY <2>1, <2>2, <2>3 DEF Loop, Settled
  <2> QED BY <2>2, <2>3 DEF Settled, LastOfName, Whole
<1> QED BY <1>1, <1>2 DEF Loop

LEMMA AllDone ==
    ASSUME TypeOK, Loop, at = "exited"
    PROVE  Done = Len(manifest) /\ DOMAIN manifest = 1..Len(manifest)
<1>1. next = Len(manifest) + 1
  BY DEF Loop, Progress, Writing
<1> QED BY <1>1, Numbers DEF Done, Writing

-----------------------------------------------------------------------------
(* The steps. *)

LEMMA StartKeeps ==
    ASSUME Inv, Start
    PROVE  Inv'
<1> USE DEF Start
<1>1. runs \in Nat /\ runs + 1 <= MaxRuns /\ DOMAIN files = Paths /\ Corpus \in Paths
  <2>1. runs \in Nat /\ MaxRuns \in Nat /\ runs < MaxRuns
    BY Numbers, BoundAssumption DEF Inv
  <2>2. DOMAIN files = Paths
    BY DEF Inv, TypeOK
  <2> QED BY <2>1, <2>2, CorpusIsPath
<1>2. TypeOK'
  <2>1. ASSUME NEW path \in Paths PROVE files'[path].run \in 0..runs'
    BY <1>1, Numbers DEF Inv
  <2>2. next' \in 1..Len(manifest') + 1
    <3>1. Len(manifest') \in Nat
      BY ManifestAssumption
    <3> QED BY <3>1
  <2>3. runs' \in 0..MaxRuns
    BY <1>1, BoundAssumption
  <2> QED BY <2>1, <2>2, <2>3 DEF Inv, TypeOK
<1>3. Loop'
  <2>1. Done' = 0 /\ Place(manifest', 0) = 0
    BY PlaceZero DEF Done, Writing
  <2>2. CaseList'
    BY <2>1 DEF CaseList
  <2>3. Progress' /\ Settled' /\ ReportFirst'
    BY DEF Progress, Settled, ReportFirst, Writing
  <2> QED BY <2>2, <2>3 DEF Loop
<1>4. CorpusLast'
  <2>1. files[Corpus].run < runs'
    BY <1>1, Numbers DEF Inv
  <2> QED BY <2>1 DEF CorpusLast
<1>5. CorpusNames' /\ CorpusNeverAhead'
  BY DEF Inv, CorpusNames, CorpusNeverAhead
<1>6. ExitTells'
  BY DEF ExitTells
<1> QED BY <1>2, <1>3, <1>4, <1>5, <1>6 DEF Inv

LEMMA SkipKeeps ==
    ASSUME Inv, Skip
    PROVE  Inv'
<1> USE DEF Skip, Item
<1>1. /\ next \in Nat /\ next > 0 /\ Len(manifest) \in Nat /\ next <= Len(manifest)
      /\ Loop /\ Running /\ Running'
  BY Numbers DEF Inv, Known, Running
<1>2. TypeOK'
  BY <1>1 DEF Inv, TypeOK
<1>3. Done = next - 1 /\ Done' = next /\ Done \in Nat /\ next = Done + 1
  BY <1>1 DEF Done, Writing
<1>4. CaseList'
  <2>1. Place(manifest, next) = Place(manifest, Done)
    BY <1>3, PlaceNext
  <2>2. ASSUME NEW i \in 1..next, manifest[i].selected PROVE i \in 1..Done
    BY <1>3, <2>2
  <2> QED BY <1>1, <1>3, <2>1, <2>2 DEF Loop, CaseList
<1>5. Progress' /\ Settled' /\ ReportFirst'
  BY <1>1 DEF Loop, Progress, Settled, ReportFirst, Writing, Busy, LastOfName, Whole
<1>6. CorpusLast' /\ CorpusNames' /\ CorpusNeverAhead' /\ ExitTells'
  BY <1>1 DEF Inv, CorpusLast, CorpusNames, CorpusNeverAhead, ExitTells, Partial, Known
<1> QED BY <1>2, <1>4, <1>5, <1>6 DEF Inv, Loop

LEMMA EvaluateCaseKeeps ==
    ASSUME Inv, EvaluateCase
    PROVE  Inv'
<1> DEFINE verdict == fixture[Item.input]
           new == [name |-> Item.name, decision |-> verdict]
<1>1. /\ at = "loop" /\ at' = "report" /\ next <= Len(manifest) /\ Item.selected
      /\ cases' = Append(cases, new)
      /\ decision' = IF verdict = Item.expected THEN decision ELSE "REFUTED"
      /\ UNCHANGED <<fixture, manifest, next, files, exit, runs, edits>>
  BY DEF EvaluateCase
<1>2. /\ next \in Nat /\ next > 0 /\ Len(manifest) \in Nat
      /\ manifest \in Seq(Entries) /\ next \in DOMAIN manifest
  BY <1>1, Numbers DEF Inv
<1>3. Loop /\ Known /\ Running /\ Running'
  BY <1>1 DEF Inv, Known, Running
<1>4. Done = next - 1 /\ Done' = next /\ Done \in Nat /\ next = Done + 1
  BY <1>1, <1>2 DEF Done, Writing
<1>5. new \in CaseRecords
  <2>1. manifest \in Manifests /\ fixture \in [Inputs -> Verdicts]
    BY DEF Inv, TypeOK
  <2>2. Item.name \in Names
    BY <1>2, <2>1 DEF Names, Item
  <2>3. Item.input \in Inputs
    BY <1>2, <2>1 DEF Inputs, Item
  <2> QED BY <2>1, <2>2, <2>3 DEF CaseRecords
<1>6. /\ cases \in Seq(CaseRecords) /\ Len(cases) = Place(manifest, Done) /\ Len(cases) \in Nat
      /\ cases' \in Seq(CaseRecords) /\ Len(cases') = Len(cases) + 1
      /\ cases'[Len(cases) + 1] = new
      /\ \A i \in 1..Len(cases) : cases'[i] = cases[i]
  BY <1>1, <1>3, <1>5 DEF Loop, CaseList
<1>7. Place(manifest, next) = Len(cases) + 1
  BY <1>1, <1>4, <1>6, PlaceNext DEF Item
<1>8. TypeOK'
  BY <1>1, <1>2 DEF Inv, TypeOK
<1>9. CaseList'
  <2>1. ASSUME NEW i \in 1..next, manifest[i].selected
        PROVE  /\ cases'[Place(manifest, i)].name = manifest[i].name
               /\ decision' = "CLOSED" =>
                      cases'[Place(manifest, i)].decision = manifest[i].expected
    <3>1. CASE i = next
      BY <1>1, <1>6, <1>7, <3>1 DEF Item
    <3>2. CASE i # next
      <4>1. i \in 1..Done /\ i \in Nat /\ i > 0
        BY <1>2, <1>4, <3>2
      <4>2. Place(manifest, i) \in 1..Len(cases)
        <5>1. Place(manifest, i) \in Nat
          BY <4>1, PlaceType
        <5>2. Place(manifest, i) <= Place(manifest, Done)
          BY <1>4, <4>1, PlaceGrows
        <5>3. Place(manifest, i) >= 1
          BY <2>1, <4>1, PlacePositive
        <5> QED BY <1>6, <5>1, <5>2, <5>3
      <4>3. cases'[Place(manifest, i)] = cases[Place(manifest, i)]
        BY <1>6, <4>2
      <4>4. decision' = "CLOSED" => decision = "CLOSED"
        BY <1>1
      <4> QED BY <1>3, <2>1, <4>1, <4>3, <4>4 DEF Loop, CaseList
    <3> QED BY <3>1, <3>2
  <2> QED BY <1>1, <1>4, <1>6, <1>7, <2>1 DEF CaseList
<1>10. Progress' /\ ReportFirst'
  BY <1>1 DEF Progress, ReportFirst, Writing, Item
<1>11. Settled'
  <2>1. Last' = new /\ Busy' = {new.name} /\ Busy = {}
    BY <1>1, <1>6 DEF Last, Busy, Writing
  <2>2. ASSUME NEW i \in DOMAIN cases', cases'[i].name # new.name
        PROVE  /\ i \in DOMAIN cases /\ cases'[i] = cases[i]
               /\ LastOfName(i)' => LastOfName(i)
    <3>1. i \in 1..Len(cases) /\ DOMAIN cases = 1..Len(cases) /\ DOMAIN cases' = 1..(Len(cases) + 1)
      BY <1>6, <2>2
    <3> QED BY <1>6, <3>1 DEF LastOfName
  <2>3. ASSUME NEW i \in DOMAIN cases', cases'[i].name # new.name,
               NEW path \in FilesOf(cases'[i].name)
        PROVE  /\ files[path].run = runs /\ files[path].kind = "whole"
               /\ LastOfName(i)' => files[path] = Whole(<<cases'[i]>>)
    BY <1>3, <2>1, <2>2, <2>3 DEF Loop, Settled
  <2> QED BY <1>1, <2>1, <2>3 DEF Settled, Whole
<1>12. CorpusLast' /\ CorpusNames' /\ CorpusNeverAhead' /\ ExitTells'
  BY <1>1, <1>3 DEF Inv, CorpusLast, CorpusNames, CorpusNeverAhead, ExitTells
<1> QED BY <1>8, <1>9, <1>10, <1>11, <1>12 DEF Inv, Loop

LEMMA OpenReportKeeps ==
    ASSUME Inv, OpenReport
    PROVE  Inv'
<1> DEFINE path == Report(Last.name)
<1>1. /\ at = "report" /\ at' = "report open" /\ files' = [files EXCEPT ![path] = Partial]
      /\ UNCHANGED <<fixture, manifest, next, cases, decision, exit, runs, edits>>
  BY DEF OpenReport, Open
<1>2. at \in Writing /\ at' \in Writing /\ path \in FilesOf(Last.name) /\ Partial.run = runs
  BY <1>1 DEF Writing, FilesOf, Partial
<1>3. CaseList' /\ Progress'
  BY <1>1, <1>2, SameEntryKeeps
<1>4. Settled'
  BY <1>1, <1>2, CaseWriteKeepsSettled
<1>5. ReportFirst'
  BY <1>1 DEF ReportFirst
<1>6. CorpusLast' /\ CorpusNames' /\ CorpusNeverAhead'
  BY <1>1, <1>2, CaseWriteKeepsCorpus
<1>7. TypeOK'
  <2>1. TypeOK /\ next' \in 1..Len(manifest) + 1
    BY <1>1 DEF Inv, TypeOK
  <2> QED BY <1>1, <1>2, <2>1, WriteKeepsType
<1>8. ExitTells'
  BY <1>1 DEF ExitTells, Running
<1> QED BY <1>3, <1>4, <1>5, <1>6, <1>7, <1>8 DEF Inv, Loop

LEMMA FillReportKeeps ==
    ASSUME Inv, FillReport
    PROVE  Inv'
<1> DEFINE path == Report(Last.name)
<1>1. /\ at = "report open" /\ at' = "program"
      /\ files' = [files EXCEPT ![path] = Whole(<<Last>>)]
      /\ UNCHANGED <<fixture, manifest, next, cases, decision, exit, runs, edits>>
  BY DEF FillReport, Fill
<1>2. /\ at \in Writing /\ at' \in Writing /\ path \in FilesOf(Last.name)
      /\ Whole(<<Last>>).run = runs
  BY <1>1 DEF Writing, FilesOf, Whole
<1>3. CaseList' /\ Progress' /\ Last' = Last
  BY <1>1, <1>2, SameEntryKeeps
<1>4. Settled'
  BY <1>1, <1>2, CaseWriteKeepsSettled
<1>5. ReportFirst'
  <2>1. Loop /\ DOMAIN files = Paths
    BY <1>1 DEF Inv, TypeOK, Known, Running
  <2>2. path \in Paths
    BY <1>2, <2>1, LastIsNamed, PathsOf DEF Inv
  <2> QED BY <1>1, <1>3, <2>1, <2>2 DEF ReportFirst, Whole
<1>6. CorpusLast' /\ CorpusNames' /\ CorpusNeverAhead'
  BY <1>1, <1>2, CaseWriteKeepsCorpus
<1>7. TypeOK'
  <2>1. TypeOK /\ next' \in 1..Len(manifest) + 1
    BY <1>1 DEF Inv, TypeOK
  <2> QED BY <1>1, <1>2, <2>1, WriteKeepsType
<1>8. ExitTells'
  BY <1>1 DEF ExitTells, Running
<1> QED BY <1>3, <1>4, <1>5, <1>6, <1>7, <1>8 DEF Inv, Loop

LEMMA OpenProgramKeeps ==
    ASSUME Inv, OpenProgram
    PROVE  Inv'
<1> DEFINE path == Program(Last.name)
<1>1. /\ at = "program" /\ at' = "program open" /\ files' = [files EXCEPT ![path] = Partial]
      /\ UNCHANGED <<fixture, manifest, next, cases, decision, exit, runs, edits>>
  BY DEF OpenProgram, Open
<1>2. at \in Writing /\ at' \in Writing /\ path \in FilesOf(Last.name) /\ Partial.run = runs
  BY <1>1 DEF Writing, FilesOf, Partial
<1>3. CaseList' /\ Progress' /\ Last' = Last
  BY <1>1, <1>2, SameEntryKeeps
<1>4. Settled'
  BY <1>1, <1>2, CaseWriteKeepsSettled
<1>5. ReportFirst'
  <2>1. Loop /\ DOMAIN files = Paths
    BY <1>1 DEF Inv, TypeOK, Known, Running
  <2>2. Report(Last.name) \in Paths /\ Report(Last.name) # path
    BY <1>2, <2>1, LastIsNamed, PathsOf DEF Inv, FilesOf
  <2>3. files'[Report(Last.name)] = files[Report(Last.name)]
    BY <1>1, <2>1, <2>2
  <2> QED BY <1>1, <1>3, <2>1, <2>3 DEF Loop, ReportFirst, Whole
<1>6. CorpusLast' /\ CorpusNames' /\ CorpusNeverAhead'
  BY <1>1, <1>2, CaseWriteKeepsCorpus
<1>7. TypeOK'
  <2>1. TypeOK /\ next' \in 1..Len(manifest) + 1
    BY <1>1 DEF Inv, TypeOK
  <2> QED BY <1>1, <1>2, <2>1, WriteKeepsType
<1>8. ExitTells'
  BY <1>1 DEF ExitTells, Running
<1> QED BY <1>3, <1>4, <1>5, <1>6, <1>7, <1>8 DEF Inv, Loop

LEMMA FillProgramKeeps ==
    ASSUME Inv, FillProgram
    PROVE  Inv'
<1> DEFINE path == Program(Last.name)
<1>1. /\ at = "program open" /\ at' = "loop" /\ next' = next + 1
      /\ files' = [files EXCEPT ![path] = Whole(<<Last>>)]
      /\ UNCHANGED <<fixture, manifest, cases, decision, exit, runs, edits>>
  BY DEF FillProgram, Fill
<1>2. /\ at \in Writing /\ path \in FilesOf(Last.name) /\ Whole(<<Last>>).run = runs
      /\ Running /\ Running' /\ Known /\ Loop
  BY <1>1 DEF Inv, Writing, FilesOf, Whole, Known, Running
<1>3. next \in Nat /\ next > 0 /\ Len(manifest) \in Nat /\ next <= Len(manifest)
  BY <1>2, Numbers DEF Inv, Loop, Progress
<1>4. Done = next /\ Done' = next
  <2>1. next' = next + 1
    BY <1>1
  <2>2. next' - 1 = next
    BY <1>3, <2>1
  <2> QED BY <1>1, <2>2 DEF Done, Writing
<1>5. CaseList' /\ Progress' /\ ReportFirst'
  BY <1>1, <1>2, <1>4 DEF Loop, CaseList, Progress, ReportFirst, Writing
<1>6. Settled'
  <2>1. /\ Len(cases) \in Nat /\ Len(cases) >= 1 /\ DOMAIN cases = 1..Len(cases)
        /\ Last = cases[Len(cases)] /\ Last.name \in Names
    BY <1>2, LastIsNamed DEF Inv
  <2>2. DOMAIN files = Paths /\ cases \in Seq(CaseRecords)
    BY <1>2 DEF Inv, TypeOK, Loop, CaseList
  <2>3. /\ FilesOf(Last.name) \subseteq Paths /\ Report(Last.name) # path
        /\ files'[path] = Whole(<<Last>>)
    BY <1>1, <1>2, <2>1, <2>2, PathsOf
  <2>4. files'[Report(Last.name)] = Whole(<<Last>>)
    <3>1. files[Report(Last.name)] = Whole(<<Last>>)
      BY <1>1, <1>2 DEF Loop, ReportFirst
    <3> QED BY <1>1, <2>2, <2>3, <3>1 DEF FilesOf
  <2> SUFFICES ASSUME NEW i \in DOMAIN cases, NEW other \in FilesOf(cases[i].name)
               PROVE  /\ files'[other].run = runs /\ files'[other].kind = "whole"
                      /\ LastOfName(i) => files'[other] = Whole(<<cases[i]>>)
    BY <1>1 DEF Settled, LastOfName, Whole
  <2>5. CASE cases[i].name = Last.name
    <3>1. files'[other] = Whole(<<Last>>)
      BY <2>3, <2>4, <2>5 DEF FilesOf
    <3>2. LastOfName(i) => i = Len(cases)
      BY <2>1, <2>5 DEF LastOfName
    <3> QED BY <2>1, <3>1, <3>2 DEF Whole
  <2>6. CASE cases[i].name # Last.name
    <3>1. cases[i].name \in Names
      BY <2>2, CasesAreNamed
    <3>2. other \in Paths /\ other # path
      BY <1>2, <2>6, <3>1, PathsOf
    <3>3. files'[other] = files[other]
      BY <1>1, <2>2, <3>2
    <3>4. cases[i].name \notin Busy
      BY <1>2, <2>6 DEF Busy
    <3> QED BY <1>2, <3>3, <3>4 DEF Loop, Settled
  <2> QED BY <2>5, <2>6
<1>7. CorpusLast' /\ CorpusNames' /\ CorpusNeverAhead'
  BY <1>1, <1>2, CaseWriteKeepsCorpus
<1>8. TypeOK'
  <2>1. TypeOK
    BY DEF Inv
  <2>2. next' = next + 1
    BY <1>1
  <2>3. next' \in 1..Len(manifest) + 1
    BY <1>3, <2>2
  <2> QED BY <1>1, <1>2, <2>1, <2>3, WriteKeepsType
<1>9. ExitTells'
  BY <1>1 DEF ExitTells, Running
<1> QED BY <1>5, <1>6, <1>7, <1>8, <1>9 DEF Inv, Loop

LEMMA FinishLoopKeeps ==
    ASSUME Inv, FinishLoop
    PROVE  Inv'
<1> USE DEF FinishLoop
<1>1. /\ next \in Nat /\ Len(manifest) \in Nat /\ next = Len(manifest) + 1
      /\ Loop /\ Running /\ Running'
  BY Numbers DEF Inv, Known, Running
<1>2. TypeOK'
  BY DEF Inv, TypeOK
<1>3. CaseList' /\ Progress' /\ Settled' /\ ReportFirst'
  BY <1>1 DEF Loop, CaseList, Progress, Settled, ReportFirst, Writing, Busy, LastOfName,
              Whole, Done
<1>4. CorpusLast' /\ CorpusNames' /\ CorpusNeverAhead' /\ ExitTells'
  BY <1>1 DEF Inv, CorpusLast, CorpusNames, CorpusNeverAhead, ExitTells, Running
<1> QED BY <1>2, <1>3, <1>4 DEF Inv, Loop

LEMMA OpenCorpusKeeps ==
    ASSUME Inv, OpenCorpus
    PROVE  Inv'
<1>1. /\ at = "corpus" /\ at' = "corpus open" /\ files' = [files EXCEPT ![Corpus] = Partial]
      /\ UNCHANGED <<fixture, manifest, next, cases, decision, exit, runs, edits>>
  BY DEF OpenCorpus, Open
<1>2. TypeOK /\ Loop /\ Running' /\ Partial.run = runs
  BY <1>1 DEF Inv, Known, Running, Partial
<1>3. TypeOK'
  <2>1. next' \in 1..Len(manifest) + 1
    BY <1>1, <1>2 DEF TypeOK
  <2> QED BY <1>1, <1>2, <2>1, WriteKeepsType
<1>4. Loop'
  BY <1>1, <1>2, CorpusWriteKeepsLoop
<1>5. files'[Corpus] = Partial
  BY <1>1, <1>2, CorpusIsPath DEF TypeOK
<1>6. CorpusLast'
  BY <1>1, <1>5 DEF CorpusLast, Partial
<1>7. CorpusNames' /\ CorpusNeverAhead'
  BY <1>5 DEF CorpusNames, CorpusNeverAhead, Partial
<1>8. ExitTells'
  BY <1>2 DEF ExitTells
<1> QED BY <1>3, <1>4, <1>6, <1>7, <1>8 DEF Inv

LEMMA FillCorpusKeeps ==
    ASSUME Inv, FillCorpus
    PROVE  Inv'
<1>1. /\ at = "corpus open" /\ at' = "exit" /\ files' = [files EXCEPT ![Corpus] = Whole(cases)]
      /\ UNCHANGED <<fixture, manifest, next, cases, decision, exit, runs, edits>>
  BY DEF FillCorpus, Fill
<1>2. TypeOK /\ Loop /\ Running' /\ Whole(cases).run = runs
  BY <1>1 DEF Inv, Known, Running, Whole
<1>3. TypeOK'
  <2>1. next' \in 1..Len(manifest) + 1
    BY <1>1, <1>2 DEF TypeOK
  <2> QED BY <1>1, <1>2, <2>1, WriteKeepsType
<1>4. Loop'
  BY <1>1, <1>2, CorpusWriteKeepsLoop
<1>5. files'[Corpus] = Whole(cases) /\ Whole(cases)' = Whole(cases)
  BY <1>1, <1>2, CorpusIsPath DEF TypeOK, Whole
<1>6. CorpusLast'
  BY <1>1, <1>5 DEF CorpusLast
<1>7. \A i \in DOMAIN cases : cases[i].name \in Names
  BY <1>2, CasesAreNamed DEF Loop, CaseList
<1>8. CorpusNames'
  BY <1>5, <1>7 DEF CorpusNames, Whole
<1>9. CorpusNeverAhead'
  <2> SUFFICES ASSUME NEW i \in DOMAIN cases, NEW path \in FilesOf(cases[i].name)
               PROVE  files'[path].run >= runs /\ files'[path].kind = "whole"
    BY <1>5 DEF CorpusNeverAhead, Whole, FilesOf
  <2>1. path # Corpus /\ path \in Paths
    BY <1>7, PathsOf
  <2>2. files'[path] = files[path]
    BY <1>1, <1>2, <2>1 DEF TypeOK
  <2>3. files[path].run = runs /\ files[path].kind = "whole"
    BY <1>1, <1>2 DEF Loop, Settled, Busy, Writing
  <2>4. runs \in Nat
    BY <1>2, Numbers
  <2> QED BY <2>2, <2>3, <2>4
<1>10. ExitTells'
  BY <1>2 DEF ExitTells
<1> QED BY <1>3, <1>4, <1>6, <1>8, <1>9, <1>10 DEF Inv

\* The process ends, and leaves the directory as it is.
LEMMA StopKeeps ==
    ASSUME Inv, Running, NEW how \in {"ok", "refuted", "fatal", "killed"}, Stop(how),
           how \in {"ok", "refuted"} => at = "exit",
           how = "ok" => decision = "CLOSED"
    PROVE  Inv'
<1> USE DEF Stop
<1>1. TypeOK'
  BY DEF Inv, TypeOK
<1>2. Loop /\ ~Running'
  BY DEF Inv, Known, Running
<1>3. Known' => Loop'
  <2> SUFFICES ASSUME at = "exit" PROVE Loop'
    BY <1>2 DEF Known
  <2> QED BY <1>2 DEF Loop, CaseList, Progress, Settled, ReportFirst, Writing, Busy,
                      LastOfName, Whole, Done
<1>4. CorpusLast'
  <2>1. Known' => files[Corpus] = Whole(cases) /\ Whole(cases)' = Whole(cases)
    BY <1>2 DEF Inv, CorpusLast, Known, Running, Whole
  <2> QED BY <1>2, <2>1 DEF CorpusLast
<1>5. CorpusNames' /\ CorpusNeverAhead'
  BY DEF Inv, CorpusNames, CorpusNeverAhead
<1>6. ExitTells'
  BY DEF ExitTells
<1> QED BY <1>1, <1>3, <1>4, <1>5, <1>6 DEF Inv

LEMMA EndKeeps ==
    ASSUME Inv, Finish \/ FatalInput \/ FatalWrite \/ Crash
    PROVE  Inv'
<1>1. CASE Finish
  <2>1. at = "exit" /\ Running /\ decision \in {"CLOSED", "REFUTED"}
    BY <1>1 DEF Finish, Running, Inv, TypeOK
  <2>2. CASE decision = "REFUTED"
    BY <1>1, <2>1, <2>2, StopKeeps DEF Finish
  <2>3. CASE decision = "CLOSED"
    BY <1>1, <2>1, <2>3, StopKeeps DEF Finish
  <2> QED BY <2>1, <2>2, <2>3
<1>2. CASE FatalInput
  BY <1>2, StopKeeps DEF FatalInput, Running
<1>3. CASE FatalWrite
  BY <1>3, StopKeeps DEF FatalWrite, Running
<1>4. CASE Crash
  BY <1>4, StopKeeps DEF Crash
<1> QED BY <1>1, <1>2, <1>3, <1>4

\* A step that changes neither the run nor its output.
LEMMA IdleKeeps ==
    ASSUME Inv, UNCHANGED <<manifest, at, next, cases, decision, files, exit, runs>>,
           fixture' \in [Inputs -> Verdicts], edits' \in 0..MaxEdits
    PROVE  Inv'
<1>1. TypeOK'
  BY DEF Inv, TypeOK
<1>2. (Known => Loop)'
  BY DEF Inv, Known, Running, Loop, CaseList, Progress, Settled, ReportFirst, Writing, Busy,
         LastOfName, Whole, Done, Last
<1>3. CorpusLast' /\ CorpusNames' /\ CorpusNeverAhead' /\ ExitTells'
  BY DEF Inv, CorpusLast, CorpusNames, CorpusNeverAhead, ExitTells, Known, Running, Whole,
         Partial
<1> QED BY <1>1, <1>2, <1>3 DEF Inv

LEMMA EditFixtureKeeps ==
    ASSUME Inv, EditFixture
    PROVE  Inv'
<1>1. edits \in 0..MaxEdits /\ fixture \in [Inputs -> Verdicts]
  BY DEF Inv, TypeOK
<1>2. edits' \in 0..MaxEdits
  <2>1. edits < MaxEdits /\ edits' = edits + 1
    BY DEF EditFixture
  <2> QED BY <1>1, <2>1, BoundAssumption
<1>3. fixture' \in [Inputs -> Verdicts]
  BY <1>1 DEF EditFixture
<1> QED BY <1>2, <1>3, IdleKeeps DEF EditFixture

LEMMA NextInv == Inv /\ [Next]_vars => Inv'
<1> SUFFICES ASSUME Inv, [Next]_vars PROVE Inv'
  OBVIOUS
<1>1. CASE UNCHANGED vars
  BY <1>1, IdleKeeps DEF vars, Inv, TypeOK
<1>2. CASE Command
  BY <1>2, SkipKeeps, EvaluateCaseKeeps, OpenReportKeeps, FillReportKeeps, OpenProgramKeeps,
     FillProgramKeeps, FinishLoopKeeps, OpenCorpusKeeps, FillCorpusKeeps, EndKeeps DEF Command
<1>3. CASE Start
  BY <1>3, StartKeeps
<1>4. CASE FatalWrite \/ Crash
  BY <1>4, EndKeeps
<1>5. CASE EditFixture
  BY <1>5, EditFixtureKeeps
<1> QED BY <1>1, <1>2, <1>3, <1>4, <1>5 DEF Next

LEMMA Invariant == Spec => []Inv
BY InitInv, NextInv, PTL DEF Spec

-----------------------------------------------------------------------------
(* The theorems. *)

\* Every variable keeps its type; the loop stays within its manifest.
THEOREM TypeCorrect == Spec => []TypeOK
<1>1. Inv => TypeOK
  BY DEF Inv
<1> QED BY <1>1, Invariant, PTL

\* However many runs crashed or failed before into the same directory, a run
\* that exits by itself leaves it complete, and of this run.
THEOREM Completeness == Spec => []ExitMeansComplete
<1>1. Inv => ExitMeansComplete
  <2> SUFFICES ASSUME Inv, ~Running, exit \in {"ok", "refuted"}
               PROVE  /\ files[Corpus] = Whole(cases)
                      /\ Len(cases) = Place(manifest, Len(manifest))
                      /\ \A i \in DOMAIN manifest : manifest[i].selected =>
                            cases[Place(manifest, i)].name = manifest[i].name
                      /\ \A i \in DOMAIN cases : LastOfName(i) =>
                            \A path \in FilesOf(cases[i].name) : files[path] = Whole(<<cases[i]>>)
    BY DEF ExitMeansComplete, LastOfName, FilesOf
  <2>1. Known /\ Loop /\ at = "exited"
    BY DEF Inv, Known, Running
  <2>2. Done = Len(manifest) /\ DOMAIN manifest = 1..Len(manifest)
    BY <2>1, AllDone DEF Inv
  <2>3. files[Corpus] = Whole(cases)
    BY <2>1 DEF Inv, CorpusLast
  <2>4. \A i \in DOMAIN cases : LastOfName(i) =>
            \A path \in FilesOf(cases[i].name) : files[path] = Whole(<<cases[i]>>)
    BY <2>1 DEF Loop, Settled, Busy, Writing
  <2> QED BY <2>1, <2>2, <2>3, <2>4 DEF Loop, CaseList
<1> QED BY <1>1, Invariant, PTL

\* Whatever is edited while it runs, a run succeeds only if every scenario got
\* the decision expected of it.
THEOREM Success == Spec => []SuccessMeansExpected
<1>1. Inv => SuccessMeansExpected
  <2> SUFFICES ASSUME Inv, ~Running, exit = "ok",
                      NEW i \in DOMAIN manifest, manifest[i].selected
               PROVE  cases[Place(manifest, i)].decision = manifest[i].expected
    BY DEF SuccessMeansExpected
  <2>1. Known /\ Loop /\ at = "exited" /\ decision = "CLOSED"
    BY DEF Inv, Known, Running, ExitTells
  <2>2. Done = Len(manifest) /\ DOMAIN manifest = 1..Len(manifest)
    BY <2>1, AllDone DEF Inv
  <2> QED BY <2>1, <2>2 DEF Loop, CaseList
<1> QED BY <1>1, Invariant, PTL

\* A whole corpus report is never newer than the files of its cases, at any
\* moment of any run.
THEOREM Order == Spec => []CorpusNeverAhead
<1>1. Inv => CorpusNeverAhead
  BY DEF Inv
<1> QED BY <1>1, Invariant, PTL
=============================================================================
