------------------------ MODULE CompileCommandProofs ------------------------
(***************************************************************************)
(* Theorems about CompileCommand.tla, for all scenarios, locks, graphs and *)
(* runners, and any number of runs and replaced files.                     *)
(*                                                                         *)
(* The inductive invariant says of each point of the command what is known *)
(* there: which checks have passed, on what was on the disk at some moment *)
(* of the run, and what the two files of the scenario hold.                *)
(***************************************************************************)
EXTENDS CompileCommand, TLAPS

Writing   == {"fill report", "program", "fill program", "exit"}
Checked   == {"report"} \cup Writing
Preparing == {"policy", "modules", "scenario", "evaluate", "lock", "graph", "digest", "runner",
              "report"}

FilesAreFiles == files = [path \in Paths |-> files[path]]

Cases ==
    /\ case \in [id : Scenarios \cup {"none"}, decision : Decisions \cup {"none"}]
    /\ at \in {"evaluate", "lock", "graph", "digest", "runner"} \cup Checked =>
          case.id \in Scenarios
    /\ at \in {"lock", "graph", "digest", "runner"} \cup Checked =>
          case.decision \in Decisions

\* Nothing of this run is in the directory before the first write.
Untouched == at \in Preparing => \A path \in Paths : files[path].run < runs

LockRead ==
    at \in {"graph", "digest", "runner"} \cup Checked =>
        LockAccepted(lock) /\ \E d \in met : d.lock = lock

ClosedSeen ==
    at \in {"digest", "runner"} \cup Checked /\ Graph \in flags =>
        \E d \in met : GraphClosed(d.graph)

GraphSeen ==
    at \in {"runner"} \cup Checked /\ Graph \in flags =>
        \E d \in met : GraphIsLocked(lock, d.graph)

RunnerSeen ==
    at \in Checked /\ Runner \in flags => \E d \in met : RunnerIsLocked(lock, d.runner)

\* The two files of the scenario while they are written.
InFlight ==
    LET report  == files[<<case.id, "json">>]
        program == files[<<case.id, "go">>]
    IN  /\ at = "fill report"  => report = Partial /\ program.run < runs
        /\ at = "program"      => report = Whole(Evaluation) /\ program.run < runs
        /\ at = "fill program" => report = Whole(Evaluation) /\ program = Partial
        /\ at = "exit"         => report = Whole(Evaluation) /\ program = Whole(Evaluation)

Inv ==
    /\ TypeOK /\ FilesAreFiles /\ Cases /\ Untouched
    /\ LockRead /\ ClosedSeen /\ GraphSeen /\ RunnerSeen
    /\ InFlight /\ ExitIsBacked /\ RefusalWritesNothing /\ ProgramNeverAhead

-----------------------------------------------------------------------------
(* Lemmas about steps of one form. *)

LEMMA DistinctPaths ==
    ASSUME NEW a, NEW b
    PROVE  <<a, "json">> # <<b, "go">> /\ (<<a, "json">> = <<b, "json">> => a = b)
           /\ (<<a, "go">> = <<b, "go">> => a = b)
OBVIOUS

LEMMA PathsOf ==
    ASSUME NEW id \in Scenarios
    PROVE  <<id, "json">> \in Paths /\ <<id, "go">> \in Paths
BY DEF Paths

LEMMA InitInv == Init => Inv
<1> SUFFICES ASSUME Init PROVE Inv
  OBVIOUS
<1> USE DEF Init
<1>1. TypeOK
  BY BoundAssumption DEF TypeOK, Nothing, Paths
<1>2. FilesAreFiles
  BY DEF FilesAreFiles
<1>3. Cases
  BY DEF Cases, NoCase, Checked, Writing
<1>4. Untouched /\ LockRead /\ ClosedSeen /\ GraphSeen /\ RunnerSeen /\ InFlight
  BY DEF Untouched, LockRead, ClosedSeen, GraphSeen, RunnerSeen, InFlight,
         Preparing, Checked, Writing
<1>5. ExitIsBacked /\ RefusalWritesNothing
  BY DEF ExitIsBacked, RefusalWritesNothing
<1>6. ProgramNeverAhead
  <2> SUFFICES ASSUME NEW id \in Scenarios
               PROVE  /\ files[<<id, "go">>].run <= files[<<id, "json">>].run
                      /\ files[<<id, "go">>].kind # "whole"
    BY DEF ProgramNeverAhead
  <2>1. files[<<id, "json">>] = Nothing /\ files[<<id, "go">>] = Nothing
    BY PathsOf
  <2> QED BY <2>1 DEF Nothing
<1> QED BY <1>1, <1>2, <1>3, <1>4, <1>5, <1>6 DEF Inv

\* A step that checks, before anything is written.
LEMMA PassKeeps ==
    ASSUME Inv, NEW here \in Preparing, NEW to \in Preparing, Pass(here, to),
           case' \in [id : Scenarios \cup {"none"}, decision : Decisions \cup {"none"}],
           lock' \in Locks \cup {Unreadable},
           Cases', LockRead', ClosedSeen', GraphSeen', RunnerSeen'
    PROVE  Inv'
<1> USE DEF Pass, input
<1>1. TypeOK'
  BY DEF Inv, TypeOK, Preparing, Cases, Checked, Writing
<1>2. FilesAreFiles' /\ Untouched'
  BY DEF Inv, FilesAreFiles, Untouched, Paths
<1>3. InFlight' /\ ExitIsBacked' /\ RefusalWritesNothing'
  BY DEF InFlight, ExitIsBacked, RefusalWritesNothing, Preparing, Running
<1>4. ProgramNeverAhead'
  BY DEF Inv, ProgramNeverAhead
<1> QED BY <1>1, <1>2, <1>3, <1>4 DEF Inv

\* The process ends: what is in the directory stays.
LEMMA StopKeeps ==
    ASSUME Inv, Running, NEW how \in {"ok", "refuted", "refused", "failed", "killed"}, Stop(how),
           how \in {"ok", "refuted"} =>
               at = "exit" /\ (how = "refuted") = (case.decision = "REFUTED"),
           how = "refused" => at \in Preparing
    PROVE  Inv'
<1> USE DEF Stop
<1>1. TypeOK'
  BY DEF Inv, TypeOK, Paths
<1>2. FilesAreFiles' /\ Cases'
  BY DEF Inv, FilesAreFiles, Cases, Checked, Writing, Paths
<1>3. Untouched' /\ LockRead' /\ ClosedSeen' /\ GraphSeen' /\ RunnerSeen' /\ InFlight'
  BY DEF Untouched, LockRead, ClosedSeen, GraphSeen, RunnerSeen, InFlight,
         Preparing, Checked, Writing
<1>4. ExitIsBacked'
  <2> SUFFICES ASSUME how \in {"ok", "refuted"} PROVE ExitIsBacked'
    BY DEF ExitIsBacked
  <2>1. /\ files[<<case.id, "json">>] = Whole(Evaluation)
        /\ files[<<case.id, "go">>] = Whole(Evaluation)
    BY DEF Inv, InFlight
  <2>2. Whole(Evaluation).holds = Evaluation /\ Evaluation.case = case
    BY DEF Whole, Evaluation
  <2>3. \A v : Whole(v)' = Whole(v)
    BY DEF Whole
  <2> QED BY <2>1, <2>2, <2>3 DEF ExitIsBacked
<1>5. RefusalWritesNothing'
  BY DEF Inv, RefusalWritesNothing, Untouched, Paths
<1>6. ProgramNeverAhead'
  BY DEF Inv, ProgramNeverAhead
<1> QED BY <1>1, <1>2, <1>3, <1>4, <1>5, <1>6 DEF Inv

\* A step of a write: one file of the scenario changes.
LEMMA WriteKeeps ==
    ASSUME Inv, NEW here \in Checked, NEW to \in Writing,
           NEW ext \in {"json", "go"}, NEW content,
           Write(here, <<case.id, ext>>, content, to),
           content.run = runs,
           InFlight', ProgramNeverAhead'
    PROVE  Inv'
<1> USE DEF Write, input
<1>1. case.id \in Scenarios /\ case.decision \in Decisions
  BY DEF Inv, Cases
<1>2. <<case.id, ext>> \in Paths
  BY <1>1 DEF Paths
<1>3. FilesAreFiles'
  BY DEF Inv, FilesAreFiles, Paths
<1>4. TypeOK'
  <2>t. TypeOK
    BY DEF Inv
  <2>1. runs \in Nat /\ TypeOK
    <3>1. runs \in 0..MaxRuns
      BY <2>t DEF TypeOK
    <3> QED BY <2>t, <3>1, BoundAssumption
  <2>2. DOMAIN files' = Paths /\ Paths' = Paths
    BY <2>1 DEF TypeOK, Paths
  <2>3. ASSUME NEW path \in Paths PROVE files'[path].run \in 0..runs
    <3>a. /\ files' = [files EXCEPT ![<<case.id, ext>>] = content] /\ content.run = runs
          /\ DOMAIN files = Paths /\ files[path].run \in 0..runs
      BY <2>1 DEF TypeOK
    <3>1. CASE path = <<case.id, ext>>
      <4>1. files'[path] = content
        BY <1>2, <3>a, <3>1
      <4> QED BY <2>1, <3>a, <4>1
    <3>2. CASE path # <<case.id, ext>>
      <4>1. files'[path] = files[path]
        BY <3>a, <3>2
      <4> QED BY <3>a, <4>1
    <3> QED BY <3>1, <3>2
  <2> QED BY <1>1, <2>1, <2>2, <2>3 DEF TypeOK, Writing
<1>5. Cases'
  BY DEF Inv, Cases, Checked, Writing
<1>6. Untouched'
  BY DEF Untouched, Preparing, Writing
<1>7. LockRead' /\ ClosedSeen' /\ GraphSeen' /\ RunnerSeen'
  BY DEF Inv, LockRead, ClosedSeen, GraphSeen, RunnerSeen, Checked, Writing
<1>8. ExitIsBacked' /\ RefusalWritesNothing'
  BY DEF ExitIsBacked, RefusalWritesNothing, Running, Writing
<1> QED BY <1>3, <1>4, <1>5, <1>6, <1>7, <1>8 DEF Inv

-----------------------------------------------------------------------------
(* Every step keeps the invariant. *)

LEMMA LockedIsNamed ==
    ASSUME NEW l \in Locks, LockAccepted(l), NEW name \in Optional
    PROVE  /\ Locked(l, name).name = name
           /\ Locked(l, name) \in {l.inputs[i] : i \in DOMAIN l.inputs}
<1> DEFINE At   == {i \in DOMAIN l.inputs : l.inputs[i].name = name}
           last == CHOOSE i \in DOMAIN l.inputs :
                       /\ l.inputs[i].name = name
                       /\ \A j \in DOMAIN l.inputs : l.inputs[j].name = name => j <= i
<1>1. DOMAIN l.inputs = {1, 2, 3}
  BY LockAssumption DEF LockAccepted
<1>2. PICK i \in DOMAIN l.inputs : l.inputs[i].name = name
  BY DEF LockAccepted, Optional
<1>3. \E k \in DOMAIN l.inputs :
         /\ l.inputs[k].name = name
         /\ \A j \in DOMAIN l.inputs : l.inputs[j].name = name => j <= k
  BY <1>1, <1>2
<1>4. last \in DOMAIN l.inputs /\ l.inputs[last].name = name
  BY <1>3
<1>5. Locked(l, name) = l.inputs[last]
  BY DEF Locked
<1> QED BY <1>4, <1>5

LEMMA StartKeeps == Inv /\ Start => Inv'
<1> SUFFICES ASSUME Inv, Start PROVE Inv'
  OBVIOUS
<1> USE DEF Start
<1>t. TypeOK
  BY DEF Inv
<1>n. runs \in Nat /\ runs' = runs + 1 /\ runs' \in 0..MaxRuns
  <2>1. runs \in 0..MaxRuns /\ runs < MaxRuns /\ runs' = runs + 1
    BY <1>t DEF TypeOK
  <2> QED BY <2>1, BoundAssumption
<1>1. \A path \in Paths : files'[path].run \in 0..runs' /\ files'[path].run < runs'
  <2>1. ASSUME NEW path \in Paths PROVE files'[path].run \in 0..runs
    BY <1>t DEF TypeOK
  <2> QED BY <1>n, <2>1
<1>2. TypeOK'
  BY <1>t, <1>n, <1>1 DEF TypeOK, Paths
<1>3. FilesAreFiles' /\ Untouched'
  BY <1>1 DEF Inv, FilesAreFiles, Untouched, Paths
<1>4. Cases' /\ LockRead' /\ ClosedSeen' /\ GraphSeen' /\ RunnerSeen' /\ InFlight'
  BY DEF Cases, NoCase, LockRead, ClosedSeen, GraphSeen, RunnerSeen, InFlight, Checked, Writing
<1>5. ExitIsBacked' /\ RefusalWritesNothing'
  BY DEF ExitIsBacked, RefusalWritesNothing
<1>6. ProgramNeverAhead'
  BY DEF Inv, ProgramNeverAhead
<1> QED BY <1>2, <1>3, <1>4, <1>5, <1>6 DEF Inv

LEMMA CheckKeeps ==
    ASSUME Inv, \/ ReadPolicy \/ ReadModules \/ ReadScenario \/ Evaluate
                \/ ReadLock \/ CheckGraph \/ CheckDigest \/ CheckRunner
    PROVE  Inv'
<1>t. TypeOK /\ Cases /\ LockRead /\ ClosedSeen /\ GraphSeen /\ RunnerSeen
  BY DEF Inv
<1> DEFINE CaseSet == [id : Scenarios \cup {"none"}, decision : Decisions \cup {"none"}]
<1>1. ASSUME NEW here \in {"policy", "modules"}, NEW to \in {"modules", "scenario"},
             Pass(here, to), UNCHANGED <<lock, case>>
      PROVE  Inv'
  <2>1. Cases' /\ LockRead' /\ ClosedSeen' /\ GraphSeen' /\ RunnerSeen'
    BY <1>t, <1>1 DEF Pass, Cases, LockRead, ClosedSeen, GraphSeen, RunnerSeen, Checked, Writing
  <2> QED BY <1>t, <1>1, <2>1, PassKeeps DEF TypeOK, Cases, Preparing
<1>2. CASE ReadScenario
  <2>1. case' \in CaseSet /\ case'.id \in Scenarios
    BY <1>t, <1>2 DEF ReadScenario, Cases
  <2>2. Pass("scenario", "evaluate") /\ lock' = lock
    BY <1>2 DEF ReadScenario
  <2>3. Cases' /\ LockRead' /\ ClosedSeen' /\ GraphSeen' /\ RunnerSeen'
    BY <2>1, <2>2 DEF Pass, Cases, LockRead, ClosedSeen, GraphSeen, RunnerSeen, Checked, Writing
  <2> QED BY <1>t, <2>1, <2>2, <2>3, PassKeeps DEF TypeOK, Preparing
<1>3. CASE Evaluate
  <2>1. Pass("evaluate", "lock") /\ lock' = lock
    BY <1>3 DEF Evaluate
  <2>2. case' \in CaseSet /\ case'.id \in Scenarios /\ case'.decision \in Decisions
    BY <1>t, <1>3, <2>1 DEF Evaluate, Cases, Pass
  <2>3. Cases' /\ LockRead' /\ ClosedSeen' /\ GraphSeen' /\ RunnerSeen'
    BY <2>1, <2>2 DEF Pass, Cases, LockRead, ClosedSeen, GraphSeen, RunnerSeen, Checked, Writing
  <2> QED BY <1>t, <2>1, <2>2, <2>3, PassKeeps DEF TypeOK, Preparing
<1>4. CASE ReadLock
  <2>1. Pass("lock", "graph") /\ case' = case /\ lock' = disk.lock /\ LockAccepted(disk.lock)
    BY <1>4 DEF ReadLock
  <2>2. disk \in met /\ disk.lock \in Locks
    BY <1>t DEF TypeOK
  <2>3. Cases' /\ LockRead' /\ ClosedSeen' /\ GraphSeen' /\ RunnerSeen'
    BY <1>t, <2>1, <2>2
       DEF Pass, input, Cases, LockRead, ClosedSeen, GraphSeen, RunnerSeen, Checked, Writing
  <2> QED BY <1>t, <2>1, <2>2, <2>3, PassKeeps DEF Cases, Preparing
<1>5. CASE CheckGraph
  <2>1. /\ Pass("graph", "digest") /\ UNCHANGED <<lock, case>>
        /\ Graph \in flags => GraphClosed(disk.graph)
    BY <1>5 DEF CheckGraph
  <2>2. disk \in met
    BY <1>t DEF TypeOK
  <2>3. Cases' /\ LockRead' /\ GraphSeen' /\ RunnerSeen'
    BY <1>t, <2>1 DEF Pass, input, Cases, LockRead, GraphSeen, RunnerSeen, Checked, Writing
  <2>4. ClosedSeen'
    BY <2>1, <2>2 DEF Pass, input, ClosedSeen
  <2> QED BY <1>t, <2>1, <2>3, <2>4, PassKeeps DEF TypeOK, Cases, Preparing
<1>6. CASE CheckDigest
  <2>1. /\ Pass("digest", "runner") /\ UNCHANGED <<lock, case>>
        /\ Graph \in flags => GraphIsLocked(lock, disk.graph)
    BY <1>6 DEF CheckDigest
  <2>2. disk \in met
    BY <1>t DEF TypeOK
  <2>3. Cases' /\ LockRead' /\ ClosedSeen' /\ RunnerSeen'
    BY <1>t, <2>1 DEF Pass, input, Cases, LockRead, ClosedSeen, RunnerSeen, Checked, Writing
  <2>4. GraphSeen'
    BY <2>1, <2>2 DEF Pass, input, GraphSeen
  <2> QED BY <1>t, <2>1, <2>3, <2>4, PassKeeps DEF TypeOK, Cases, Preparing
<1>7. CASE CheckRunner
  <2>1. /\ Pass("runner", "report") /\ UNCHANGED <<lock, case>>
        /\ Runner \in flags => RunnerIsLocked(lock, disk.runner)
    BY <1>7 DEF CheckRunner
  <2>2. disk \in met
    BY <1>t DEF TypeOK
  <2>3. Cases' /\ LockRead' /\ ClosedSeen' /\ GraphSeen'
    BY <1>t, <2>1 DEF Pass, input, Cases, LockRead, ClosedSeen, GraphSeen, Checked, Writing
  <2>4. RunnerSeen'
    BY <2>1, <2>2 DEF Pass, input, RunnerSeen
  <2> QED BY <1>t, <2>1, <2>3, <2>4, PassKeeps DEF TypeOK, Cases, Preparing
<1>8. CASE ReadPolicy
  BY <1>1, <1>8 DEF ReadPolicy
<1>9. CASE ReadModules
  BY <1>1, <1>9 DEF ReadModules
<1> QED BY <1>2, <1>3, <1>4, <1>5, <1>6, <1>7, <1>8, <1>9

\* What ProgramNeverAhead asks of the report and the program of one scenario.
Agree(report, program) ==
    /\ program.run <= report.run
    /\ program.run = report.run /\ program.kind = "whole" =>
           report.kind = "whole" /\ report.holds = program.holds

\* The files of other scenarios stay as they are while one is written.
LEMMA OthersKeep ==
    ASSUME Inv, case.id \in Scenarios,
           NEW here, NEW to, NEW ext \in {"json", "go"}, NEW content,
           Write(here, <<case.id, ext>>, content, to),
           Agree(files'[<<case.id, "json">>], files'[<<case.id, "go">>])
    PROVE  ProgramNeverAhead'
<1> SUFFICES ASSUME NEW id \in Scenarios
             PROVE  Agree(files'[<<id, "json">>], files'[<<id, "go">>])
  BY DEF ProgramNeverAhead, Agree
<1>1. CASE id = case.id
  BY <1>1
<1>2. CASE id # case.id
  <2>1. /\ files' = [files EXCEPT ![<<case.id, ext>>] = content]
        /\ DOMAIN files = Paths
    BY DEF Write, Inv, TypeOK
  <2>2. <<id, "json">> # <<case.id, ext>> /\ <<id, "go">> # <<case.id, ext>>
    BY <1>2
  <2>3. files'[<<id, "json">>] = files[<<id, "json">>] /\ files'[<<id, "go">>] = files[<<id, "go">>]
    BY <2>1, <2>2, PathsOf
  <2>4. Agree(files[<<id, "json">>], files[<<id, "go">>])
    BY DEF Inv, ProgramNeverAhead, Agree
  <2> QED BY <2>3, <2>4
<1> QED BY <1>1, <1>2

LEMMA WriteStepKeeps ==
    ASSUME Inv, OpenReport \/ FillReport \/ OpenProgram \/ FillProgram
    PROVE  Inv'
<1> DEFINE J == <<case.id, "json">>
           G == <<case.id, "go">>
<1>t. TypeOK /\ Cases /\ Untouched /\ InFlight
  BY DEF Inv
<1>n. runs \in Nat
  <2>1. runs \in 0..MaxRuns
    BY <1>t DEF TypeOK
  <2> QED BY <2>1, BoundAssumption
<1>i. case.id \in Scenarios
  <2>1. at \in Checked
    BY DEF OpenReport, FillReport, OpenProgram, FillProgram, Write, Checked, Writing
  <2> QED BY <1>t, <2>1 DEF Cases
<1>p. J \in Paths /\ G \in Paths /\ J # G /\ DOMAIN files = Paths
  BY <1>t, <1>i DEF TypeOK, Paths
<1>r. /\ Partial.run = runs /\ Partial.kind = "partial"
      /\ \A value : Whole(value).run = runs /\ Whole(value).kind = "whole"
  BY DEF Partial, Whole
<1>e. /\ \A value : Whole(value)' = [run |-> runs', kind |-> "whole", holds |-> value]
      /\ Partial' = [run |-> runs', kind |-> "partial", holds |-> {}]
  BY DEF Whole, Partial
<1>1. CASE OpenReport
  <2>1. Write("report", J, Partial, "fill report")
    BY <1>1 DEF OpenReport
  <2>2. files'[J] = Partial /\ files'[G] = files[G] /\ files[G].run < runs
    BY <1>t, <1>p, <2>1 DEF Write, Untouched, Preparing
  <2>3. files[G].run \in 0..runs
    BY <1>t, <1>p DEF TypeOK
  <2>0. Agree(files'[J], files'[G])
    BY <1>n, <1>r, <2>2, <2>3 DEF Agree
  <2>4. ProgramNeverAhead'
    BY <1>i, <2>1, <2>0, OthersKeep
  <2>5. InFlight'
    BY <2>1, <2>2, <1>e DEF Write, InFlight, Partial
  <2> QED BY <1>r, <2>1, <2>4, <2>5, WriteKeeps DEF Checked, Writing
<1>2. CASE FillReport
  <2>1. Write("fill report", J, Whole(Evaluation), "program")
    BY <1>2 DEF FillReport
  <2>2. files'[J] = Whole(Evaluation) /\ files'[G] = files[G] /\ files[G].run < runs
    BY <1>t, <1>p, <2>1 DEF Write, InFlight
  <2>3. files[G].run \in 0..runs
    BY <1>t, <1>p DEF TypeOK
  <2>0. Agree(files'[J], files'[G])
    BY <1>n, <1>r, <2>2, <2>3 DEF Agree
  <2>4. ProgramNeverAhead'
    BY <1>i, <2>1, <2>0, OthersKeep
  <2>5. Evaluation' = Evaluation
    BY <2>1 DEF Write, Evaluation, Upstream
  <2>6. InFlight'
    BY <2>1, <2>2, <2>5, <1>e DEF Write, InFlight, Whole
  <2> QED BY <1>r, <2>1, <2>4, <2>6, WriteKeeps DEF Checked, Writing
<1>3. CASE OpenProgram
  <2>1. Write("program", G, Partial, "fill program")
    BY <1>3 DEF OpenProgram
  <2>2. files'[G] = Partial /\ files'[J] = files[J] /\ files[J] = Whole(Evaluation)
    BY <1>t, <1>p, <2>1 DEF Write, InFlight
  <2>0. Agree(files'[J], files'[G])
    BY <1>n, <1>r, <2>2 DEF Agree
  <2>3. ProgramNeverAhead'
    BY <1>i, <2>1, <2>0, OthersKeep
  <2>4. Evaluation' = Evaluation
    BY <2>1 DEF Write, Evaluation, Upstream
  <2>5. InFlight'
    BY <2>1, <2>2, <2>4, <1>e DEF Write, InFlight, Whole, Partial
  <2> QED BY <1>r, <2>1, <2>3, <2>5, WriteKeeps DEF Checked, Writing
<1>4. CASE FillProgram
  <2>1. Write("fill program", G, Whole(Evaluation), "exit")
    BY <1>4 DEF FillProgram
  <2>2. files'[G] = Whole(Evaluation) /\ files'[J] = files[J] /\ files[J] = Whole(Evaluation)
    BY <1>t, <1>p, <2>1 DEF Write, InFlight
  <2>0. Agree(files'[J], files'[G])
    BY <1>n, <1>r, <2>2 DEF Agree
  <2>3. ProgramNeverAhead'
    BY <1>i, <2>1, <2>0, OthersKeep
  <2>4. Evaluation' = Evaluation
    BY <2>1 DEF Write, Evaluation, Upstream
  <2>5. InFlight'
    BY <2>1, <2>2, <2>4, <1>e DEF Write, InFlight, Whole
  <2> QED BY <1>r, <2>1, <2>3, <2>5, WriteKeeps DEF Checked, Writing
<1> QED BY <1>1, <1>2, <1>3, <1>4

LEMMA EndKeeps ==
    ASSUME Inv, Refuse \/ Finish \/ FailWrite \/ Crash
    PROVE  Inv'
<1>1. CASE Refuse
  BY <1>1, StopKeeps DEF Refuse, Running, Preparing
<1>2. CASE Finish
  <2>1. CASE case.decision = "REFUTED"
    BY <1>2, <2>1, StopKeeps DEF Finish, Running
  <2>2. CASE case.decision # "REFUTED"
    BY <1>2, <2>2, StopKeeps DEF Finish, Running
  <2> QED BY <2>1, <2>2
<1>3. CASE FailWrite
  BY <1>3, StopKeeps DEF FailWrite, Running
<1>4. CASE Crash
  BY <1>4, StopKeeps DEF Crash
<1> QED BY <1>1, <1>2, <1>3, <1>4

LEMMA ReplaceKeeps == Inv /\ Replace => Inv'
<1> SUFFICES ASSUME Inv, Replace PROVE Inv'
  OBVIOUS
<1> USE DEF Replace
<1>t. TypeOK
  BY DEF Inv
<1>1. disk' \in [lock : Locks, graph : Graphs, runner : Runners]
  BY <1>t DEF TypeOK
<1>2. edits' \in 0..MaxEdits
  <2>1. edits \in 0..MaxEdits /\ edits < MaxEdits /\ edits' = edits + 1
    BY <1>t DEF TypeOK
  <2> QED BY <2>1, BoundAssumption
<1>3. TypeOK'
  BY <1>t, <1>1, <1>2 DEF TypeOK, Paths
<1>4. FilesAreFiles' /\ Cases' /\ Untouched'
  BY DEF Inv, FilesAreFiles, Cases, Untouched, Paths
<1>5. LockRead' /\ ClosedSeen' /\ GraphSeen' /\ RunnerSeen'
  BY DEF Inv, LockRead, ClosedSeen, GraphSeen, RunnerSeen
<1>6. InFlight'
  BY DEF Inv, InFlight, Whole, Partial, Evaluation, Upstream
<1>7. ExitIsBacked' /\ RefusalWritesNothing'
  BY DEF ExitIsBacked, RefusalWritesNothing, Running
<1>8. ProgramNeverAhead'
  BY DEF Inv, ProgramNeverAhead
<1> QED BY <1>3, <1>4, <1>5, <1>6, <1>7, <1>8 DEF Inv

LEMMA NextInv == Inv /\ [Next]_vars => Inv'
<1> SUFFICES ASSUME Inv, [Next]_vars PROVE Inv'
  OBVIOUS
<1>1. CASE Command
  BY <1>1, CheckKeeps, WriteStepKeeps, EndKeeps DEF Command
<1>2. CASE Start \/ FailWrite \/ Crash \/ Replace
  BY <1>2, StartKeeps, EndKeeps, ReplaceKeeps
<1>3. CASE UNCHANGED vars
  <2> USE <1>3 DEF vars
  <2>1. TypeOK' /\ FilesAreFiles' /\ Cases' /\ Untouched'
    BY DEF Inv, TypeOK, FilesAreFiles, Cases, Untouched, Paths
  <2>2. LockRead' /\ ClosedSeen' /\ GraphSeen' /\ RunnerSeen'
    BY DEF Inv, LockRead, ClosedSeen, GraphSeen, RunnerSeen
  <2>3. InFlight'
    BY DEF Inv, InFlight, Whole, Partial, Evaluation, Upstream
  <2>4. ExitIsBacked' /\ RefusalWritesNothing' /\ ProgramNeverAhead'
    BY DEF Inv, ExitIsBacked, RefusalWritesNothing, ProgramNeverAhead, Running, Whole, Paths
  <2> QED BY <2>1, <2>2, <2>3, <2>4 DEF Inv
<1> QED BY <1>1, <1>2, <1>3 DEF Next

LEMMA Invariant == Spec => []Inv
BY InitInv, NextInv, PTL DEF Spec

-----------------------------------------------------------------------------
(* The theorems. *)

\* Every variable keeps its type, and a run that writes knows its scenario.
THEOREM TypeCorrect == Spec => []TypeOK
<1>1. Inv => TypeOK
  BY DEF Inv
<1> QED BY <1>1, Invariant, PTL

\* An exit on a decision is backed by both files of this evaluation, after any
\* number of runs, crashes and failed writes; the refuting status is that of a
\* REFUTED evaluation and of no other.
THEOREM Backing == Spec => []ExitIsBacked
<1>1. Inv => ExitIsBacked
  BY DEF Inv
<1> QED BY <1>1, Invariant, PTL

\* A refused run leaves the directory as it was.
THEOREM Refusal == Spec => []RefusalWritesNothing
<1>1. Inv => RefusalWritesNothing
  BY DEF Inv
<1> QED BY <1>1, Invariant, PTL

\* A program never comes from a later run than the report next to it.
THEOREM Order == Spec => []ProgramNeverAhead
<1>1. Inv => ProgramNeverAhead
  BY DEF Inv
<1> QED BY <1>1, Invariant, PTL

\* What is reported of an upstream input was once in the run the locked file,
\* and of a linked graph once a closed one, however often and whenever the
\* files were replaced.
THEOREM Provenance == Spec => []ReportedWasLocked
<1>1. Inv => ReportedWasLocked
  <2> SUFFICES ASSUME Inv, at = "program" PROVE ReportedWasLocked
    BY DEF ReportedWasLocked
  <2> DEFINE reported == files[<<case.id, "json">>].holds.upstream
  <2>1. reported = {Locked(lock, name) : name \in flags}
    BY DEF Inv, InFlight, Whole, Evaluation, Upstream
  <2>2. flags \subseteq Optional
    BY DEF Inv, TypeOK
  <2>3. PICK d \in met : d.lock = lock
    BY DEF Inv, LockRead, Checked, Writing
  <2>4. LockAccepted(lock) /\ lock # Unreadable /\ lock \in Locks
    BY DEF Inv, LockRead, LockAccepted, TypeOK, Checked, Writing
  <2>5. \A name \in flags :
            /\ Locked(lock, name).name = name
            /\ Locked(lock, name) \in {lock.inputs[i] : i \in DOMAIN lock.inputs}
    BY <2>2, <2>4, LockedIsNamed
  <2>6. {entry.name : entry \in reported} = flags
    BY <2>1, <2>5
  <2>7. ASSUME NEW entry \in reported
        PROVE  \E e \in met :
                  \/ entry.name = Graph
                     /\ e.graph # Unreadable /\ e.graph.digest = entry.release.digest
                  \/ entry.name = Runner
                     /\ e.runner # Unreadable /\ e.runner.release = entry.release
    <3>1. PICK name \in flags : entry = Locked(lock, name)
      BY <2>1, <2>7
    <3>2. entry.name = name
      BY <2>5, <3>1
    <3>3. CASE name = Graph
      BY <3>1, <3>2, <3>3 DEF Inv, GraphSeen, GraphIsLocked, Checked, Writing
    <3>4. CASE name = Runner
      BY <3>1, <3>2, <3>4 DEF Inv, RunnerSeen, RunnerIsLocked, Checked, Writing
    <3> QED BY <2>2, <3>3, <3>4 DEF Optional
  <2>8. reported \subseteq {d.lock.inputs[i] : i \in DOMAIN d.lock.inputs}
    BY <2>1, <2>3, <2>5
  <2>9. Graph \in flags => \E e \in met : GraphClosed(e.graph)
    BY DEF Inv, ClosedSeen, Checked, Writing
  <2> QED BY <2>3, <2>4, <2>6, <2>7, <2>8, <2>9 DEF ReportedWasLocked
<1> QED BY <1>1, Invariant, PTL
=============================================================================
