--------------------------- MODULE CompileCommand ---------------------------
(***************************************************************************)
(* compileCommand (cmd/gooo-incremental-module-compiler/main.go): one      *)
(* evaluation, from its files to a report and a program, run again and     *)
(* again into one output directory.                                        *)
(*                                                                         *)
(* The optional inputs are checked after the evaluation and before the     *)
(* first write; the linked graph is read twice, once for its content and   *)
(* once for its digest.  All files belong to others and may be replaced    *)
(* between any two steps.  A write is a truncation and a filling.          *)
(***************************************************************************)
EXTENDS OptionalInputs

CONSTANTS
    Scenarios,              \* the scenario identities in use
    Decisions,              \* what an evaluation can decide
    Locks, Graphs, Runners, \* what the three upstream files may hold
    MaxRuns, MaxEdits       \* bounds on the runs and on replaced files

ASSUME BoundAssumption == MaxRuns \in Nat /\ MaxEdits \in Nat
ASSUME LockAssumption ==
    \A l \in Locks : l = Unreadable \/ l.inputs \in Seq(LockedInputs)

VARIABLES
    disk,     \* what the upstream files hold now: [lock, graph, runner]
    at,       \* where the command is; "exited" when it is not running
    flags,    \* which optional inputs the run is given
    lock,     \* the lock it has read
    case,     \* the scenario identity and the decision, once known
    files,    \* the output directory
    exit,     \* how the last run ended
    runs, edits,
    met       \* for the specification: what the upstream files held in this run

input == <<disk, edits, met>>
vars  == <<disk, at, flags, lock, case, files, exit, runs, edits, met>>

Optional == {Graph, Runner}
Paths    == Scenarios \X {"json", "go"}
Nothing  == [run |-> 0, kind |-> "absent", holds |-> {}]
Partial  == [run |-> runs, kind |-> "partial", holds |-> {}]
Whole(value) == [run |-> runs, kind |-> "whole", holds |-> value]

\* report.Upstream: the locked inputs of the files that were given.
Upstream == {Locked(lock, name) : name \in flags}

Running == at # "exited"
NoCase  == [id |-> "none", decision |-> "none"]

Init ==
    /\ disk \in [lock : Locks, graph : Graphs, runner : Runners]
    /\ at = "exited" /\ exit = "none"
    /\ flags = {} /\ lock = Unreadable /\ case = NoCase
    /\ files = [path \in Paths |-> Nothing]
    /\ runs = 0 /\ edits = 0
    /\ met = {disk}

-----------------------------------------------------------------------------
(* Reading and checking. *)

Start ==
    /\ ~Running /\ runs < MaxRuns
    /\ flags' \in SUBSET Optional
    /\ at' = "policy" /\ exit' = "none"
    /\ lock' = Unreadable /\ case' = NoCase
    /\ runs' = runs + 1
    /\ met' = {disk}
    /\ UNCHANGED <<disk, files, edits>>

\* A step that only checks passes control on.
Pass(here, to) ==
    /\ at = here /\ at' = to
    /\ UNCHANGED <<input, flags, files, exit, runs>>

ReadPolicy == Pass("policy", "modules") /\ UNCHANGED <<lock, case>>

ReadModules == Pass("modules", "scenario") /\ UNCHANGED <<lock, case>>

\* Mutant: the identity in the scenario is not looked at.
ReadScenario_Unnamed == Pass("scenario", "evaluate") /\ UNCHANGED <<lock, case>>

ReadScenario ==
    /\ Pass("scenario", "evaluate")
    /\ \E id \in Scenarios : case' = [case EXCEPT !.id = id]
    /\ UNCHANGED lock

\* Mutant: the report is opened before the optional inputs are checked.
Evaluate_Opens ==
    /\ at = "evaluate" /\ at' = "lock"
    /\ \E decision \in Decisions : case' = [case EXCEPT !.decision = decision]
    /\ files' = [files EXCEPT ![<<case.id, "json">>] = Partial]
    /\ UNCHANGED <<input, flags, lock, exit, runs>>

Evaluate ==
    /\ Pass("evaluate", "lock")
    /\ \E decision \in Decisions : case' = [case EXCEPT !.decision = decision]
    /\ UNCHANGED lock

ReadLock ==
    /\ Pass("lock", "graph")
    /\ LockAccepted(disk.lock)
    /\ lock' = disk.lock
    /\ UNCHANGED case

\* The first reading of the linked graph, for its content.
CheckGraph ==
    /\ Pass("graph", "digest") /\ UNCHANGED <<lock, case>>
    /\ Graph \in flags => GraphClosed(disk.graph)

\* The second reading, for its digest.
CheckDigest ==
    /\ Pass("digest", "runner") /\ UNCHANGED <<lock, case>>
    /\ Graph \in flags => GraphIsLocked(lock, disk.graph)

CheckRunner ==
    /\ Pass("runner", "report") /\ UNCHANGED <<lock, case>>
    /\ Runner \in flags => RunnerIsLocked(lock, disk.runner)

\* The process ends, and what it knew is gone; case is kept to speak about it.
Stop(how) ==
    /\ at' = "exited" /\ exit' = how
    /\ flags' = {} /\ lock' = Unreadable /\ met' = {disk}
    /\ UNCHANGED <<disk, edits, case, files, runs>>

\* fatalf: a file is missing, malformed, or not the one that is locked.  The
\* policy, the modules, the scenario and its evaluation can fail at any time.
Refuse ==
    /\ \/ at \in {"policy", "modules", "scenario", "evaluate"}
       \/ at = "lock"   /\ ~LockAccepted(disk.lock)
       \/ at = "graph"  /\ Graph \in flags /\ ~GraphClosed(disk.graph)
       \/ at = "digest" /\ Graph \in flags /\ ~GraphIsLocked(lock, disk.graph)
       \/ at = "runner" /\ Runner \in flags /\ ~RunnerIsLocked(lock, disk.runner)
    /\ Stop("refused")

-----------------------------------------------------------------------------
(* Writing. *)

Write(here, path, content, to) ==
    /\ at = here /\ at' = to
    /\ files' = [files EXCEPT ![path] = content]
    /\ UNCHANGED <<input, flags, lock, case, exit, runs>>

Evaluation == [case |-> case, upstream |-> Upstream]

OpenReport == Write("report", <<case.id, "json">>, Partial, "fill report")

\* Mutant: the error of a write that filled nothing is ignored.
FillReport_ErrorIgnored ==
    \/ Write("fill report", <<case.id, "json">>, Partial, "program")
    \/ Write("fill report", <<case.id, "json">>, Whole(Evaluation), "program")

FillReport == Write("fill report", <<case.id, "json">>, Whole(Evaluation), "program")

\* Mutant: the command does not wait for its second write.
OpenProgram_Exits == Write("program", <<case.id, "go">>, Partial, "exit")

OpenProgram == Write("program", <<case.id, "go">>, Partial, "fill program")
FillProgram == Write("fill program", <<case.id, "go">>, Whole(Evaluation), "exit")

FailWrite == at \in {"report", "fill report", "program", "fill program"} /\ Stop("failed")

Finish == at = "exit" /\ Stop(IF case.decision = "REFUTED" THEN "refuted" ELSE "ok")

\* External: the process is killed; somebody replaces an upstream file while
\* it runs (between two runs nobody would notice).
Crash == Running /\ Stop("killed")

Replace ==
    /\ Running /\ edits < MaxEdits
    /\ \/ \E l \in Locks   : disk' = [disk EXCEPT !.lock = l]
       \/ \E g \in Graphs  : disk' = [disk EXCEPT !.graph = g]
       \/ \E r \in Runners : disk' = [disk EXCEPT !.runner = r]
    /\ disk' # disk
    /\ edits' = edits + 1
    /\ met' = met \cup {disk'}
    /\ UNCHANGED <<at, flags, lock, case, files, exit, runs>>

Command ==
    \/ ReadPolicy \/ ReadModules \/ ReadScenario \/ Evaluate
    \/ ReadLock \/ CheckGraph \/ CheckDigest \/ CheckRunner \/ Refuse
    \/ OpenReport \/ FillReport \/ OpenProgram \/ FillProgram \/ Finish

Next == Command \/ Start \/ FailWrite \/ Crash \/ Replace

Spec == Init /\ [][Next]_vars

-----------------------------------------------------------------------------
TypeOK ==
    /\ disk \in [lock : Locks, graph : Graphs, runner : Runners]
    /\ disk \in met
    /\ at \in {"policy", "modules", "scenario", "evaluate", "lock", "graph", "digest",
               "runner", "report", "fill report", "program", "fill program", "exit", "exited"}
    /\ exit \in {"none", "ok", "refuted", "refused", "failed", "killed"}
    /\ flags \subseteq Optional
    /\ lock \in Locks \cup {Unreadable}
    /\ at \in {"report", "fill report", "program", "fill program", "exit"} =>
          case.id \in Scenarios /\ case.decision \in Decisions
    /\ DOMAIN files = Paths
    /\ \A path \in Paths : files[path].run \in 0..runs
    /\ runs \in 0..MaxRuns /\ edits \in 0..MaxEdits

\* A run that exits on its decision, with the status of a refuted evaluation
\* or with 0, has left a whole report and a whole program of its own, both of
\* one evaluation.  The refuting status is for REFUTED alone; 0 stands for
\* CLOSED and for UNKNOWN alike, so the report has to tell the two apart.
ExitIsBacked ==
    ~Running /\ exit \in {"ok", "refuted"} =>
        /\ \A ext \in {"json", "go"} :
              LET file == files[<<case.id, ext>>]
              IN  file = Whole(file.holds) /\ file.holds.case = case
        /\ files[<<case.id, "go">>] = files[<<case.id, "json">>]
        /\ (exit = "refuted") = (case.decision = "REFUTED")

\* A run that refuses one of its inputs, the optional ones included, has
\* written nothing: what an earlier run left is as it was.
RefusalWritesNothing ==
    ~Running /\ exit = "refused" => \A path \in Paths : files[path].run < runs

\* An upstream input is reported only of a file that, at some moment of the
\* run that reports it, was the locked one, whatever was replaced meanwhile;
\* a linked graph is reported only if, at some moment, possibly another, the
\* file held a closed one; and each input that was given is reported.
ReportedWasLocked ==
    at = "program" =>
        LET reported == files[<<case.id, "json">>].holds.upstream
        IN  /\ {entry.name : entry \in reported} = flags
            /\ Graph \in flags => \E d \in met : GraphClosed(d.graph)
            /\ \A entry \in reported : \E d \in met :
                  \/ entry.name = Graph
                     /\ d.graph # Unreadable /\ d.graph.digest = entry.release.digest
                  \/ entry.name = Runner
                     /\ d.runner # Unreadable /\ d.runner.release = entry.release
            /\ \E d \in met : d.lock # Unreadable
                  /\ reported \subseteq {d.lock.inputs[i] : i \in DOMAIN d.lock.inputs}

\* A program is never newer than the report next to it, and one of the same
\* run comes with the whole report of the same evaluation.
ProgramNeverAhead ==
    \A id \in Scenarios :
        LET report  == files[<<id, "json">>]
            program == files[<<id, "go">>]
        IN  /\ program.run <= report.run
            /\ program.run = report.run /\ program.kind = "whole" =>
                   report.kind = "whole" /\ report.holds = program.holds
=============================================================================
