---------------------------- MODULE Conformance ----------------------------
(***************************************************************************)
(* conformanceCommand (cmd/gooo-incremental-module-compiler/main.go): the  *)
(* conformance command evaluates the selected scenarios of a manifest one  *)
(* by one, writes a report and a program for each as it goes, and writes   *)
(* the report of the corpus last.  It may run again into an output         *)
(* directory that an earlier run, finished or not, left behind.            *)
(*                                                                         *)
(* os.WriteFile truncates the file, then fills it: two steps, so a crash   *)
(* or a full disk between them leaves a partial file.  Fixtures are read   *)
(* case by case and may be edited while the command runs.                  *)
(***************************************************************************)
EXTENDS Naturals, Sequences, FiniteSets

CONSTANTS
    Manifests,   \* the sequences of [name, expected, input, selected] in use
    Verdicts,    \* what evaluating a fixture can yield, "error" included
    MaxRuns,     \* bound on the number of runs
    MaxEdits     \* bound on the number of fixture edits

\* An entry of a manifest: ManifestScenario.
Entries == [name : STRING, expected : STRING, input : STRING, selected : BOOLEAN]

\* The corpus report is conformance.json: a scenario of that name would be
\* written to the same file.  The fixed corpus has none.
ASSUME ManifestAssumption ==
    \A m \in Manifests :
        m \in Seq(Entries) /\ \A i \in DOMAIN m : m[i].name # "conformance"

ASSUME BoundAssumption == MaxRuns \in Nat /\ MaxEdits \in Nat

Inputs == UNION {{m[i].input : i \in DOMAIN m} : m \in Manifests}

VARIABLES
    fixture,    \* fixture[d]: what evaluating input directory d yields now
    manifest,   \* the manifest of the run
    at,         \* where the command is; "exited" when it is not running
    next,       \* index of the next manifest entry
    cases,      \* corpus.Cases: what the run has evaluated, in order
    decision,   \* corpus.Decision
    files,      \* the output directory: path -> content
    exit,       \* how the last run ended
    runs, edits \* the number of runs started, of fixtures edited

vars == <<fixture, manifest, at, next, cases, decision, files, exit, runs, edits>>

\* Paths of the output directory.
Report(name)  == <<name, "json">>
Program(name) == <<name, "go">>
Corpus        == <<"conformance", "json">>

Names == UNION {{m[i].name : i \in DOMAIN m} : m \in Manifests}
Paths == {Report(name) : name \in Names} \cup {Program(name) : name \in Names} \cup {Corpus}

\* A content is what is in a file and the run that put it there.
Absent        == [run |-> 0, kind |-> "absent", holds |-> <<>>]
Partial       == [run |-> runs, kind |-> "partial", holds |-> <<>>]
Whole(value)  == [run |-> runs, kind |-> "whole", holds |-> value]

Selected(m) == SelectSeq(m, LAMBDA item : item.selected)

Running == at # "exited"
Item    == manifest[next]
Last    == cases[Len(cases)]

-----------------------------------------------------------------------------
Init ==
    /\ fixture \in [Inputs -> Verdicts]
    /\ manifest \in Manifests
    /\ at = "exited"
    /\ next = 1
    /\ cases = <<>>
    /\ decision = "CLOSED"
    /\ files = [path \in Paths |-> Absent]
    /\ exit = "none"
    /\ runs = 0 /\ edits = 0

\* Mutant: a run goes on where the last one stopped.
Start_Resumes ==
    /\ ~Running /\ runs < MaxRuns
    /\ manifest' \in Manifests
    /\ at' = "loop"
    /\ exit' = "none"
    /\ runs' = runs + 1
    /\ UNCHANGED <<fixture, next, cases, decision, files, edits>>

\* The policy, the manifest and the optional inputs have been read.  A run that
\* is refused before writes nothing and is left out, as one that is killed
\* before its first case would be.
Start ==
    /\ ~Running /\ runs < MaxRuns
    /\ manifest' \in Manifests
    /\ at' = "loop"
    /\ next' = 1
    /\ cases' = <<>>
    /\ decision' = "CLOSED"
    /\ exit' = "none"
    /\ runs' = runs + 1
    /\ UNCHANGED <<fixture, files, edits>>

Skip ==
    /\ at = "loop" /\ next <= Len(manifest)
    /\ ~Item.selected
    /\ next' = next + 1
    /\ UNCHANGED <<fixture, manifest, at, cases, decision, files, exit, runs, edits>>

\* Mutant: only the last case decides the corpus.
EvaluateCase_LastDecides ==
    /\ at = "loop" /\ next <= Len(manifest)
    /\ Item.selected
    /\ LET verdict == fixture[Item.input]
       IN  /\ verdict # "error"
           /\ cases' = Append(cases, [name |-> Item.name, decision |-> verdict])
           /\ decision' = IF verdict = Item.expected THEN "CLOSED" ELSE "REFUTED"
    /\ at' = "report"
    /\ UNCHANGED <<fixture, manifest, next, files, exit, runs, edits>>

\* Mutant: a case takes the place of an earlier one of its name.
EvaluateCase_ByName ==
    /\ at = "loop" /\ next <= Len(manifest)
    /\ Item.selected
    /\ LET verdict == fixture[Item.input]
           others  == SelectSeq(cases, LAMBDA done : done.name # Item.name)
       IN  /\ verdict # "error"
           /\ cases' = Append(others, [name |-> Item.name, decision |-> verdict])
           /\ decision' = IF verdict = Item.expected THEN decision ELSE "REFUTED"
    /\ at' = "report"
    /\ UNCHANGED <<fixture, manifest, next, files, exit, runs, edits>>

\* Read the fixture, evaluate it, and compare with what is expected of it.
EvaluateCase ==
    /\ at = "loop" /\ next <= Len(manifest)
    /\ Item.selected
    /\ LET verdict == fixture[Item.input]
       IN  /\ verdict # "error"
           /\ cases' = Append(cases, [name |-> Item.name, decision |-> verdict])
           /\ decision' = IF verdict = Item.expected THEN decision ELSE "REFUTED"
    /\ at' = "report"
    /\ UNCHANGED <<fixture, manifest, next, files, exit, runs, edits>>

\* Truncate the file of a write, and go on to fill it.
Open(here, path, filling) ==
    /\ at = here
    /\ files' = [files EXCEPT ![path] = Partial]
    /\ at' = filling
    /\ UNCHANGED <<fixture, manifest, next, cases, decision, exit, runs, edits>>

Fill(filling, path, value, then) ==
    /\ at = filling
    /\ files' = [files EXCEPT ![path] = Whole(value)]
    /\ at' = then
    /\ UNCHANGED <<fixture, manifest, cases, decision, exit, runs, edits>>

\* Mutant: the error of a write that filled nothing is ignored.
FillReport_ErrorIgnored ==
    \/ Fill("report open", Report(Last.name), <<Last>>, "program") /\ UNCHANGED next
    \/ /\ at = "report open" /\ at' = "program"
       /\ UNCHANGED <<fixture, manifest, next, cases, decision, files, exit, runs, edits>>

OpenReport  == Open("report", Report(Last.name), "report open")
FillReport  == Fill("report open", Report(Last.name), <<Last>>, "program") /\ UNCHANGED next
OpenProgram == Open("program", Program(Last.name), "program open")
FillProgram == Fill("program open", Program(Last.name), <<Last>>, "loop") /\ next' = next + 1

\* Mutant: the loop ends one entry early.
FinishLoop_Early ==
    /\ at = "loop" /\ next >= Len(manifest)
    /\ at' = "corpus"
    /\ UNCHANGED <<fixture, manifest, next, cases, decision, files, exit, runs, edits>>

\* The loop is over.  Were the count compared here ever to disagree, the code
\* would give up; there is no step for it, and RunsEnd shows that none is due.
FinishLoop ==
    /\ at = "loop" /\ next > Len(manifest)
    /\ Len(cases) = Len(Selected(manifest))
    /\ at' = "corpus"
    /\ UNCHANGED <<fixture, manifest, next, cases, decision, files, exit, runs, edits>>

OpenCorpus == Open("corpus", Corpus, "corpus open")
FillCorpus == Fill("corpus open", Corpus, cases, "exit") /\ UNCHANGED next

Stop(how) ==
    /\ at' = "exited"
    /\ exit' = how
    /\ UNCHANGED <<fixture, manifest, next, cases, decision, files, runs, edits>>

Finish == at = "exit" /\ Stop(IF decision = "REFUTED" THEN "refuted" ELSE "ok")

\* fatalf: an input cannot be read or evaluated.
FatalInput ==
    /\ at = "loop" /\ next <= Len(manifest)
    /\ Item.selected /\ fixture[Item.input] = "error"
    /\ Stop("fatal")

\* fatalf: a write fails, before or after the file is truncated.
FatalWrite ==
    /\ at \in {"report", "report open", "program", "program open", "corpus", "corpus open"}
    /\ Stop("fatal")

\* The process is killed.
Crash == Running /\ Stop("killed")

\* External: somebody edits the fixtures.
EditFixture ==
    /\ edits < MaxEdits
    /\ \E d \in Inputs, verdict \in Verdicts :
          verdict # fixture[d] /\ fixture' = [fixture EXCEPT ![d] = verdict]
    /\ edits' = edits + 1
    /\ UNCHANGED <<manifest, at, next, cases, decision, files, exit, runs>>

Command ==
    \/ Skip \/ EvaluateCase \/ OpenReport \/ FillReport \/ OpenProgram \/ FillProgram
    \/ FinishLoop \/ OpenCorpus \/ FillCorpus \/ Finish \/ FatalInput

Next == Command \/ Start \/ FatalWrite \/ Crash \/ EditFixture

Spec == Init /\ [][Next]_vars

\* The command is one process that waits for nobody: it takes its next step.
FairSpec == Spec /\ WF_vars(Command)

-----------------------------------------------------------------------------
TypeOK ==
    /\ fixture \in [Inputs -> Verdicts]
    /\ manifest \in Manifests
    /\ at \in {"exited", "loop", "report", "report open", "program", "program open",
               "corpus", "corpus open", "exit"}
    /\ next \in 1..Len(manifest) + 1
    /\ DOMAIN files = Paths
    /\ \A path \in Paths : files[path].run \in 0..runs
    /\ decision \in {"CLOSED", "REFUTED"}
    /\ exit \in {"none", "ok", "refuted", "fatal", "killed"}
    /\ runs \in 0..MaxRuns /\ edits \in 0..MaxEdits

\* Where the case of entry i stands in the corpus, if i is selected.
Place(m, i) == Cardinality({j \in 1..i : m[j].selected})

\* Once the command has exited by itself, the directory holds a whole corpus
\* report of this very run, with one case per selected scenario, and under
\* each name the whole report and program of that name's last case, whatever
\* earlier runs left behind and whatever was edited meanwhile.
ExitMeansComplete ==
    ~Running /\ exit \in {"ok", "refuted"} =>
        /\ files[Corpus] = Whole(cases)
        /\ Len(cases) = Place(manifest, Len(manifest))
        /\ \A i \in DOMAIN manifest : manifest[i].selected =>
              cases[Place(manifest, i)].name = manifest[i].name
        /\ \A i \in DOMAIN cases :
              (\A j \in DOMAIN cases : j > i => cases[j].name # cases[i].name) =>
                  \A path \in {Report(cases[i].name), Program(cases[i].name)} :
                      files[path] = Whole(<<cases[i]>>)

\* Success means that every selected scenario got the decision expected of it.
SuccessMeansExpected ==
    ~Running /\ exit = "ok" =>
        \A i \in DOMAIN manifest : manifest[i].selected =>
            cases[Place(manifest, i)].decision = manifest[i].expected

\* A whole corpus report never runs ahead of the cases it lists: their files
\* come from the same run, or from a later one that has begun to replace them.
CorpusNeverAhead ==
    files[Corpus].kind = "whole" =>
        \A i \in DOMAIN files[Corpus].holds :
            LET name == files[Corpus].holds[i].name
            IN  \A path \in {Report(name), Program(name)} :
                    /\ files[path].run >= files[Corpus].run
                    /\ files[path].run = files[Corpus].run => files[path].kind = "whole"

\* Every run ends, by itself, by a failure that has its own step, or killed:
\* none is left at the end of its loop with a count of cases that disagrees
\* with the manifest, whatever is skipped and whatever names are repeated.
RunsEnd == Running ~> ~Running
=============================================================================
