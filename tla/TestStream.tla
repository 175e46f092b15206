----------------------------- MODULE TestStream -----------------------------
(***************************************************************************)
(* ParseGoTestJSON of internal/gooo/measure.go: the events that `go test   *)
(* -json' leaves in a file are counted line by line.                       *)
(*                                                                         *)
(* The writer is external.  Its packages run in parallel, so their events  *)
(* interleave; a test binary may die with tests still running, other tools *)
(* may write into the file, and the writer may be killed within a line.    *)
(*                                                                         *)
(*   event  [action, test, cached]: what happened, whether it names a      *)
(*          test, and whether its output says "(cached)"                   *)
(* A line that is not an event is Garbage; one that the scanner cannot     *)
(* take, because it is too long, is Endless.                               *)
(***************************************************************************)
EXTENDS Naturals, Sequences, FiniteSets

CONSTANTS
    Packages,
    Tests,     \* Tests[package]: the names of its tests
    MaxNoise   \* bound on the lines that are not events of a test

All == UNION {{p} \X Tests[p] : p \in Packages}
ASSUME TestsAssumption == IsFiniteSet(All)

VARIABLES
    state,     \* package -> test -> "idle", "running", "pass", "fail" or "skip"
    ended,     \* the packages that have ended
    file,      \* the lines written
    writing,
    next,      \* the line to read next, 0 before the file is opened
    metrics,
    outcome,   \* "none", "counted" or "error"
    noise

written == <<state, ended, file, writing, noise>>
reading == <<next, metrics, outcome>>
vars    == <<written, reading>>

Garbage == [action |-> "garbage", test |-> FALSE, cached |-> FALSE]
Endless == [action |-> "endless", test |-> FALSE, cached |-> FALSE]
Event(action, test, cached) == [action |-> action, test |-> test, cached |-> cached]

Zero == [total |-> 0, executed |-> 0, reused |-> 0, failed |-> 0, unknown |-> 0]

Init ==
    /\ state = [p \in Packages |-> [t \in Tests[p] |-> "idle"]]
    /\ ended = {} /\ file = <<>> /\ writing = TRUE /\ noise = 0
    /\ next = 0 /\ metrics = Zero /\ outcome = "none"

-----------------------------------------------------------------------------
(* The writer. *)

Emit(line) ==
    /\ writing /\ file' = Append(file, line)
    /\ UNCHANGED <<reading, writing>>

Becomes(p, t, from, to) ==
    /\ p \notin ended /\ state[p][t] = from
    /\ state' = [state EXCEPT ![p][t] = to]
    /\ UNCHANGED <<ended, noise>>

StartTest == \E p \in Packages : \E t \in Tests[p] :
    Becomes(p, t, "idle", "running") /\ Emit(Event("run", TRUE, FALSE))

EndTest == \E p \in Packages : \E t \in Tests[p], how \in {"pass", "fail", "skip"} :
    Becomes(p, t, "running", how) /\ Emit(Event(how, TRUE, FALSE))

\* The package ends with an event without a test.  It fails if a test has, or
\* if its binary died; one served from the test cache has passed.
EndPackage == \E p \in Packages \ ended, how \in {"pass", "fail", "skip"} :
    /\ how = "pass" => \A t \in Tests[p] : state[p][t] \in {"pass", "skip"}
    /\ how = "skip" => \A t \in Tests[p] : state[p][t] = "idle"
    /\ ended' = ended \cup {p}
    /\ Emit(Event(how, FALSE, FALSE))
    /\ UNCHANGED <<state, noise>>

\* Output of a package or a test, lines of other tools, lines without end.
Noise ==
    /\ noise < MaxNoise /\ noise' = noise + 1
    /\ \E line \in {Event("output", TRUE, FALSE), Event("output", FALSE, TRUE),
                    Garbage, Endless} : Emit(line)
    /\ UNCHANGED <<state, ended>>

\* The writer ends, or is killed: its last line may be torn.
EndWriting ==
    /\ writing /\ writing' = FALSE
    /\ file' \in {file, Append(file, Garbage)}
    /\ UNCHANGED <<reading, state, ended, noise>>

-----------------------------------------------------------------------------
(* The reader. *)

Open ==
    /\ ~writing /\ next = 0 /\ outcome = "none" /\ next' = 1
    /\ UNCHANGED <<written, metrics, outcome>>

FailOpen ==
    /\ ~writing /\ next = 0 /\ outcome = "none" /\ outcome' = "error"
    /\ UNCHANGED <<written, next, metrics>>

\* Mutant: events of a package are counted with those of its tests.
Counted_Packages(m, line) ==
    CASE line.action = "run"  -> [m EXCEPT !.total = @ + 1, !.executed = @ + 1]
      [] line.action = "fail" -> [m EXCEPT !.failed = @ + 1]
      [] line.action = "skip" \/ line = Garbage -> [m EXCEPT !.unknown = @ + 1]
      [] OTHER -> m

Counted(m, line) ==
    CASE line.action = "run" /\ line.test      -> [m EXCEPT !.total = @ + 1, !.executed = @ + 1]
      [] line.action = "fail" /\ line.test     -> [m EXCEPT !.failed = @ + 1]
      [] line.action = "output" /\ line.cached -> [m EXCEPT !.reused = @ + 1]
      [] (line.action = "skip" /\ line.test) \/ line = Garbage -> [m EXCEPT !.unknown = @ + 1]
      [] OTHER -> m

ReadLine ==
    /\ next \in DOMAIN file /\ outcome = "none" /\ file[next] # Endless
    /\ metrics' = Counted(metrics, file[next])
    /\ next' = next + 1
    /\ UNCHANGED <<written, outcome>>

\* Mutant: what was counted so far is returned with the error.
FailRead_Keeps ==
    /\ next > 0 /\ outcome = "none"
    /\ outcome' = "error"
    /\ UNCHANGED <<written, next, metrics>>

\* An endless line, or a read that fails: what was counted is thrown away.
FailRead ==
    /\ next > 0 /\ outcome = "none"
    /\ outcome' = "error" /\ metrics' = Zero
    /\ UNCHANGED <<written, next>>

EndOfFile ==
    /\ next = Len(file) + 1 /\ outcome = "none" /\ outcome' = "counted"
    /\ UNCHANGED <<written, next, metrics>>

Ended == outcome # "none" /\ UNCHANGED vars

Next ==
    \/ StartTest \/ EndTest \/ EndPackage \/ Noise \/ EndWriting
    \/ Open \/ FailOpen \/ ReadLine \/ FailRead \/ EndOfFile \/ Ended

Spec == Init /\ [][Next]_vars

-----------------------------------------------------------------------------
In(status) == Cardinality({pt \in All : state[pt[1]][pt[2]] = status})
Lines(line) == Cardinality({i \in DOMAIN file : file[i] = line})

TypeOK ==
    /\ \A p \in Packages : state[p] \in [Tests[p] -> {"idle", "running", "pass", "fail", "skip"}]
    /\ ended \subseteq Packages
    /\ next \in 0..Len(file) + 1
    /\ next > 0 => ~writing
    /\ DOMAIN metrics = DOMAIN Zero
    /\ outcome = "error" => metrics = Zero

\* Whatever the interleaving, and wherever the writer was killed, each test
\* that was started counts once, each that failed once more, and what remains
\* unknown are the skipped tests and the lines that are not events.  Tests of
\* one name in two packages count apart.
CountsAreOutcomes ==
    outcome = "counted" =>
        /\ metrics.total = Cardinality(All) - In("idle")
        /\ metrics.executed = metrics.total
        /\ metrics.failed = In("fail")
        /\ metrics.unknown = In("skip") + Lines(Garbage)
=============================================================================
