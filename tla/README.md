# A specification of the gooo incremental module compiler

TLA+ modules, TLC runs and TLAPS proofs about the program in `../src`. Paths
below are relative to it. The program reads `.gooo` module declarations and a
scenario (changes, caches, test results, an oracle, measurements), plans a cold
and a warm run, and decides CLOSED, UNKNOWN or REFUTED. It compiles nothing
itself: its product is the decision, so the question everywhere is what a
decision is worth.

## Inventory

| Part | State | Operations | Talks to | What makes it correct |
|---|---|---|---|---|
| Invalidation, `evaluate.go` `computeAffected` | `byID`, `reverse`, `seen`, `queue` | read a change, visit a module | appends unknown evidence | returns, on every graph, exactly the least set closed under semantic dependents |
| Module graph, `evaluate.go` `buildGraph`, `digest.go`, `validate.go` | `byID`, `exportOwners`, `seenTests`, edges | resolve declarations against one another | appends evidence, gives the graph to EmitGo | a graph that closes names exact content; it is acyclic |
| Run planning, `runMode` | maps of caches and observations, plans, lists | plan modules, plan tests | reads the affected set, appends evidence | reuse is exact, lists add up, nothing else is redone |
| Oracle, `checkOracle` | `oracleByID` | compare one run | reads a run, appends evidence | nothing closes unconfirmed |
| Pipeline, `Evaluate` | shared `evaluationState` | twelve stages | all of the above | the decision accounts for all evidence, whichever stage found it |
| `compile` command, `main.go` | none | one evaluation | files, optional inputs | exit status matches the report |
| `conformance` command, `main.go` | cases, decision, output directory | loop over a manifest | Evaluate, files | an exit status is backed by complete files |
| Optional inputs, `upstream.go` | none | check files against a lock | files | an accepted file is the locked one |
| `.gooo` parser, `parser.go` | lines | parse | files | nothing declared twice is silently lost |
| Policy gate, `internal/gooo/contract.go`, `github.go` | an observation | API calls, a verdict | GitHub | a failed call is never an approval |
| Plan, measurement, evidence, `internal/gooo` | counts | format, count | CI | counts are those of the event stream |

There are no goroutines. The hard behaviours are the interplay of checks made
in different stages on shared evidence; several generations of declarations,
digests and cache entries meeting in one evaluation; graphs nobody drew; lists
with repeated keys; and a command that writes many files without atomicity. The
file `PROJECT.json` lists each hazard at its line.

## Modules

| Module | Models | Correspondence |
|---|---|---|
| `AffectedSet` | `computeAffected` as pure operators | `Known` is the key set of `byID`, `SemanticDependents` the semantic entries of `reverse`, `Affected` the result by its definition as a least set |
| `AffectedSpec` | what its callers rely on | one step from arguments to result |
| `Invalidation` | `computeAffected` step by step | `seen`, `queue`, `next` are the code's; `ReadChange` is one iteration over changes, `Visit` one iteration over the queue |
| `Declarations` | records, digests, key lists, evidence | a digest is an injective wrapping of a value; lists the code sorts are sets; evidence is a pair of a reason and a subject |
| `ModuleGraph` | `buildGraph` | one operator per check |
| `RunPlan` | `runMode`, `checkOracle` | positions of modules and tests are slots, so the size of a set is the count in the report |
| `Evaluate` | `Evaluate` | `stage` is the program counter; one action per stage, `unknowns` and `refutations` are `evaluationState` |
| `IncrementalBuild` | evaluations one after another | adds an author, a tool chain, a caller and a cache, all external |
| `Conformance` | `conformanceCommand` | `at` is the program counter, `files` the output directory; each write is a truncation and a filling |
| `DeclarationParser` | `ParsePolicyFile`, `ParseModuleFile`, `ParseConformanceFile` with the validation that follows them | `inside` and `seenHeader` are the code's; one action per branch of the line loop; a line is its tokens |
| `CommandLine` | `modulePaths` | which files are the modules of an evaluation |
| `OptionalInputs` | the checks of `ValidateOptionalInputs` | one operator per check; `Locked` is `byName`, which keeps the last input of a name |
| `CompileCommand` | `compileCommand` | `at` is the program counter; each check of `OptionalInputs` is a step, the second read of the graph (`CheckDigest`) a step of its own; the upstream files (`disk`) are replaced by others |
| `Contract` | `contract.go` | `Valid` is `Validate`, `Verdict` is `Evaluate`, `CasesHold` the rehearsal `ValidateCanonicalCases` |
| `PolicyGate` | `observe` and `observeRuleset` of `github.go`, with loading, planning and judging around them | one action per API call and one for its failure; `todo` holds the listed rulesets not yet read |
| `TestStream` | `ParseGoTestJSON` of `measure.go` | `Counted` is one line of the loop; the writer of the events is external |
| `InvalidationProofs`, `EvaluateProofs`, `IncrementalBuildProofs`, `ConformanceProofs`, `CompileCommandProofs`, `PolicyGateProofs`, `TestStreamProofs`, `DeclarationParserProofs` | theorems about the module each is named after | |
| `MC...` | instances for TLC | |

How they compose: `Invalidation` implements `AffectedSpec`; `ModuleGraph` and
`RunPlan` are extended by `Evaluate`, which `IncrementalBuild` extends with the
world around the compiler; `CompileCommand` extends `OptionalInputs`,
`PolicyGate` extends `Contract`.

`Evaluate` takes the affected set from `AffectedSet` in one step; that the walk
yields it is what `Invalidation` implements `AffectedSpec` says.

Decisions of modelling worth knowing:

- An identity declared twice is resolved to its first declaration by
  `buildGraph` (`FirstDecl`) and to its last by `computeAffected` (`LastDecl`),
  as in the code.
- `allTests` sorts by test id with an unstable sort, and `decisionForTest` takes
  the first plan entry of an id. When two modules own one id, any of them may
  come first: `FirstSlots` is that choice. The code looks the id up while the
  plan is being filled; the entry it then finds is the one of the first slot, as
  a slot always has its own entry by then.
- `Invalidation` lets the dependents of one module join the queue in any order,
  the code's order among them. The result is proved not to depend on it.
- The decision the code copies into each of the two runs is that of the whole
  evaluation, and is not repeated in the model. Wording (plan reasons, the six
  fields of unknown evidence beyond reason and subject) is left out.
- `Evaluate` is only handed declarations that passed `validateModuleDeclaration`
  (`WellFormed`). The instances assert it of theirs.
- In `DeclarationParser` the size of a policy is the constant `Denominator`, 12
  in the code, and cells are told apart only as far as `validatePolicy` does.
  The characters of a line, and the patterns names and numbers must match, are
  left out: a line `tokenize` refuses is `Broken`.
- In `CompileCommand` reading policy, modules and scenario and evaluating them
  may each be refused; what an evaluation decides is any decision. A scenario
  identity decides which two files are written. Only REFUTED has an exit status
  of its own; CLOSED and UNKNOWN both exit with 0 (`main.go:69`).
- The linked graph is read once for its content and once for its digest
  (`upstream.go:58`). The code allows the content of one file to be joined to the
  digest of another; `ReportedWasLocked` says that each was there at some moment
  of the run, and that is all that holds when the file is replaced in between.
- What `Evaluate` accepts (`Acceptable`) leaves out the schema and the identity
  of the scenario, malformed digests and the counts and memory of the
  measurements; a scenario refused for one of these ends like any that is
  refused. `TEST_OBSERVATION_UNTYPED` (`evaluate.go:319`) is not modelled: no
  observation that passed `validateScenarioInput` causes it.
- The status in the generated program is that of the graph alone. It may say
  CLOSED beside a decision REFUTED, when a run or the oracle refutes; no document
  says it should not, so `EmittedWithinDecision` bounds it from the other side
  and asks that the difference come from a later stage.
- An edit of `IncrementalBuild` changes what a module exports and nothing else:
  its edges, rules and release stay. Digests, of the module and in the edges that
  name it, are renewed in steps of their own.
- `PolicyGate` runs load, plan, observe and judge in the order their types
  imply: the caller that strings them together is not in the repository. What an
  administrator does to the rulesets between two calls is the action `Change`.
  That `BuildPlan` refuses an empty target (`plan.go:50`) is left out: like a
  contract that is rejected, it leaves no plan to observe anything for.
- `failed`, `met` and `steady` of `PolicyGate` and `met` of `CompileCommand` are
  history variables: no guard reads them.
- In `Conformance` evaluating a fixture is one step with any verdict. Reading
  its files is not split: an edit between two of the reads yields some verdict,
  and the model allows every one. A run refused before its first case (`main.go:87`)
  has written nothing and is left out.

## Runs

| Run | Instance | Shows |
|---|---|---|
| `invalidation` | all graphs of three modules over absent, semantic and documentation edges, cycles included; self dependencies, undeclared targets and rules, one identity declared twice with rules that contradict; change lists with repetitions, unknown modules and unsupported kinds | the walk keeps its frontier, marks nothing spurious, visits each module once, returns, and implements `AffectedSpec` |
| `evaluate_graph` | two identities linked in every wrong way: missing targets, empty, outdated and exact digests, wrong releases, undeclared rules, self edges, shared exports and tests, duplicates, edits without a new digest | a closed graph is acyclic; the status in the generated program is no worse than the decision, says CLOSED only of a graph whose every edge closed, and is better than the decision only for evidence of a later stage |
| `evaluate_plan` | two modules, semantic and documentation edges; caches and test caches that are empty, exact, stale, repeated, mutable or of other tools; observations that pass, fail, miss or repeat; oracles that agree, disagree, miss, are not independent, not sealed or tampered with; missing digests, equal and slower measurements, inputs that are refused | what CLOSED promises: exact reuse, confirmed tests, no needless work; improvements are earned; lists add up |
| `incremental_build` | a chain of three modules, three evaluations, two edits, two tool chains; any list of changes and any part of the cache at each evaluation; digests and edges renewed one by one in any order or not at all | a closed evaluation never reuses an artifact a fresh compilation would not make; a careful caller is never refused |
| `conformance` | two manifests, one with a skipped entry and a name used twice; two runs into one directory, one edit of a fixture; a crash, a failing write or a fatal input at any step | an exit status is backed by a complete directory of this run; success by the expected decisions; a corpus report never runs ahead of its cases; every run ends, and none over the count of its cases |
| `declaration_parser` | all files of up to 8 policy, 6 module and 8 manifest lines, drawn from headers, good and doubtful records (a repeated key, an empty value, a key without a value, a twin with another content, an unknown record), closing braces with and without more tokens, blank and broken lines; a read may fail at any line | an accepted file is one complete body; once a file could end, no line changes what it declares; what a record says stands in the declaration, unless a later `unknown_fields`, `denominator` or `generation` record supersedes the whole record, or the key is one no record has |
| `compile_command` | any decision, UNKNOWN included; both optional inputs given or not; locks that are good, incomplete, unreadable, or pin the graph twice; graphs that are the locked one, another one, not closed; runners that are the locked one, of another commit, not immutable; two runs, one file replaced at any step, crashes and failing writes | a status stands for whole files of this run; a refusal writes nothing; what is reported was the locked file at some moment of the run, and a linked graph was closed at some moment; a program is never newer than its report |
| `policy_gate` | ten contracts, right, wrong in one clause, or with cases missing, doubled or differing; every trigger; two rulesets that protect or just fail to; two changes to them between calls; every call may fail | approval only of what was observed, refutation exactly of what an answer shows, no false alarm, complete records of what is unknown |
| `test_stream` | two packages with a test of one name, two stray lines; events interleaved, binaries that die, a writer killed within a line, a read that fails; about 8 million states | the counts returned are those of the tests |
| `duplicate_test` | two modules that own one test id | a finding |
| `empty_modules` | a list of module paths of blanks, and an empty directory | a finding |
| `bootstrap_count` | `policy_gate` on repositories with no, one or two bootstrap commits | a finding |

Why the bounds are enough. The checks of the graph and of the plan relate a
module to its direct targets and to cache entries of its own name, so two or
three modules show every pair, and a chain of three the one transitive case;
cycles, self edges and diamonds fit into three nodes. Lists are read by first
entry per key, so two entries of one key suffice. Three evaluations let a cache
hold two generations when the third begins, and two edits let a change be undone
or a tool chain differ from an interface. In `conformance` and `compile_command`
a second run is what is needed to meet the leftovers of a first, and one
scenario identity what is needed for its files to be those of that run; one
replaced file is what can differ between two reads of it. With a denominator of
one a policy file needs seven lines to be accepted, which leaves one to put
anywhere, a second record of one name for instance; a module file needs two, a
manifest three. Two rulesets and two changes let one begin to protect
after it was read while the other stops before it is. `MaxBuilds`, `MaxEdits`,
`MaxRuns`, `MaxLines`, `MaxChanges` and `MaxNoise` are the only bounds on
counters.

Fairness. `computeAffected` and `conformanceCommand` are sequential and wait for
nobody, so they take a step that is enabled: weak fairness on `Next` and on
`Command`. No fairness is assumed of crashes, failing writes, reruns and edits,
and none of anything else. That the gate ends is not stated: `github.go:40` calls
`http.DefaultClient`, which has no timeout, so a call may stay unanswered for as
long as the context of the absent caller allows. Nor is it stated of
`compileCommand`, which has no loop. Deadlock is checked where the model says how
it stops; in `incremental_build`, `conformance` and `compile_command` the system
may stop when its bounds are used up.

## Assumptions

`ReuseIsFresh` is about the compiler in use, and needs to say how caches are
filled: artifacts enter the cache only from evaluations that closed, with the
digests of the declarations they were made from. A cache filled by evaluations
that did not close could hold an artifact under a digest that was never renewed.
Nothing is assumed of the caller's list of changes.

`HonestBuildCloses` shows the price: after a change of tool chain an evaluation
is refused while the caller still hands over entries of the old one for modules
it does not list as changed.

The named assumptions on constants, which TLC evaluates on each instance:

| Assumption | Says |
|---|---|
| `Invalidation`, `InputsAssumption` | declarations and changes have their types |
| `Evaluate`, `InputsAssumption` | lists have positions in the natural numbers, times are integers (`Decoded`, what decoding JSON gives) |
| `Evaluate`, `DigestAssumption` | no digest is computed from itself, through however many others: among any digests there is one that no declaration with it names an edge into. It is what is taken of SHA-256; for the values `Sha` stands for it is the axiom of foundation. Only `Acyclicity` uses it |
| `IncrementalBuild`, `FirstDeclsAssumption` | at first each module is declared once, truly, and the files can be made to close (`Linked`): no export or test is shared, every edge names a declared module, its release and one of its rules; the digest of a tool chain is not empty |
| `DeclarationParser`, `LinesAssumption` | tokens are strings, and the kinds of file are the three the code reads |
| `Conformance`, `ManifestAssumption` | a manifest is a list of entries, none of them named `conformance`: its report would be the file of the corpus report |
| `CompileCommand`, `LockAssumption`; `PolicyGate`, `ContractAssumption` | a lock and a contract that decode have fields of their types |
| `TestStream`, `TestsAssumption` | there are finitely many tests |
| `BoundAssumption` | bounds are natural numbers |

## Findings

- `duplicate_test`: when two modules own one test id, the counts of the warm run
  do not add up. `decisionForTest` (`evaluate.go:471`) finds the first plan entry
  of the id for both, so a test that is reused is listed as executed, and the run
  reports two executed tests with one selected, against the exact counts promised
  at `README.md:23`. The evaluation is REFUTED for the duplicate, but its report
  and the corpus summary carry the counts. `TestListsAddUp` shows that they do
  add up whenever test ids are unique.
- `empty_modules`: `-modules ,` leaves no path and no error, and the evaluation
  of no module closes, although an empty `-input-dir` is an error (`main.go:192`)
  and the policy wants the module cell unknown without its input.
- `bootstrap_count`: the gate asserts that there is one bootstrap commit
  (`github.go:46`) and counts none, so it closes on a repository with no or two of
  them, although `.gooo/bootstrap.gooo:6` demands exactly one.

## Proofs

`InvalidationProofs`, for any set of identities, any declarations and changes:

- The inductive invariant `IInv` joins the type invariant, the discipline of the
  queue, the frontier, `NothingSpurious`, the evidence recorded so far and what
  each phase means. `Frontier` alone is not inductive: that a step keeps it needs
  the queue free of repetitions, since taking a module from the queue must take it
  off the frontier.
- At the end the queue is empty, so the frontier says that `seen` is closed and
  holds the seeds; being the least such set (`AffectedIsLeast`), `Affected` is
  within `seen`, and `NothingSpurious` is the converse. This yields
  `Implementation`: the walk implements `AffectedSpec`.
- `NeverRevisited` is the action property, from the same invariant.
- The only assumption is `InputsAssumption`, the types of the arguments.

`EvaluateProofs`, for any declarations, scenarios and policies:

- The inductive invariant is `Ledger`: every stage that has passed has left its
  result and its evidence, and no later stage takes either away. None of the
  properties is inductive without it, since they speak of the last state and the
  reasons lie in the first stages.
- A decision CLOSED then means that the evidence of every stage is empty
  (`ClosedIsClean`). The rest is data: in a list without a repeated key the first
  entry of a key is its only one (`OnlyIsFirst`), declarations that close name
  exact content (`ClosedGraphIsExact`) and own each test id once
  (`TestIdsAreUnique`). From these follow `Confirmation`, `ExactReuse`,
  `Incrementality`, `EarnedImprovement`, `EmittedStatus` and `ListsAddUp`, which
  are the properties the runs check under the names `PROJECT.json` gives.
- `TypeCorrect` joins `TypeOK` to `Ledger`: the status that is emitted is a
  decision because the graph stage made it one.
- `Acyclicity`: the code never looks for a cycle. In a graph that closes every
  edge names the digest its target has now, so the digests around a cycle would
  each be computed from the next; `DigestAssumption` gives the set of them a
  member that names none of the others, and its module is the one that depends on
  no other of the set.
- `DecisionIsExact` is stronger than what any run checks. `Accounts` says of each
  point of the pipeline that the shared evidence is that of the stages passed and
  no more, so in the end it is `AllUnknowns` and `AllRefutations`, functions of the
  arguments. The one step that is not a function of them, the unstable order of
  tests with one id, is shown to compare the same tests whatever it is
  (`SameTestsCompared`): it shows in the lists of a report (`duplicate_test`) and
  never in the decision.
- The assumptions are `InputsAssumption`, that lists have positions in the natural
  numbers and measured times are integers, and `DigestAssumption` in `Acyclicity`.
  Nothing is assumed of the order of lists or of well-formed declarations.

`IncrementalBuildProofs`, for any number of modules, versions, tool chains,
evaluations and edits:

- `DigestDeterminesArtifact` is the fact the whole cache rests on: in two
  consistent sets of files, a module with one digest has one artifact. A module is
  built from the least closed set around it. The modules of that set on which the
  two sets of files agree are again closed, since a digest contains those of the
  targets; so they are all of it. No induction on the graph is needed, and cycles
  do no harm.
- `BuildInv` joins the `Ledger` and the `Accounts` of the running evaluation, names
  that stay with their modules (`SourceKept`), an evaluation started on one linked
  declaration for each module (`DeclaredOnce`, `Linked`), a caller who hands over
  part of the cache and known changes (`Bound`), and `StoreKept`: each artifact was
  made from files that were consistent at the time, under the digest it is kept
  under, and a module has one. Files have changed since, so freshness is not
  inductive; that some consistent files exist for each entry is.
- `Freshness` puts them together: a closed evaluation has consistent files and
  exact reuse, the entry was made from consistent files under the same digest,
  so the two artifacts are one.
- `Usefulness` is the converse, and needs what `Freshness` does not: that no
  check refutes without cause. With renewed files every check of the graph passes
  (`RenewedGraph`), an honest entry out of reach of the changes is exact
  (`HonestEntryIsExact`), so both runs and the oracle leave no evidence
  (`HonestPlan`, `HonestOracle`); since the evidence is all the decision is made of
  (`Accounts`), the evaluation closes. An edit keeps the files linked
  (`LinkedChange`), so this holds after any number of edits.

`ConformanceProofs`, for any manifests, verdicts and numbers of runs and edits:

- The properties speak of the end of a run, so `Inv` says what is true half way:
  every entry dealt with has its case at its place (`CaseList`), the files of
  every case but the one being written are whole and of this run (`Settled`), the
  report precedes the program (`ReportFirst`), and the corpus report is an older
  one until it is opened (`CorpusLast`). `Place` counts the selected entries up
  to one; how it grows is `PlaceNext`.

`CompileCommandProofs`, for any locks, graphs, runners, scenarios and numbers of
runs and replaced files:

- `Inv` says of each point of the command which checks have passed on what was on
  the disk at some moment of the run (`LockRead`, `ClosedSeen`, `GraphSeen`,
  `RunnerSeen`), that nothing of this run is in the directory before the first
  write (`Untouched`), and what the two files hold while they are written
  (`InFlight`). Without the last `ProgramNeverAhead` does not survive a write,
  without the others `Provenance` says nothing of files that have been replaced
  meanwhile. `Backing` tells the refuting status from 0, and not CLOSED from
  UNKNOWN, since both exit with 0.

`PolicyGateProofs`, for any contracts, triggers, histories and rulesets and any
number of changes:

- The verdict is a function of the observation, so `GateInv` says what an
  observation may hold at each point: pull requests known only as they were
  answered (`PullsTold`), a failed call leaves its mark (`FailureMarked`), and a
  ruleset that protected all along is still to be read while none was found
  (`RulesetsTold`), which is what `NoFalseAlarm` needs.
- `Rehearsal` says which valid contracts the rehearsal of their own cases
  refuses: exactly those whose unknown case leaves nothing to observe.

`TestStreamProofs`, for finitely many tests in any packages and any number of
stray lines: the outcomes of the tests reach the counts only by way of the file,
so the invariant says what the lines written tell of the tests (`LinesTell`) and
what the counts tell of the lines read (`CountsTell`). `Counting` follows when all
lines are read; a writer that is killed has only stopped earlier.

`DeclarationParserProofs`, for any lines of tokens and files of any length:

- The code keeps two flags and a declaration and forgets the lines, and the
  properties relate an accepted file to its lines. `Inv` says what the flags tell
  of all the lines read (`Body`: only blank ones, one open body, or one closed
  body) and what the declaration does (`Faithful`): no record is lost unless a
  later one of its name supersedes it (`NothingLost`), every entry is what some line
  says (`NothingInvented`), and a record given twice is there twice, which is what
  lets the validation that follows refuse it (`Counted`). `AcceptedIsOneBody`
  follows from the first; `NoValueLost` from the second and `ValueIsKept`, about a
  key that is repeated in one line while its value is empty.
- `Faithfulness` states the second part as a theorem of its own, `NothingTorn` is
  the action property.

After these, every invariant and action property of the passing runs is stated by
a theorem. Only model-checked: `Termination` and `RunsEnd`, since liveness under
fairness is out of the prover's reach, as are ENABLED and induction over data. The three findings are runs that TLC refutes.

## Not modelled

- The characters of a `.gooo` file: `tokenize`, `cleanLine`, and the patterns of
  names and numbers. Their result is a choice in `DeclarationParser`.
- The text of the generated program, plan reasons, summaries, JSON tags; the sort
  order of lists and the canonical digests of graph and scenario, where a value is
  its own digest.
- Counting lines and files, runtime metrics, loading and checking a verification
  report, and the path check of `WriteCallerJSON` in `internal/gooo`: functions of
  their arguments and of a directory tree, with no state, that nothing in the
  repository calls outside a test.
- More than one page of rulesets, commits of a push other than its head, and two
  processes in one output directory: the code does nothing about them, and a model
  would only repeat that. `PROJECT.json` lists them as hazards without a property.
- CI scripts and workflows, which only call the commands.

## Plan

1. The canonical digest of a graph (`digest.go`) and that it does not depend on
   the order of the declarations.
2. The composition of `compileCommand` with `Evaluate` itself in the place of any
   decision.
