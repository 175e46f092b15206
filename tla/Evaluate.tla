------------------------------ MODULE Evaluate ------------------------------
(***************************************************************************)
(* Evaluate (internal/compiler/evaluate.go): one evaluation of a set of    *)
(* module declarations against a scenario, from the validation of the      *)
(* scenario to the report.  One action per stage, in the order of the      *)
(* code; the stages share the evidence in unknowns and refutations.        *)
(***************************************************************************)
EXTENDS RunPlan, Integers

\* The triples [decls, scenario, policy] an evaluation starts from.  policy
\* has two fields: valid, that validatePolicy accepts it, and emittable, that
\* its package and entrypoint are Go identifiers.
CONSTANT Inputs

\* What decoding leaves of the arguments: lists, and integers.
Decoded(given) ==
    LET scn == given.scenario
    IN  /\ \A list \in {given.decls, scn.changes, scn.cache, scn.testCache,
                         scn.observations, scn.oracle.results} :
                DOMAIN list \subseteq Nat
        /\ scn.coldMS \in Int /\ scn.warmMS \in Int

ASSUME InputsAssumption == \A given \in Inputs : Decoded(given)

\* No digest is computed from itself: in every set of digests there is one
\* that no declaration with it names an edge into.  This is how SHA-256 is
\* taken here; of the values Sha stands for, it is the axiom of foundation.
Hashed(decls) ==
    \A D \in (SUBSET {ModuleSemanticDigest(decls[i]) : i \in DOMAIN decls}) \ {{}} :
        \E i \in DOMAIN decls :
            /\ ModuleSemanticDigest(decls[i]) \in D
            /\ \A dep \in decls[i].deps : dep.digest \notin D

ASSUME DigestAssumption == \A given \in Inputs : Hashed(given.decls)

VARIABLES
    input,        \* the arguments; never changes
    stage,        \* the stage that runs next, or how the evaluation ended
    unknowns,     \* state.Unknowns
    refutations,  \* state.Refutations
    graph,        \* the linked graph
    affected,     \* the affected set
    emitted,      \* the graph status baked into the generated program
    cold, warm,   \* the two run reports
    report        \* the decision and the improvement claim

produced == <<graph, affected, emitted, cold, warm, report>>
vars     == <<input, stage, unknowns, refutations, produced>>

Decls    == input.decls
Scenario == input.scenario
Policy   == input.policy

\* The value of a result that no stage has produced yet.
Pending == [pending |-> TRUE]

Stages == {"validate", "graph", "digests", "affected", "emit", "cold", "warm",
           "oracle cold", "oracle warm", "decide", "done", "rejected"}

Init ==
    /\ input \in Inputs
    /\ stage = "validate"
    /\ unknowns = {}
    /\ refutations = {}
    /\ graph = Pending /\ affected = {} /\ emitted = "PENDING"
    /\ cold = Pending /\ warm = Pending /\ report = Pending

-----------------------------------------------------------------------------
(* The stages. *)

\* validateScenarioInput, as far as the properties tell scenarios apart.  Left
\* out are the schema and the scenario identity, digests that are malformed, and
\* the counts and memory of the measurements: a scenario refused for one of
\* these ends in Reject, like any other that is refused.
Acceptable(scn) ==
    /\ \A i \in DOMAIN scn.changes : scn.changes[i].module # "" /\ scn.changes[i].kind # ""
    /\ \A i \in DOMAIN scn.observations :
            /\ scn.observations[i].test # ""
            /\ scn.observations[i].status \in {"PASS", "FAIL"}
            /\ scn.observations[i].result # ""
    /\ scn.coldMS >= 0 /\ scn.warmMS >= 0

\* A stage that only adds evidence and passes control on.
Record(unknown, refuted, to) ==
    /\ unknowns' = unknowns \cup unknown
    /\ refutations' = refutations \cup refuted
    /\ stage' = to
    /\ UNCHANGED input

Validate ==
    /\ stage = "validate"
    /\ Policy.valid /\ Acceptable(Scenario)
    /\ stage' = "graph"
    /\ UNCHANGED <<input, unknowns, refutations, produced>>

Reject ==
    /\ stage = "validate"
    /\ ~(Policy.valid /\ Acceptable(Scenario))
    /\ stage' = "rejected"
    /\ UNCHANGED <<input, unknowns, refutations, produced>>

\* Mutant: the refutations of the graph do not reach the shared evidence.
BuildGraph_LosesRefutations ==
    /\ stage = "graph"
    /\ graph' = LinkedGraph(Decls)
    /\ Record(GraphUnknowns(Decls), {}, "digests")
    /\ UNCHANGED <<affected, emitted, cold, warm, report>>

BuildGraph ==
    /\ stage = "graph"
    /\ graph' = LinkedGraph(Decls)
    /\ Record(GraphUnknowns(Decls), GraphRefutations(Decls), "digests")
    /\ UNCHANGED <<affected, emitted, cold, warm, report>>

\* Without these digests the paired measurements compare nothing.
DigestUnknowns(scn) ==
    Evidence("SOURCE_DIGEST_UNAVAILABLE",
        IF scn.source = "" THEN {"source_digest"} ELSE {})
    \cup Evidence("COMPARISON_DIGEST_UNAVAILABLE",
        IF scn.toolchain = "" \/ scn.contract = "" THEN {"comparison-digests"} ELSE {})

BindDigests ==
    /\ stage = "digests"
    /\ Record(DigestUnknowns(Scenario), {}, "affected")
    /\ UNCHANGED produced

\* The walk of Invalidation.tla, which returns exactly these two values.
ComputeAffected ==
    /\ stage = "affected"
    /\ affected' = Affected(Decls, Scenario.changes)
    /\ Record(ChangeUnknowns(Decls, Scenario.changes), {}, "emit")
    /\ UNCHANGED <<graph, emitted, cold, warm, report>>

\* EmitGo runs here, before the runs and the oracle have had their say.
Emit ==
    /\ stage = "emit"
    /\ Policy.emittable
    /\ emitted' = graph.status
    /\ stage' = "cold"
    /\ UNCHANGED <<input, unknowns, refutations, graph, affected, cold, warm, report>>

RejectPlan ==
    /\ stage = "emit"
    /\ ~Policy.emittable
    /\ stage' = "rejected"
    /\ UNCHANGED <<input, unknowns, refutations, produced>>

RunCold ==
    /\ stage = "cold"
    /\ \E first \in FirstSlots(Decls) :
            cold' = RunOf("COLD", Decls, Scenario, Known(Decls), first)
    /\ Record(RunUnknowns(Decls, Scenario),
              RunRefutations("COLD", Decls, Scenario, Known(Decls)), "warm")
    /\ UNCHANGED <<graph, affected, emitted, warm, report>>

RunWarm ==
    /\ stage = "warm"
    /\ \E first \in FirstSlots(Decls) :
            warm' = RunOf("WARM", Decls, Scenario, affected, first)
    /\ Record(RunUnknowns(Decls, Scenario),
              RunRefutations("WARM", Decls, Scenario, affected), "oracle cold")
    /\ UNCHANGED <<graph, affected, emitted, cold, report>>

CheckOracleCold ==
    /\ stage = "oracle cold"
    /\ Record(OracleUnknowns("COLD", Scenario, cold),
              OracleRefutations("COLD", Scenario, cold), "oracle warm")
    /\ UNCHANGED produced

CheckOracleWarm ==
    /\ stage = "oracle warm"
    /\ Record(OracleUnknowns("WARM", Scenario, warm),
              OracleRefutations("WARM", Scenario, warm), "decide")
    /\ UNCHANGED produced

\* Mutants: a run that is slower, or exactly as fast, counts as an improvement.
Improvement_AnyDifference(scn, decision) ==
    IF "" \notin {scn.source, scn.toolchain, scn.contract} /\ decision = "CLOSED"
    THEN [status |-> "CLOSED", ms |-> scn.coldMS - scn.warmMS]
    ELSE [status |-> "UNKNOWN", ms |-> 0]

Improvement_NotStrict(scn, decision) ==
    IF /\ "" \notin {scn.source, scn.toolchain, scn.contract}
       /\ decision = "CLOSED"
       /\ scn.coldMS >= scn.warmMS
    THEN [status |-> "CLOSED", ms |-> scn.coldMS - scn.warmMS]
    ELSE [status |-> "UNKNOWN", ms |-> 0]

\* buildImprovement: the scenario and the graph digest are always there.
Improvement(scn, decision) ==
    IF /\ "" \notin {scn.source, scn.toolchain, scn.contract}
       /\ decision = "CLOSED"
       /\ scn.coldMS > scn.warmMS
    THEN [status |-> "CLOSED", ms |-> scn.coldMS - scn.warmMS]
    ELSE [status |-> "UNKNOWN", ms |-> 0]

Decide ==
    /\ stage = "decide"
    /\ LET decision == Decision(refutations, unknowns)
       IN  report' = [decision    |-> decision,
                      improvement |-> Improvement(Scenario, decision)]
    /\ stage' = "done"
    /\ UNCHANGED <<input, unknowns, refutations, graph, affected, emitted, cold, warm>>

Terminated == stage \in {"done", "rejected"} /\ UNCHANGED vars

Next ==
    \/ Validate \/ Reject \/ BuildGraph \/ BindDigests \/ ComputeAffected
    \/ Emit \/ RejectPlan \/ RunCold \/ RunWarm
    \/ CheckOracleCold \/ CheckOracleWarm \/ Decide \/ Terminated

Spec == Init /\ [][Next]_vars

-----------------------------------------------------------------------------
(* Types. *)

Slots == DOMAIN Decls
Run == [compiled : SUBSET Slots, reused : SUBSET Slots,
        selected : SUBSET TestSlots(Decls), reusedTests : SUBSET TestSlots(Decls),
        executed : SUBSET TestSlots(Decls), failed : SUBSET TestSlots(Decls),
        unknownTests : SUBSET TestSlots(Decls)]
Claim  == [status : {"CLOSED", "UNKNOWN"}, ms : Nat]
Report == [decision : Decisions, improvement : Claim]

TypeOK ==
    /\ input \in Inputs
    /\ stage \in Stages
    /\ graph = Pending \/ graph.status \in Decisions
    /\ affected \subseteq Known(Decls)
    /\ emitted \in Decisions \cup {"PENDING"}
    /\ cold \in Run \cup {Pending}
    /\ warm \in Run \cup {Pending}
    /\ report \in Report \cup {Pending}

-----------------------------------------------------------------------------
(* What the decision CLOSED promises. *)

Decided == stage = "done"
Closed  == Decided /\ report.decision = "CLOSED"

\* Every test of every module passed, and every observation of it, every
\* oracle result for it and the cached result a run reused for it are one and
\* the same: an independent full run confirms each, first entry or not.
ClosedIsConfirmed ==
    Closed => \A slot \in TestSlots(Decls) :
        LET id == slot[2]
        IN  /\ Scenario.oracle.independent
            /\ Scenario.oracle.digest = Sha(Scenario.oracle.results)
            /\ \E result \in {Scenario.oracle.results[i].result :
                                i \in DOMAIN Scenario.oracle.results} :
                 \A list \in {Scenario.observations, Scenario.oracle.results} :
                    /\ id \in Keys(list, "test")
                    /\ \A i \in DOMAIN list : list[i].test = id =>
                            list[i].status = "PASS" /\ list[i].result = result
                    /\ slot \in warm.reusedTests =>
                            \A i \in DOMAIN Scenario.testCache :
                                Scenario.testCache[i].test = id =>
                                    Scenario.testCache[i].result = result

\* Every artifact the warm run reuses was made from exactly the declarations
\* at hand: the entry names the content of the module, the module's edges name
\* the content and release of their targets, and the tools are the present ones.
ClosedReuseIsExact ==
    Closed => \A i \in warm.reused, k \in DOMAIN Scenario.cache :
        Scenario.cache[k].module = Decls[i].identity =>
            /\ Scenario.cache[k].semantic = ModuleSemanticDigest(Decls[i])
            /\ Scenario.cache[k].toolchain = Scenario.toolchain
            /\ Scenario.cache[k].contract = Scenario.contract
            /\ "" \notin {Scenario.toolchain, Scenario.contract, Scenario.cache[k].result}
            /\ \A dep \in Decls[i].deps : \E j \in DOMAIN Decls :
                    /\ Decls[j].identity = dep.target
                    /\ Decls[j].release = dep.release
                    /\ dep.digest = ModuleSemanticDigest(Decls[j])

\* A warm run that closes redoes only what it has to: it compiles the modules
\* the changes reach and those without a cache entry, and executes the tests
\* that touch the former and those without a cached result.
ClosedIsIncremental ==
    Closed =>
        /\ \A i \in warm.compiled :
              \/ Decls[i].identity \in Affected(Decls, Scenario.changes)
              \/ Decls[i].identity \notin Keys(Scenario.cache, "module")
        /\ \A slot \in warm.executed :
              \/ Touched(Decls, slot) \cap Affected(Decls, Scenario.changes) # {}
              \/ slot[2] \notin Keys(Scenario.testCache, "test")

\* Dependencies that close form no cycle: around a cycle some edge cannot name
\* the content of its target, which contains the edge's own digest.
ClosedGraphIsAcyclic ==
    Closed => \A S \in (SUBSET Known(Decls)) \ {{}} :
        \E i \in DOMAIN Decls :
            Decls[i].identity \in S /\ \A dep \in Decls[i].deps : dep.target \notin S

\* The status baked into the generated program is fixed before most of the
\* evidence exists.  It is never worse than the decision; it says CLOSED only
\* of a graph whose every edge closed; and when it is better than the decision,
\* the reason is evidence the stages after the graph have added.
EmittedWithinDecision ==
    Decided =>
        /\ emitted = "REFUTED" => report.decision = "REFUTED"
        /\ emitted = "UNKNOWN" => report.decision # "CLOSED"
        /\ emitted = "CLOSED" => \A edge \in graph.edges : edge.status = "CLOSED"
        /\ emitted # report.decision =>
               (refutations \ GraphRefutations(Decls)) \cup (unknowns \ GraphUnknowns(Decls)) # {}

\* An improvement is claimed only for a confirmed, fully bound and strictly
\* faster warm run, and is the exact difference.
ImprovementIsEarned ==
    Decided /\ report.improvement.status = "CLOSED" =>
        /\ report.decision = "CLOSED"
        /\ Scenario.oracle.independent
        /\ "" \notin {Scenario.source, Scenario.toolchain, Scenario.contract}
        /\ report.improvement.ms > 0
        /\ Scenario.warmMS + report.improvement.ms = Scenario.coldMS

\* The test lists of both runs add up, unless two slots share a test id: every
\* test is selected or reused, a selected test is executed or has no
\* observation, and no reused test is executed.  The runs agree on failures.
TestListsAddUp ==
    Decided /\ (\A s, t \in TestSlots(Decls) : s[2] = t[2] => s = t) =>
        /\ \A run \in {cold, warm} :
              /\ run.selected \cup run.reusedTests = TestSlots(Decls)
              /\ run.selected \cap run.reusedTests = {}
              /\ run.executed = run.selected \ run.unknownTests
        /\ cold.executed = TestSlots(Decls) \ cold.unknownTests
        /\ warm.failed = cold.failed

\* README.md:23-24 promises exact counts of selected and executed tests: a run
\* executes no more tests than it selected.
ExecutedWithinSelected ==
    Decided => Cardinality(warm.executed) <= Cardinality(warm.selected)

\* .gooo/incremental-compiler.gooo:5 calls a step without module input unknown
\* (MODULE_INPUT_UNAVAILABLE): an evaluation that closes had a module.
ClosedHasModules == Closed => Decls # <<>>
=============================================================================
