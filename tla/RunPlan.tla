------------------------------ MODULE RunPlan ------------------------------
(***************************************************************************)
(* runMode and checkOracle (internal/compiler/evaluate.go): which modules  *)
(* and tests the cold and the warm run compile, execute and reuse, and the *)
(* evidence that planning them and comparing them with the full oracle     *)
(* leaves.                                                                 *)
(*                                                                         *)
(* A module slot is a position in decls; a test slot is a pair of a module *)
(* slot and a test id.  The code's lists repeat a name per slot, so the    *)
(* size of a set of slots is the count the report shows.                   *)
(*                                                                         *)
(* A scenario is a record with the fields                                  *)
(*   source, toolchain, contract   digests, "" when absent                 *)
(*   changes        a sequence of [module, kind]                           *)
(*   cache          a sequence of [module, immutable, semantic,            *)
(*                  dependency, toolchain, contract, result]               *)
(*   testCache      a sequence of [test, immutable, toolchain, contract,   *)
(*                  result]                                                *)
(*   observations   a sequence of [test, status, result]                   *)
(*   oracle         [independent, digest, results], results a sequence     *)
(*                  like observations                                      *)
(*   coldMS, warmMS total wall milliseconds of the two runs                *)
(* The digests of tool chain, contract and results are strings, "" when    *)
(* absent.                                                                 *)
(***************************************************************************)
EXTENDS ModuleGraph

Modes == {"COLD", "WARM"}

TestSlots(decls) ==
    UNION {{i} \X TestIds(decls[i]) : i \in DOMAIN decls}

\* The names the report lists for slots.
Identities(decls, slots) == {decls[i].identity : i \in slots}
Ids(testSlots)           == {slot[2] : slot \in testSlots}

\* testTouches: the owner and the modules the test covers.
Touched(decls, slot) ==
    {decls[slot[1]].identity}
    \cup UNION {test.covers : test \in {t \in decls[slot[1]].tests : t.id = slot[2]}}

Observed(scn, id)    == id \in Keys(scn.observations, "test")
Observation(scn, id) == FirstWith(scn.observations, "test", id)

\* The tool chain and the contract of an entry are those of this scenario.
SameTools(scn, entry) ==
    entry.toolchain = scn.toolchain /\ entry.contract = scn.contract

-----------------------------------------------------------------------------
(* Modules. *)

Cached(scn, decl) == decl.identity \in Keys(scn.cache, "module")

\* Mutant: entries of other tools are taken for exact.
Exact_AnyTools(scn, decl) ==
    LET entry == FirstWith(scn.cache, "module", decl.identity)
    IN  /\ entry.immutable
        /\ entry.semantic = decl.digest
        /\ entry.dependency = DependencyDigest(decl)
        /\ entry.result # ""

\* The exact cache identity of a declaration.
Exact(scn, decl) ==
    LET entry == FirstWith(scn.cache, "module", decl.identity)
    IN  /\ entry.immutable
        /\ entry.semantic = decl.digest
        /\ entry.dependency = DependencyDigest(decl)
        /\ SameTools(scn, entry)
        /\ entry.result # ""

\* Mutant: the warm run asks the cache for affected modules too.
Consulting_Affected(mode, decls, affected) == {i \in DOMAIN decls : mode = "WARM"}

\* The slots for which the run consults the cache.
Consulting(mode, decls, affected) ==
    {i \in DOMAIN decls : mode = "WARM" /\ decls[i].identity \notin affected}

ReusedModules(mode, decls, scn, affected) ==
    {i \in Consulting(mode, decls, affected) :
        Cached(scn, decls[i]) /\ Exact(scn, decls[i])}

\* Mutant: a stale entry is a miss.
StaleModules_AreMisses(mode, decls, scn, affected) == {}

StaleModules(mode, decls, scn, affected) ==
    {i \in Consulting(mode, decls, affected) :
        Cached(scn, decls[i]) /\ ~Exact(scn, decls[i])}

-----------------------------------------------------------------------------
(* Tests. *)

Unimpacted(mode, decls, affected) ==
    {slot \in TestSlots(decls) : mode = "WARM" /\ Touched(decls, slot) \cap affected = {}}

TestCached(scn, id) == id \in Keys(scn.testCache, "test")

CandidateTest(scn, id) ==
    LET entry == FirstWith(scn.testCache, "test", id)
    IN  entry.immutable /\ entry.result # "" /\ SameTools(scn, entry)

\* Mutant: a cached result is not compared with the current observation.
OutdatedTest_NeverLooked(scn, id) == FALSE

\* The current observation of a test contradicts its cached result.
OutdatedTest(scn, id) ==
    /\ Observed(scn, id)
    /\ Observation(scn, id).result # FirstWith(scn.testCache, "test", id).result

ReusedTests(mode, decls, scn, affected) ==
    {slot \in Unimpacted(mode, decls, affected) :
        /\ TestCached(scn, slot[2])
        /\ CandidateTest(scn, slot[2])
        /\ ~OutdatedTest(scn, slot[2])}

\* The order in which the tests are planned: sorted by test id with a sort
\* that does not keep equal ids in place, so only the first slot of each id
\* matters, and any slot may be it.
FirstSlots(decls) ==
    {first \in [Ids(TestSlots(decls)) -> TestSlots(decls)] :
        \A id \in DOMAIN first : first[id][2] = id}

\* Mutant: every observed test counts as executed.
Executed_WhenObserved(decls, scn, reusedTests, first) ==
    {slot \in TestSlots(decls) : Observed(scn, slot[2])}

\* A test counts as executed when it is observed and the first plan entry of
\* its id, which may be that of another slot, says EXECUTE.
Executed(decls, scn, reusedTests, first) ==
    {slot \in TestSlots(decls) :
        Observed(scn, slot[2]) /\ first[slot[2]] \notin reusedTests}

\* runMode.
RunOf(mode, decls, scn, affected, first) ==
    LET reusedTests == ReusedTests(mode, decls, scn, affected)
        observed    == {slot \in TestSlots(decls) : Observed(scn, slot[2])}
        reused      == ReusedModules(mode, decls, scn, affected)
    IN  [compiled     |-> DOMAIN decls \ reused,
         reused       |-> reused,
         selected     |-> TestSlots(decls) \ reusedTests,
         reusedTests  |-> reusedTests,
         executed     |-> Executed(decls, scn, reusedTests, first),
         failed       |-> {slot \in observed :
                              Observation(scn, slot[2]).status = "FAIL"},
         unknownTests |-> TestSlots(decls) \ observed]

RunRefutations(mode, decls, scn, affected) ==
    LET cachedTests == {slot \in Unimpacted(mode, decls, affected) :
                            TestCached(scn, slot[2])}
    IN  Evidence("DUPLICATE_CACHE_ENTRY", Repeated(scn.cache, "module"))
        \cup Evidence("STALE_CACHE_IDENTITY",
                Identities(decls, StaleModules(mode, decls, scn, affected)))
        \cup Evidence("DUPLICATE_TEST_CACHE_ENTRY", Repeated(scn.testCache, "test"))
        \cup Evidence("DUPLICATE_TEST_OBSERVATION", Repeated(scn.observations, "test"))
        \cup Evidence("STALE_TEST_CACHE_RESULT",
                Ids({slot \in cachedTests :
                        CandidateTest(scn, slot[2]) /\ OutdatedTest(scn, slot[2])}))
        \cup Evidence("STALE_TEST_CACHE_IDENTITY",
                Ids(cachedTests \ ReusedTests(mode, decls, scn, affected)))
        \cup Evidence("TEST_FAILED",
                Ids({slot \in TestSlots(decls) :
                        /\ Observed(scn, slot[2])
                        /\ Observation(scn, slot[2]).status = "FAIL"}))

\* TEST_OBSERVATION_UNTYPED is never recorded: validateScenarioInput has refused
\* every observation without a result or with a status of another name.
RunUnknowns(decls, scn) ==
    Evidence("TEST_OBSERVATION_UNAVAILABLE",
        Ids({slot \in TestSlots(decls) : ~Observed(scn, slot[2])}))

-----------------------------------------------------------------------------
(* The comparison of a run with the independent full oracle. *)

OracleBound(scn)  == scn.oracle.independent /\ scn.oracle.digest # NoDigest
OracleSealed(scn) == scn.oracle.digest = Sha(scn.oracle.results)

Confirmable(scn, id) == Observed(scn, id) /\ id \in Keys(scn.oracle.results, "test")

\* The observation of a test agrees with the oracle's result for it.
Confirmed(scn, id) ==
    LET result == FirstWith(scn.oracle.results, "test", id)
    IN  /\ Observation(scn, id).status = result.status
        /\ Observation(scn, id).result = result.result

ComparedTests(run) == Ids(run.selected \cup run.reusedTests)

OracleUnknowns(mode, scn, run) ==
    IF ~OracleBound(scn) THEN {<<"FULL_ORACLE_UNAVAILABLE", mode>>}
    ELSE IF ~OracleSealed(scn) THEN {}
    ELSE Evidence("ORACLE_TEST_RESULT_UNAVAILABLE",
            {id \in ComparedTests(run) : ~Confirmable(scn, id)})

OracleRefutations(mode, scn, run) ==
    IF ~OracleBound(scn) THEN {}
    ELSE IF ~OracleSealed(scn) THEN {<<"FULL_ORACLE_DIGEST_CONTRADICTED", mode>>}
    ELSE Evidence("DUPLICATE_FULL_ORACLE_RESULT", Repeated(scn.oracle.results, "test"))
         \cup Evidence("SELECTIVE_FULL_ORACLE_MISMATCH",
                {id \in ComparedTests(run) : Confirmable(scn, id) /\ ~Confirmed(scn, id)})
=============================================================================
