--------------------------- MODULE EvaluateProofs ---------------------------
(***************************************************************************)
(* Theorems about Evaluate.tla, for all declarations, scenarios and        *)
(* policies.                                                               *)
(*                                                                         *)
(* They rest on one inductive invariant, Ledger: whatever stage has passed *)
(* has left its result and its evidence, and no later stage takes any of   *)
(* it away.  A decision CLOSED then says that the evidence of every stage  *)
(* is empty, and what follows from that is a matter of data.               *)
(***************************************************************************)
EXTENDS Evaluate, TLAPS

\* The stages that come after a stage has passed.
AfterOracle   == {"decide", "done"}
AfterWarm     == {"oracle cold", "oracle warm"} \cup AfterOracle
AfterCold     == {"warm"} \cup AfterWarm
AfterEmit     == {"cold"} \cup AfterCold
AfterAffected == {"emit"} \cup AfterEmit
AfterDigests  == {"affected"} \cup AfterAffected
AfterGraph    == {"digests"} \cup AfterDigests
AfterValidate == {"graph"} \cup AfterGraph

GraphLedger ==
    stage \in AfterGraph =>
        /\ graph = LinkedGraph(Decls)
        /\ GraphRefutations(Decls) \subseteq refutations
        /\ GraphUnknowns(Decls) \subseteq unknowns

AffectedLedger ==
    stage \in AfterAffected => affected = Affected(Decls, Scenario.changes)

ColdLedger ==
    stage \in AfterCold =>
        \E first \in FirstSlots(Decls) :
            cold = RunOf("COLD", Decls, Scenario, Known(Decls), first)

WarmLedger ==
    stage \in AfterWarm =>
        /\ \E first \in FirstSlots(Decls) :
              warm = RunOf("WARM", Decls, Scenario, affected, first)
        /\ RunRefutations("WARM", Decls, Scenario, affected) \subseteq refutations
        /\ RunUnknowns(Decls, Scenario) \subseteq unknowns

OracleLedger ==
    stage \in AfterOracle =>
        /\ OracleRefutations("WARM", Scenario, warm) \subseteq refutations
        /\ OracleUnknowns("WARM", Scenario, warm) \subseteq unknowns

ReportLedger ==
    stage = "done" =>
        LET decision == Decision(refutations, unknowns)
        IN  report = [decision    |-> decision,
                      improvement |-> Improvement(Scenario, decision)]

Ledger ==
    /\ Decoded(input)
    /\ stage \in Stages
    /\ stage \in AfterValidate => Acceptable(Scenario)
    /\ GraphLedger
    /\ stage \in AfterDigests => DigestUnknowns(Scenario) \subseteq unknowns
    /\ AffectedLedger
    /\ stage \in AfterEmit => emitted = graph.status
    /\ ColdLedger
    /\ WarmLedger
    /\ OracleLedger
    /\ ReportLedger

-----------------------------------------------------------------------------
(* The ledger is kept. *)

LEMMA InitEstablishesLedger == Init => Ledger
BY InputsAssumption DEF Init, Ledger, Stages, GraphLedger, AffectedLedger, ColdLedger, WarmLedger,
       OracleLedger, ReportLedger, AfterOracle, AfterWarm, AfterCold, AfterEmit,
       AfterAffected, AfterDigests, AfterGraph, AfterValidate

LEMMA StepPreservesLedger == Ledger /\ [Next]_vars => Ledger'
<1> SUFFICES ASSUME Ledger, [Next]_vars PROVE Ledger'
  OBVIOUS
<1> USE DEF Ledger, Stages, Decls, Scenario, AfterOracle, AfterWarm, AfterCold, AfterEmit,
       AfterAffected, AfterDigests, AfterGraph, AfterValidate
<1>1. CASE Validate
  BY <1>1 DEF Validate, produced, GraphLedger, AffectedLedger, ColdLedger, WarmLedger,
              OracleLedger, ReportLedger
<1>2. CASE Reject
  BY <1>2 DEF Reject, produced, GraphLedger, AffectedLedger, ColdLedger, WarmLedger,
              OracleLedger, ReportLedger
<1>3. CASE BuildGraph
  BY <1>3 DEF BuildGraph, Record, GraphLedger, AffectedLedger, ColdLedger, WarmLedger,
              OracleLedger, ReportLedger
<1>4. CASE BindDigests
  BY <1>4 DEF BindDigests, Record, produced, GraphLedger, AffectedLedger, ColdLedger,
              WarmLedger, OracleLedger, ReportLedger
<1>5. CASE ComputeAffected
  BY <1>5 DEF ComputeAffected, Record, GraphLedger, AffectedLedger, ColdLedger, WarmLedger,
              OracleLedger, ReportLedger
<1>6. CASE Emit
  BY <1>6 DEF Emit, GraphLedger, AffectedLedger, ColdLedger, WarmLedger, OracleLedger,
              ReportLedger
<1>7. CASE RejectPlan
  BY <1>7 DEF RejectPlan, produced, GraphLedger, AffectedLedger, ColdLedger, WarmLedger,
              OracleLedger, ReportLedger
<1>8. CASE RunCold
  BY <1>8 DEF RunCold, Record, GraphLedger, AffectedLedger, ColdLedger, WarmLedger,
              OracleLedger, ReportLedger
<1>9. CASE RunWarm
  BY <1>9 DEF RunWarm, Record, GraphLedger, AffectedLedger, ColdLedger, WarmLedger,
              OracleLedger, ReportLedger
<1>10. CASE CheckOracleCold
  BY <1>10 DEF CheckOracleCold, Record, produced, GraphLedger, AffectedLedger, ColdLedger,
               WarmLedger, OracleLedger, ReportLedger
<1>11. CASE CheckOracleWarm
  BY <1>11 DEF CheckOracleWarm, Record, produced, GraphLedger, AffectedLedger, ColdLedger,
               WarmLedger, OracleLedger, ReportLedger
<1>12. CASE Decide
  BY <1>12 DEF Decide, GraphLedger, AffectedLedger, ColdLedger, WarmLedger, OracleLedger,
               ReportLedger
<1>13. CASE Terminated \/ UNCHANGED vars
  BY <1>13 DEF Terminated, vars, produced, GraphLedger, AffectedLedger, ColdLedger,
               WarmLedger, OracleLedger, ReportLedger
<1> QED
  BY <1>1, <1>2, <1>3, <1>4, <1>5, <1>6, <1>7, <1>8, <1>9, <1>10, <1>11, <1>12, <1>13 DEF Next

\* Every stage that has passed has left its result and its evidence, and
\* nothing that came later has taken any of it away.
THEOREM LedgerInvariant == Spec => []Ledger
<1>1. Init => Ledger
  BY InitEstablishesLedger
<1>2. Ledger /\ [Next]_vars => Ledger'
  BY StepPreservesLedger
<1> QED
  BY <1>1, <1>2, PTL DEF Spec

-----------------------------------------------------------------------------
(* Lists without a repeated key. *)

\* In a list that repeats no key, every entry of a key is the first.
LEMMA OnlyIsFirst ==
    ASSUME NEW list, NEW field, NEW i \in DOMAIN list,
           DOMAIN list \subseteq Nat,
           Repeated(list, field) = {}
    PROVE  FirstWith(list, field, list[i][field]) = list[i]
<1> DEFINE First(j) ==
        /\ list[j][field] = list[i][field]
        /\ \A k \in DOMAIN list : list[k][field] = list[i][field] => j <= k
<1>1. \A j \in DOMAIN list : list[j][field] = list[i][field] => j = i
  <2> SUFFICES ASSUME NEW j \in DOMAIN list, list[j][field] = list[i][field], j # i
               PROVE  FALSE
    OBVIOUS
  <2>1. i \in Nat /\ j \in Nat
    OBVIOUS
  <2>2. i < j \/ j < i
    BY <2>1
  <2> QED
    BY <2>2 DEF Repeated
<1>2. First(i)
  <2>1. i \in Nat
    OBVIOUS
  <2> QED
    BY <1>1, <2>1
<1>3. PICK j \in DOMAIN list : j = (CHOOSE k \in DOMAIN list : First(k)) /\ First(j)
  BY <1>2
<1>4. j = i
  BY <1>1, <1>3
<1> QED
  BY <1>3, <1>4 DEF FirstWith

\* No subject gives rise to the evidence of a reason when none was recorded.
LEMMA NoEvidence ==
    ASSUME NEW reason, NEW subjects, Evidence(reason, subjects) = {}
    PROVE  subjects = {}
BY DEF Evidence

\* A dependency of a module that is pointed at by nothing is not among deps.
LEMMA NoPointers ==
    ASSUME NEW deps, Pointers(Decls, deps) = {}, NEW dep \in AllDeps(Decls)
    PROVE  dep \notin deps
<1>1. PICK i \in DOMAIN Decls : dep \in Decls[i].deps
  BY DEF AllDeps
<1> SUFFICES ASSUME dep \in deps PROVE FALSE
  OBVIOUS
<1>2. dep.target \in {d.target : d \in Decls[i].deps \cap deps}
  BY <1>1
<1>3. <<Decls[i].identity, dep.target>>
          \in {Decls[i].identity} \X {d.target : d \in Decls[i].deps \cap deps}
  BY <1>2
<1> QED
  BY <1>3 DEF Pointers

\* Without refuted and unknown evidence of the graph every edge is closed.
LEMMA CleanEdges ==
    ASSUME GraphRefutations(Decls) = {}, GraphUnknowns(Decls) = {},
           NEW i \in DOMAIN Decls, NEW dep \in Decls[i].deps
    PROVE  EdgeStatus(Decls, dep) = "CLOSED"
<1>0. dep \in AllDeps(Decls)
  BY DEF AllDeps
<1>1. dep \in ResolvedDeps(Decls)
  <2>1. Evidence("DEPENDENCY_MODULE_UNAVAILABLE",
            Pointers(Decls, AllDeps(Decls) \ ResolvedDeps(Decls))) = {}
    BY DEF GraphUnknowns
  <2>2. Pointers(Decls, AllDeps(Decls) \ ResolvedDeps(Decls)) = {}
    BY <2>1, NoEvidence
  <2> QED
    BY <1>0, <2>2, NoPointers
<1>2. dep.digest # NoDigest
  <2>1. Evidence("DEPENDENCY_SEMANTIC_DIGEST_MISSING",
            Pointers(Decls, {d \in ResolvedDeps(Decls) : d.digest = NoDigest})) = {}
    BY DEF GraphUnknowns
  <2>2. Pointers(Decls, {d \in ResolvedDeps(Decls) : d.digest = NoDigest}) = {}
    BY <2>1, NoEvidence
  <2> QED
    BY <1>0, <1>1, <2>2, NoPointers
<1>3. ~DigestMismatch(Decls, dep)
  <2>1. Evidence("DEPENDENCY_SEMANTIC_DIGEST_MISMATCH",
            EdgesOf({d \in ResolvedDeps(Decls) : DigestMismatch(Decls, d)})) = {}
    BY DEF GraphRefutations
  <2> QED
    BY <1>1, <2>1, NoEvidence DEF EdgesOf
<1>4. ~ReleaseMismatch(Decls, dep)
  <2>1. Evidence("DEPENDENCY_RELEASE_MISMATCH",
            EdgesOf({d \in ResolvedDeps(Decls) : ReleaseMismatch(Decls, d)})) = {}
    BY DEF GraphRefutations
  <2> QED
    BY <1>1, <2>1, NoEvidence DEF EdgesOf
<1>5. ~RuleContradicted(Decls, dep)
  <2>1. Evidence("INVALIDATION_RULE_CONTRADICTED",
            EdgesOf({d \in ResolvedDeps(Decls) : RuleContradicted(Decls, d)})) = {}
    BY DEF GraphRefutations
  <2> QED
    BY <1>1, <2>1, NoEvidence DEF EdgesOf
<1> QED
  BY <1>1, <1>2, <1>3, <1>4, <1>5 DEF EdgeStatus

-----------------------------------------------------------------------------
(* What the ledger says of an evaluation that closed. *)

\* A decision CLOSED means that no stage left any evidence.
LEMMA ClosedIsClean ==
    ASSUME Ledger, Closed
    PROVE  /\ GraphRefutations(Decls) = {} /\ GraphUnknowns(Decls) = {}
           /\ DigestUnknowns(Scenario) = {}
           /\ RunRefutations("WARM", Decls, Scenario, affected) = {}
           /\ RunUnknowns(Decls, Scenario) = {}
           /\ OracleRefutations("WARM", Scenario, warm) = {}
           /\ OracleUnknowns("WARM", Scenario, warm) = {}
           /\ affected = Affected(Decls, Scenario.changes)
           /\ \E first \in FirstSlots(Decls) :
                 warm = RunOf("WARM", Decls, Scenario, affected, first)
           /\ Acceptable(Scenario)
           /\ Decoded(input)
<1>1. stage = "done" /\ report.decision = "CLOSED"
  BY DEF Closed, Decided
<1>2. report.decision = Decision(refutations, unknowns)
  BY <1>1 DEF Ledger, ReportLedger
<1>3. refutations = {} /\ unknowns = {}
  BY <1>1, <1>2 DEF Decision
<1> QED
  BY <1>1, <1>3 DEF Ledger, GraphLedger, AffectedLedger, WarmLedger, OracleLedger,
     AfterOracle, AfterWarm, AfterCold, AfterEmit, AfterAffected, AfterDigests,
     AfterGraph, AfterValidate

\* The lists of an evaluation are lists.
LEMMA ListDomains ==
    ASSUME Decoded(input)
    PROVE  /\ DOMAIN Decls \subseteq Nat
           /\ DOMAIN Scenario.cache \subseteq Nat
           /\ DOMAIN Scenario.testCache \subseteq Nat
           /\ DOMAIN Scenario.observations \subseteq Nat
           /\ DOMAIN Scenario.oracle.results \subseteq Nat
           /\ Scenario.coldMS \in Int /\ Scenario.warmMS \in Int
BY DEF Decoded, Decls, Scenario

-----------------------------------------------------------------------------
(* An evaluation that closed is confirmed. *)

\* The warm run considers every test slot, either way.
LEMMA EveryTestIsCompared ==
    ASSUME NEW first \in FirstSlots(Decls),
           warm = RunOf("WARM", Decls, Scenario, affected, first),
           NEW slot \in TestSlots(Decls)
    PROVE  slot[2] \in ComparedTests(warm)
<1>1. warm.selected = TestSlots(Decls) \ ReusedTests("WARM", Decls, Scenario, affected)
  BY DEF RunOf
<1>2. warm.reusedTests = ReusedTests("WARM", Decls, Scenario, affected)
  BY DEF RunOf
<1> QED
  BY <1>1, <1>2 DEF ComparedTests, Ids

LEMMA ConfirmedInEachState == Ledger => ClosedIsConfirmed
<1> SUFFICES ASSUME Ledger, Closed, NEW slot \in TestSlots(Decls)
             PROVE  LET id == slot[2]
                    IN  /\ Scenario.oracle.independent
                        /\ Scenario.oracle.digest = Sha(Scenario.oracle.results)
                        /\ \E result \in {Scenario.oracle.results[i].result :
                                            i \in DOMAIN Scenario.oracle.results} :
                             \A list \in {Scenario.observations, Scenario.oracle.results} :
                                /\ id \in Keys(list, "test")
                                /\ \A i \in DOMAIN list : list[i].test = id =>
                                        list[i].status = "PASS" /\ list[i].result = result
                                /\ slot \in warm.reusedTests =>
                                        \A i \in DOMAIN Scenario.testCache :
                                            Scenario.testCache[i].test = id =>
                                                Scenario.testCache[i].result = result
  BY DEF ClosedIsConfirmed
<1> DEFINE id           == slot[2]
           observations == Scenario.observations
           results      == Scenario.oracle.results
           testCache    == Scenario.testCache
<1>1. /\ RunRefutations("WARM", Decls, Scenario, affected) = {}
      /\ RunUnknowns(Decls, Scenario) = {}
      /\ OracleRefutations("WARM", Scenario, warm) = {}
      /\ OracleUnknowns("WARM", Scenario, warm) = {}
      /\ Acceptable(Scenario)
      /\ Decoded(input)
  BY ClosedIsClean
<1>2. PICK first \in FirstSlots(Decls) : warm = RunOf("WARM", Decls, Scenario, affected, first)
  BY ClosedIsClean
<1>3. OracleBound(Scenario) /\ OracleSealed(Scenario)
  BY <1>1 DEF OracleUnknowns, OracleRefutations
<1>4. /\ Repeated(results, "test") = {}
      /\ \A t \in ComparedTests(warm) : Confirmable(Scenario, t) /\ Confirmed(Scenario, t)
  <2>1. Evidence("DUPLICATE_FULL_ORACLE_RESULT", Repeated(results, "test")) = {}
    BY <1>1, <1>3 DEF OracleRefutations
  <2>2. Evidence("SELECTIVE_FULL_ORACLE_MISMATCH",
          {t \in ComparedTests(warm) : Confirmable(Scenario, t) /\ ~Confirmed(Scenario, t)}) = {}
    BY <1>1, <1>3 DEF OracleRefutations
  <2>3. Evidence("ORACLE_TEST_RESULT_UNAVAILABLE",
          {t \in ComparedTests(warm) : ~Confirmable(Scenario, t)}) = {}
    BY <1>1, <1>3 DEF OracleUnknowns
  <2> QED
    BY <2>1, <2>2, <2>3, NoEvidence
<1>5. /\ Repeated(observations, "test") = {}
      /\ Repeated(testCache, "test") = {}
      /\ \A s \in TestSlots(Decls) :
            ~(Observed(Scenario, s[2]) /\ Observation(Scenario, s[2]).status = "FAIL")
  <2>1. Evidence("DUPLICATE_TEST_OBSERVATION", Repeated(observations, "test")) = {}
    BY <1>1 DEF RunRefutations
  <2>2. Evidence("DUPLICATE_TEST_CACHE_ENTRY", Repeated(testCache, "test")) = {}
    BY <1>1 DEF RunRefutations
  <2>3. Evidence("TEST_FAILED", Ids({s \in TestSlots(Decls) :
            Observed(Scenario, s[2]) /\ Observation(Scenario, s[2]).status = "FAIL"})) = {}
    BY <1>1 DEF RunRefutations
  <2> QED
    BY <2>1, <2>2, <2>3, NoEvidence DEF Ids
<1>6. Confirmable(Scenario, id) /\ Confirmed(Scenario, id)
  BY <1>2, <1>4, EveryTestIsCompared
<1>7. PICK o \in DOMAIN observations, r \in DOMAIN results :
         observations[o].test = id /\ results[r].test = id
  BY <1>6 DEF Confirmable, Observed, Keys
<1>8. /\ Observation(Scenario, id) = observations[o]
      /\ FirstWith(results, "test", id) = results[r]
      /\ \A i \in DOMAIN observations :
            observations[i].test = id => observations[i] = observations[o]
      /\ \A i \in DOMAIN results : results[i].test = id => results[i] = results[r]
  BY <1>1, <1>4, <1>5, <1>7, OnlyIsFirst, ListDomains DEF Observation
<1>9. observations[o].status = "PASS"
  BY <1>1, <1>5, <1>6, <1>7, <1>8 DEF Acceptable, Confirmable
<1>10. results[r].status = "PASS" /\ observations[o].result = results[r].result
  BY <1>6, <1>8, <1>9 DEF Confirmed
<1>11. ASSUME slot \in warm.reusedTests, NEW i \in DOMAIN testCache, testCache[i].test = id
       PROVE  testCache[i].result = results[r].result
  <2>1. ~OutdatedTest(Scenario, id)
    BY <1>2, <1>11 DEF RunOf, ReusedTests
  <2>2. FirstWith(testCache, "test", id) = testCache[i]
    BY <1>1, <1>5, <1>11, OnlyIsFirst, ListDomains
  <2> QED
    BY <2>1, <2>2, <1>6, <1>8, <1>10 DEF OutdatedTest, Confirmable
<1>12. id \in Keys(observations, "test") /\ id \in Keys(results, "test")
  BY <1>7 DEF Keys
<1> QED
  BY <1>3, <1>7, <1>8, <1>9, <1>10, <1>11, <1>12 DEF OracleBound, OracleSealed

\* Nothing closes unconfirmed: every test of every module passed, with one
\* and the same result in all observations, all oracle results and the cached
\* result that was reused.
THEOREM Confirmation == Spec => []ClosedIsConfirmed
BY LedgerInvariant, ConfirmedInEachState, PTL

-----------------------------------------------------------------------------
(* What an evaluation that closed reuses is exact. *)

\* Declarations that close name their own content, no identity is declared
\* twice, and every dependency names the content and release of its target.
LEMMA ClosedGraphIsExact ==
    ASSUME Decoded(input), GraphRefutations(Decls) = {}, GraphUnknowns(Decls) = {}
    PROVE  /\ Repeated(Decls, "identity") = {}
           /\ \A i \in DOMAIN Decls : Decls[i].digest = ModuleSemanticDigest(Decls[i])
           /\ \A i \in DOMAIN Decls : \A dep \in Decls[i].deps : \E j \in DOMAIN Decls :
                    /\ Decls[j].identity = dep.target
                    /\ Decls[j].release = dep.release
                    /\ dep.digest = Decls[j].digest
<1>1. Repeated(Decls, "identity") = {}
  <2>1. Evidence("DUPLICATE_MODULE", Repeated(Decls, "identity")) = {}
    BY DEF GraphRefutations
  <2> QED
    BY <2>1, NoEvidence
<1>2. \A i \in DOMAIN Decls : FirstDecl(Decls, Decls[i].identity) = Decls[i]
  BY <1>1, OnlyIsFirst, ListDomains DEF FirstDecl
<1>3. ASSUME NEW i \in DOMAIN Decls
      PROVE  Decls[i].digest = ModuleSemanticDigest(Decls[i])
  <2>1. Evidence("SEMANTIC_DIGEST_CONTRADICTED",
                {Decls[k].identity : k \in {l \in Kept(Decls) :
                    Decls[l].digest # ModuleSemanticDigest(Decls[l])}}) = {}
    BY DEF GraphRefutations
  <2>2. {Decls[k].identity : k \in {l \in Kept(Decls) :
                    Decls[l].digest # ModuleSemanticDigest(Decls[l])}} = {}
    BY <2>1, NoEvidence
  <2>3. \A j \in DOMAIN Decls : Decls[j].identity = Decls[i].identity => i <= j
    <3> SUFFICES ASSUME NEW j \in DOMAIN Decls, Decls[j].identity = Decls[i].identity
                 PROVE  i <= j
      OBVIOUS
    <3>1. i \in Nat /\ j \in Nat
      BY ListDomains
    <3>2. ~(j < i)
      BY <1>1 DEF Repeated
    <3> QED
      BY <3>1, <3>2
  <2>4. i \in Kept(Decls)
    BY <2>3 DEF Kept
  <2> QED
    BY <2>2, <2>4
<1>4. ASSUME NEW i \in DOMAIN Decls, NEW dep \in Decls[i].deps
      PROVE  \E j \in DOMAIN Decls :
                    /\ Decls[j].identity = dep.target
                    /\ Decls[j].release = dep.release
                    /\ dep.digest = Decls[j].digest
  <2>1. EdgeStatus(Decls, dep) = "CLOSED"
    BY CleanEdges
  <2>2. dep \in ResolvedDeps(Decls)
    BY <2>1 DEF EdgeStatus
  <2>3. dep.digest # NoDigest
    BY <2>1 DEF EdgeStatus
  <2>4. ~DigestMismatch(Decls, dep) /\ ~ReleaseMismatch(Decls, dep)
    BY <2>1 DEF EdgeStatus
  <2>5. PICK j \in DOMAIN Decls : Decls[j].identity = dep.target
    BY <2>2 DEF ResolvedDeps, Known
  <2>6. FirstDecl(Decls, dep.target) = Decls[j]
    BY <1>2, <2>5
  <2> QED
    BY <2>3, <2>4, <2>5, <2>6 DEF DigestMismatch, ReleaseMismatch
<1> QED
  BY <1>1, <1>3, <1>4

LEMMA ExactInEachState == Ledger => ClosedReuseIsExact
<1> SUFFICES ASSUME Ledger, Closed, NEW i \in warm.reused, NEW k \in DOMAIN Scenario.cache,
                    Scenario.cache[k].module = Decls[i].identity
             PROVE  /\ Scenario.cache[k].semantic = ModuleSemanticDigest(Decls[i])
                    /\ Scenario.cache[k].toolchain = Scenario.toolchain
                    /\ Scenario.cache[k].contract = Scenario.contract
                    /\ "" \notin {Scenario.toolchain, Scenario.contract,
                                  Scenario.cache[k].result}
                    /\ \A dep \in Decls[i].deps : \E j \in DOMAIN Decls :
                            /\ Decls[j].identity = dep.target
                            /\ Decls[j].release = dep.release
                            /\ dep.digest = ModuleSemanticDigest(Decls[j])
  BY DEF ClosedReuseIsExact
<1>1. /\ GraphRefutations(Decls) = {} /\ GraphUnknowns(Decls) = {}
      /\ DigestUnknowns(Scenario) = {}
      /\ RunRefutations("WARM", Decls, Scenario, affected) = {}
      /\ Decoded(input)
  BY ClosedIsClean
<1>2. i \in DOMAIN Decls /\ Exact(Scenario, Decls[i])
  <2>1. PICK first \in FirstSlots(Decls) : warm = RunOf("WARM", Decls, Scenario, affected, first)
    BY ClosedIsClean
  <2>2. i \in ReusedModules("WARM", Decls, Scenario, affected)
    BY <2>1 DEF RunOf
  <2> QED
    BY <2>2 DEF ReusedModules, Consulting
<1>3. Repeated(Scenario.cache, "module") = {}
  <2>1. Evidence("DUPLICATE_CACHE_ENTRY", Repeated(Scenario.cache, "module")) = {}
    BY <1>1 DEF RunRefutations
  <2> QED
    BY <2>1, NoEvidence
<1>4. FirstWith(Scenario.cache, "module", Decls[i].identity) = Scenario.cache[k]
  BY <1>1, <1>3, OnlyIsFirst, ListDomains
<1>5. "" \notin {Scenario.toolchain, Scenario.contract}
  <2>1. Evidence("COMPARISON_DIGEST_UNAVAILABLE",
            IF Scenario.toolchain = "" \/ Scenario.contract = ""
            THEN {"comparison-digests"} ELSE {}) = {}
    BY <1>1 DEF DigestUnknowns
  <2> QED
    BY <2>1, NoEvidence
<1> QED
  BY <1>1, <1>2, <1>4, <1>5, ClosedGraphIsExact DEF Exact, SameTools

\* What a closed warm run reuses was made from exactly the declarations at
\* hand, edge by edge, and by the present tools.
THEOREM ExactReuse == Spec => []ClosedReuseIsExact
BY LedgerInvariant, ExactInEachState, PTL

-----------------------------------------------------------------------------
(* An evaluation that closed redid only what it had to. *)

\* Declarations that close own each test id once.
LEMMA TestIdsAreUnique ==
    ASSUME Decoded(input), GraphRefutations(Decls) = {}, GraphUnknowns(Decls) = {},
           NEW s \in TestSlots(Decls), NEW t \in TestSlots(Decls), s[2] = t[2]
    PROVE  s = t
<1>1. PICK i \in DOMAIN Decls : \E a \in TestIds(Decls[i]) : s = <<i, a>>
  BY DEF TestSlots
<1>2. PICK j \in DOMAIN Decls : \E b \in TestIds(Decls[j]) : t = <<j, b>>
  BY DEF TestSlots
<1>3. PICK a \in TestIds(Decls[i]) \cap TestIds(Decls[j]) : s = <<i, a>> /\ t = <<j, a>>
  BY <1>1, <1>2
<1>4. Decls[i].identity = Decls[j].identity
  <2>1. Evidence("DUPLICATE_TEST", ClaimedTwice(TestClaims(Decls))) = {}
    BY DEF GraphRefutations
  <2>2. ClaimedTwice(TestClaims(Decls)) = {}
    BY <2>1, NoEvidence
  <2>3. /\ <<Decls[i].identity, a>> \in TestClaims(Decls)
        /\ <<Decls[j].identity, a>> \in TestClaims(Decls)
    BY DEF TestClaims
  <2> QED
    BY <2>2, <2>3 DEF ClaimedTwice
<1>5. i = j
  <2>1. Repeated(Decls, "identity") = {}
    BY ClosedGraphIsExact
  <2>2. i \in Nat /\ j \in Nat
    BY ListDomains
  <2>3. ~(i < j) /\ ~(j < i)
    BY <1>4, <2>1 DEF Repeated
  <2> QED
    BY <2>2, <2>3
<1> QED
  BY <1>3, <1>5

LEMMA IncrementalInEachState == Ledger => ClosedIsIncremental
<1> SUFFICES ASSUME Ledger, Closed
             PROVE  /\ \A i \in warm.compiled :
                          \/ Decls[i].identity \in Affected(Decls, Scenario.changes)
                          \/ Decls[i].identity \notin Keys(Scenario.cache, "module")
                    /\ \A slot \in warm.executed :
                          \/ Touched(Decls, slot) \cap Affected(Decls, Scenario.changes) # {}
                          \/ slot[2] \notin Keys(Scenario.testCache, "test")
  BY DEF ClosedIsIncremental
<1>1. /\ GraphRefutations(Decls) = {} /\ GraphUnknowns(Decls) = {}
      /\ RunRefutations("WARM", Decls, Scenario, affected) = {}
      /\ affected = Affected(Decls, Scenario.changes)
      /\ Decoded(input)
  BY ClosedIsClean
<1>2. PICK first \in FirstSlots(Decls) : warm = RunOf("WARM", Decls, Scenario, affected, first)
  BY ClosedIsClean
<1>3. ASSUME NEW i \in warm.compiled, Decls[i].identity \notin affected
      PROVE  Decls[i].identity \notin Keys(Scenario.cache, "module")
  <2>1. Evidence("STALE_CACHE_IDENTITY",
            Identities(Decls, StaleModules("WARM", Decls, Scenario, affected))) = {}
    BY <1>1 DEF RunRefutations
  <2>2. StaleModules("WARM", Decls, Scenario, affected) = {}
    BY <2>1, NoEvidence DEF Identities
  <2>3. i \in DOMAIN Decls /\ i \notin ReusedModules("WARM", Decls, Scenario, affected)
    BY <1>2, <1>3 DEF RunOf
  <2>4. i \in Consulting("WARM", Decls, affected)
    BY <1>3, <2>3 DEF Consulting
  <2> QED
    BY <2>2, <2>3, <2>4 DEF StaleModules, ReusedModules, Cached
<1>4. ASSUME NEW slot \in warm.executed, Touched(Decls, slot) \cap affected = {}
      PROVE  slot[2] \notin Keys(Scenario.testCache, "test")
  <2> DEFINE reused == ReusedTests("WARM", Decls, Scenario, affected)
  <2>1. slot \in TestSlots(Decls) /\ first[slot[2]] \notin reused
    BY <1>2, <1>4 DEF RunOf, Executed
  <2>2. first[slot[2]] = slot
    <3>1. slot[2] \in Ids(TestSlots(Decls))
      BY <2>1 DEF Ids
    <3>2. first[slot[2]] \in TestSlots(Decls) /\ first[slot[2]][2] = slot[2]
      BY <3>1 DEF FirstSlots
    <3> QED
      BY <1>1, <2>1, <3>2, TestIdsAreUnique
  <2>3. slot \in Unimpacted("WARM", Decls, affected)
    BY <1>4, <2>1 DEF Unimpacted
  <2>4. Evidence("STALE_TEST_CACHE_IDENTITY",
            Ids({s \in Unimpacted("WARM", Decls, affected) : TestCached(Scenario, s[2])}
                    \ reused)) = {}
    BY <1>1 DEF RunRefutations
  <2>5. {s \in Unimpacted("WARM", Decls, affected) : TestCached(Scenario, s[2])} \ reused = {}
    BY <2>4, NoEvidence DEF Ids
  <2> QED
    BY <2>1, <2>2, <2>3, <2>5 DEF TestCached
<1> QED
  BY <1>1, <1>3, <1>4

\* A closed warm run compiles only affected modules and cache misses, and
\* executes only the tests that touch the former and test cache misses.
THEOREM Incrementality == Spec => []ClosedIsIncremental
BY LedgerInvariant, IncrementalInEachState, PTL

-----------------------------------------------------------------------------
(* Claims and statuses. *)

LEMMA EarnedInEachState == Ledger => ImprovementIsEarned
<1> SUFFICES ASSUME Ledger, Decided, report.improvement.status = "CLOSED"
             PROVE  /\ report.decision = "CLOSED"
                    /\ Scenario.oracle.independent
                    /\ "" \notin {Scenario.source, Scenario.toolchain, Scenario.contract}
                    /\ report.improvement.ms > 0
                    /\ Scenario.warmMS + report.improvement.ms = Scenario.coldMS
  BY DEF ImprovementIsEarned
<1> DEFINE decision == Decision(refutations, unknowns)
<1>1. /\ report.decision = decision
      /\ report.improvement = Improvement(Scenario, decision)
  BY DEF Decided, Ledger, ReportLedger
<1>2. /\ decision = "CLOSED"
      /\ "" \notin {Scenario.source, Scenario.toolchain, Scenario.contract}
      /\ Scenario.coldMS > Scenario.warmMS
      /\ report.improvement.ms = Scenario.coldMS - Scenario.warmMS
  <2>1. Improvement(Scenario, decision).status = "CLOSED"
    BY <1>1
  <2>2. /\ decision = "CLOSED"
        /\ "" \notin {Scenario.source, Scenario.toolchain, Scenario.contract}
        /\ Scenario.coldMS > Scenario.warmMS
    <3> HIDE DEF decision
    <3> QED
      BY <2>1 DEF Improvement
  <2>3. Improvement(Scenario, decision).ms = Scenario.coldMS - Scenario.warmMS
    <3> HIDE DEF decision
    <3> QED
      BY <2>2 DEF Improvement
  <2> QED
    BY <1>1, <2>2, <2>3
<1>3. Closed
  BY <1>1, <1>2 DEF Closed
<1>4. Scenario.oracle.independent
  BY <1>3, ClosedIsClean DEF OracleUnknowns, OracleBound
<1>5. Scenario.coldMS \in Int /\ Scenario.warmMS \in Int
  BY ListDomains DEF Ledger
<1>6. /\ report.improvement.ms > 0
      /\ Scenario.warmMS + report.improvement.ms = Scenario.coldMS
  <2>1. \A x, y \in Int : x > y => x - y > 0 /\ y + (x - y) = x
    OBVIOUS
  <2> QED
    BY <1>2, <1>5, <2>1
<1> QED
  BY <1>1, <1>2, <1>4, <1>6

\* An improvement is claimed only for a closed, bound, strictly faster run.
THEOREM EarnedImprovement == Spec => []ImprovementIsEarned
BY LedgerInvariant, EarnedInEachState, PTL

LEMMA EmittedInEachState == Ledger => EmittedWithinDecision
<1> DEFINE Later == (refutations \ GraphRefutations(Decls)) \cup (unknowns \ GraphUnknowns(Decls))
<1> SUFFICES ASSUME Ledger, Decided
             PROVE  /\ emitted = "REFUTED" => report.decision = "REFUTED"
                    /\ emitted = "UNKNOWN" => report.decision # "CLOSED"
                    /\ emitted = "CLOSED" => \A edge \in graph.edges : edge.status = "CLOSED"
                    /\ emitted # report.decision => Later # {}
  BY DEF EmittedWithinDecision
<1>0. graph = LinkedGraph(Decls)
  BY DEF Decided, Ledger, GraphLedger, AfterOracle, AfterWarm, AfterCold,
         AfterEmit, AfterAffected, AfterDigests, AfterGraph
<1>1. /\ emitted = Decision(GraphRefutations(Decls), GraphUnknowns(Decls))
      /\ GraphRefutations(Decls) \subseteq refutations
      /\ GraphUnknowns(Decls) \subseteq unknowns
  BY DEF Decided, Ledger, GraphLedger, LinkedGraph, AfterOracle, AfterWarm, AfterCold,
         AfterEmit, AfterAffected, AfterDigests, AfterGraph
<1>2. report.decision = Decision(refutations, unknowns)
  BY DEF Decided, Ledger, ReportLedger
<1>3. /\ emitted = "REFUTED" => report.decision = "REFUTED"
      /\ emitted = "UNKNOWN" => report.decision # "CLOSED"
  BY <1>1, <1>2 DEF Decision
<1>4. ASSUME emitted = "CLOSED", NEW edge \in graph.edges
      PROVE  edge.status = "CLOSED"
  <2>1. GraphRefutations(Decls) = {} /\ GraphUnknowns(Decls) = {}
    BY <1>1, <1>4 DEF Decision
  <2>2. PICK i \in DOMAIN Decls : \E dep \in Decls[i].deps :
            edge = [from |-> Decls[i].identity, dep |-> dep, status |-> EdgeStatus(Decls, dep)]
    BY <1>0, <1>4 DEF LinkedGraph
  <2> PICK dep \in Decls[i].deps :
            edge = [from |-> Decls[i].identity, dep |-> dep, status |-> EdgeStatus(Decls, dep)]
    BY <2>2
  <2>3. EdgeStatus(Decls, dep) = "CLOSED"
    BY <2>1, CleanEdges
  <2> QED
    BY <2>3
<1>5. ASSUME emitted # report.decision PROVE Later # {}
  <2> SUFFICES ASSUME Later = {} PROVE FALSE
    OBVIOUS
  <2>1. refutations = GraphRefutations(Decls) /\ unknowns = GraphUnknowns(Decls)
    BY <1>1
  <2> QED
    BY <1>1, <1>2, <1>5, <2>1
<1> QED
  BY <1>3, <1>4, <1>5

\* The status in the generated program is never worse than the decision, and
\* better only for evidence that came after the graph.
THEOREM EmittedStatus == Spec => []EmittedWithinDecision
BY LedgerInvariant, EmittedInEachState, PTL

-----------------------------------------------------------------------------
(* The lists of the two runs. *)

\* What the lists of one run have to do with one another when no two slots
\* share a test id.
LEMMA ListsOfRun ==
    ASSUME NEW mode \in Modes, NEW reach, NEW first \in FirstSlots(Decls),
           \A s, t \in TestSlots(Decls) : s[2] = t[2] => s = t
    PROVE  LET run == RunOf(mode, Decls, Scenario, reach, first)
           IN  /\ run.selected \cup run.reusedTests = TestSlots(Decls)
               /\ run.selected \cap run.reusedTests = {}
               /\ run.executed = run.selected \ run.unknownTests
               /\ mode = "COLD" => run.selected = TestSlots(Decls)
<1> DEFINE slots    == TestSlots(Decls)
           reused   == ReusedTests(mode, Decls, Scenario, reach)
           observed == {slot \in slots : Observed(Scenario, slot[2])}
           run      == RunOf(mode, Decls, Scenario, reach, first)
<1>1. /\ run.selected = slots \ reused
      /\ run.reusedTests = reused
      /\ run.unknownTests = slots \ observed
      /\ run.executed = Executed(Decls, Scenario, reused, first)
  BY DEF RunOf
<1>2. reused \subseteq slots
  BY DEF ReusedTests, Unimpacted
<1>3. mode = "COLD" => reused = {}
  BY DEF ReusedTests, Unimpacted
<1>4. \A slot \in slots : first[slot[2]] = slot
  BY DEF FirstSlots, Ids
<1>5. Executed(Decls, Scenario, reused, first) = observed \ reused
  BY <1>4 DEF Executed
<1> QED
  BY <1>1, <1>2, <1>3, <1>5

LEMMA ListsInEachState == Ledger => TestListsAddUp
<1> SUFFICES ASSUME Ledger, Decided, \A s, t \in TestSlots(Decls) : s[2] = t[2] => s = t
             PROVE  /\ \A run \in {cold, warm} :
                          /\ run.selected \cup run.reusedTests = TestSlots(Decls)
                          /\ run.selected \cap run.reusedTests = {}
                          /\ run.executed = run.selected \ run.unknownTests
                    /\ cold.executed = TestSlots(Decls) \ cold.unknownTests
                    /\ warm.failed = cold.failed
  BY DEF TestListsAddUp
<1>1. PICK c \in FirstSlots(Decls) :
         cold = RunOf("COLD", Decls, Scenario, Known(Decls), c)
  BY DEF Decided, Ledger, ColdLedger, AfterCold, AfterWarm, AfterOracle
<1>2. PICK w \in FirstSlots(Decls) :
         warm = RunOf("WARM", Decls, Scenario, affected, w)
  BY DEF Decided, Ledger, WarmLedger, AfterWarm, AfterOracle
<1>3. "COLD" \in Modes /\ "WARM" \in Modes
  BY DEF Modes
<1>4. /\ cold.selected \cup cold.reusedTests = TestSlots(Decls)
      /\ cold.selected \cap cold.reusedTests = {}
      /\ cold.executed = cold.selected \ cold.unknownTests
      /\ cold.selected = TestSlots(Decls)
  BY <1>1, <1>3, ListsOfRun
<1>5. /\ warm.selected \cup warm.reusedTests = TestSlots(Decls)
      /\ warm.selected \cap warm.reusedTests = {}
      /\ warm.executed = warm.selected \ warm.unknownTests
  BY <1>2, <1>3, ListsOfRun
<1>6. warm.failed = cold.failed
  BY <1>1, <1>2 DEF RunOf
<1> QED
  BY <1>4, <1>5, <1>6

\* With unique test ids the lists of both runs partition the tests, and both
\* runs see the same failures.
THEOREM ListsAddUp == Spec => []TestListsAddUp
BY LedgerInvariant, ListsInEachState, PTL

-----------------------------------------------------------------------------
(* Types. *)

LEMMA RunTypes ==
    ASSUME NEW mode, NEW reach, NEW first
    PROVE  RunOf(mode, Decls, Scenario, reach, first) \in Run
<1>1. ReusedModules(mode, Decls, Scenario, reach) \subseteq Slots
  BY DEF ReusedModules, Consulting, Slots
<1>2. ReusedTests(mode, Decls, Scenario, reach) \subseteq TestSlots(Decls)
  BY DEF ReusedTests, Unimpacted
<1>3. Executed(Decls, Scenario, ReusedTests(mode, Decls, Scenario, reach), first)
          \subseteq TestSlots(Decls)
  BY DEF Executed
<1> QED
  BY <1>1, <1>2, <1>3 DEF RunOf, Run, Slots

LEMMA DecisionTypes ==
    ASSUME NEW refuted, NEW unknown
    PROVE  Decision(refuted, unknown) \in Decisions
BY DEF Decision, Decisions

LEMMA ClaimTypes ==
    ASSUME Decoded(input), NEW decision
    PROVE  Improvement(Scenario, decision) \in Claim
<1>1. Scenario.coldMS \in Int /\ Scenario.warmMS \in Int
  BY ListDomains
<1>2. \A x, y \in Int : x > y => x - y \in Nat
  OBVIOUS
<1>3. Scenario.coldMS > Scenario.warmMS => Scenario.coldMS - Scenario.warmMS \in Nat
  BY <1>1, <1>2
<1> QED
  BY <1>3 DEF Improvement, Claim

LEMMA InitEstablishesTypes == Init => TypeOK
BY DEF Init, TypeOK, Stages

LEMMA StepPreservesTypes == Ledger /\ TypeOK /\ [Next]_vars => TypeOK'
<1> SUFFICES ASSUME Ledger, TypeOK, [Next]_vars PROVE TypeOK'
  OBVIOUS
<1> USE DEF TypeOK, Stages
<1>1. CASE Validate
  BY <1>1 DEF Validate, produced, Decls, Slots, Run
<1>2. CASE Reject
  BY <1>2 DEF Reject, produced, Decls, Slots, Run
<1>3. CASE BuildGraph
  <2>1. graph'.status \in Decisions
    BY <1>3, DecisionTypes DEF BuildGraph, LinkedGraph
  <2> QED
    BY <1>3, <2>1 DEF BuildGraph, Record, Decls, Slots, Run
<1>4. CASE BindDigests
  BY <1>4 DEF BindDigests, Record, produced, Decls, Slots, Run
<1>5. CASE ComputeAffected
  <2>1. affected' \subseteq Known(Decls)
    BY <1>5 DEF ComputeAffected, Affected
  <2> QED
    BY <1>5, <2>1 DEF ComputeAffected, Record, Decls, Slots, Run
<1>6. CASE Emit
  <2>1. graph.status \in Decisions
    BY <1>6, DecisionTypes DEF Emit, Ledger, GraphLedger, LinkedGraph, AfterGraph,
       AfterDigests, AfterAffected
  <2> QED
    BY <1>6, <2>1 DEF Emit, Decls, Slots, Run
<1>7. CASE RejectPlan
  BY <1>7 DEF RejectPlan, produced, Decls, Slots, Run
<1>8. CASE RunCold
  <2>1. cold' \in Run
    BY <1>8, RunTypes DEF RunCold
  <2> QED
    BY <1>8, <2>1 DEF RunCold, Record, Decls, Slots, Run
<1>9. CASE RunWarm
  <2>1. warm' \in Run
    BY <1>9, RunTypes DEF RunWarm
  <2> QED
    BY <1>9, <2>1 DEF RunWarm, Record, Decls, Slots, Run
<1>10. CASE CheckOracleCold
  BY <1>10 DEF CheckOracleCold, Record, produced, Decls, Slots, Run
<1>11. CASE CheckOracleWarm
  BY <1>11 DEF CheckOracleWarm, Record, produced, Decls, Slots, Run
<1>12. CASE Decide
  <2>1. report' \in Report
    BY <1>12, DecisionTypes, ClaimTypes DEF Decide, Report, Ledger
  <2> QED
    BY <1>12, <2>1 DEF Decide, Decls, Slots, Run
<1>13. CASE Terminated \/ UNCHANGED vars
  BY <1>13 DEF Terminated, vars, produced, Decls, Slots, Run
<1> QED
  BY <1>1, <1>2, <1>3, <1>4, <1>5, <1>6, <1>7, <1>8, <1>9, <1>10, <1>11, <1>12, <1>13 DEF Next

\* Every result is absent or of its type; a claimed gain is a natural number.
THEOREM TypeCorrect == Spec => []TypeOK
<1>1. Init => Ledger /\ TypeOK
  BY InitEstablishesLedger, InitEstablishesTypes
<1>2. (Ledger /\ TypeOK) /\ [Next]_vars => (Ledger /\ TypeOK)'
  BY StepPreservesLedger, StepPreservesTypes
<1> QED
  BY <1>1, <1>2, PTL DEF Spec

-----------------------------------------------------------------------------
(* What closes has no cycle. *)

LEMMA AcyclicInEachState == Ledger /\ TypeOK => ClosedGraphIsAcyclic
<1> SUFFICES ASSUME Ledger, TypeOK, Closed, NEW S \in (SUBSET Known(Decls)) \ {{}}
             PROVE  \E i \in DOMAIN Decls :
                        /\ Decls[i].identity \in S
                        /\ \A dep \in Decls[i].deps : dep.target \notin S
  BY DEF ClosedGraphIsAcyclic
<1> DEFINE Digest(i) == ModuleSemanticDigest(Decls[i])
           D == {Digest(i) : i \in {j \in DOMAIN Decls : Decls[j].identity \in S}}
<1>1. /\ \A i \in DOMAIN Decls : Decls[i].digest = Digest(i)
      /\ \A i \in DOMAIN Decls : \A dep \in Decls[i].deps : \E j \in DOMAIN Decls :
            Decls[j].identity = dep.target /\ dep.digest = Decls[j].digest
  BY ClosedIsClean, ClosedGraphIsExact
<1>2. D \in (SUBSET {Digest(i) : i \in DOMAIN Decls}) \ {{}}
  <2>1. PICK m \in S : m \in Known(Decls)
    OBVIOUS
  <2>2. PICK i \in DOMAIN Decls : Decls[i].identity \in S
    BY <2>1 DEF Known
  <2>3. Digest(i) \in D
    BY <2>2
  <2> QED BY <2>3
<1>3. PICK k \in DOMAIN Decls : Digest(k) \in D /\ \A dep \in Decls[k].deps : dep.digest \notin D
  <2>1. Hashed(Decls)
    BY DigestAssumption DEF TypeOK, Decls
  <2> HIDE DEF D
  <2> QED BY <1>2, <2>1 DEF Hashed
<1>4. PICK i \in DOMAIN Decls : Decls[i].identity \in S /\ Digest(i) = Digest(k)
  BY <1>3
\* Two modules with one digest have the same edges.
<1>5. Decls[i].deps = Decls[k].deps
  BY <1>4 DEF ModuleSemanticDigest, Sha, Content
<1>6. ASSUME NEW dep \in Decls[i].deps, dep.target \in S PROVE FALSE
  <2>1. PICK j \in DOMAIN Decls : Decls[j].identity = dep.target /\ dep.digest = Digest(j)
    BY <1>1
  <2>2. dep.digest \in D
    BY <1>6, <2>1
  <2> QED BY <1>3, <1>5, <2>2
<1> QED BY <1>4, <1>6

\* Around a cycle of edges some edge names no digest of its target, so no
\* evaluation with a cycle closes, although nothing ever looks for one.
THEOREM Acyclicity == Spec => []ClosedGraphIsAcyclic
BY LedgerInvariant, TypeCorrect, AcyclicInEachState, PTL

-----------------------------------------------------------------------------
(* The evidence is exact. *)

AfterOracleCold == {"oracle warm"} \cup AfterOracle

From(passed, evidence) == IF stage \in passed THEN evidence ELSE {}

\* Nothing but the evidence of the stages that have passed, each once.
Accounts ==
    stage # "rejected" =>
        /\ unknowns =
              From(AfterGraph, GraphUnknowns(Decls))
              \cup From(AfterDigests, DigestUnknowns(Scenario))
              \cup From(AfterAffected, ChangeUnknowns(Decls, Scenario.changes))
              \cup From(AfterCold, RunUnknowns(Decls, Scenario))
              \cup From(AfterOracleCold, OracleUnknowns("COLD", Scenario, cold))
              \cup From(AfterOracle, OracleUnknowns("WARM", Scenario, warm))
        /\ refutations =
              From(AfterGraph, GraphRefutations(Decls))
              \cup From(AfterCold, RunRefutations("COLD", Decls, Scenario, Known(Decls)))
              \cup From(AfterWarm, RunRefutations("WARM", Decls, Scenario, affected))
              \cup From(AfterOracleCold, OracleRefutations("COLD", Scenario, cold))
              \cup From(AfterOracle, OracleRefutations("WARM", Scenario, warm))

LEMMA InitEstablishesAccounts == Init => Accounts
BY DEF Init, Accounts, From, AfterOracleCold, AfterOracle, AfterWarm, AfterCold, AfterEmit,
       AfterAffected, AfterDigests, AfterGraph

LEMMA StepPreservesAccounts == Ledger /\ Accounts /\ [Next]_vars => Accounts'
<1> SUFFICES ASSUME Ledger, Accounts, [Next]_vars PROVE Accounts'
  OBVIOUS
<1> USE DEF Accounts, From, Decls, Scenario, AfterOracleCold, AfterOracle, AfterWarm,
       AfterCold, AfterEmit, AfterAffected, AfterDigests, AfterGraph
<1>1. CASE Validate
  BY <1>1 DEF Validate, produced
<1>2. CASE Reject \/ RejectPlan
  BY <1>2 DEF Reject, RejectPlan
<1>3. CASE BuildGraph
  BY <1>3 DEF BuildGraph, Record
<1>4. CASE BindDigests
  BY <1>4 DEF BindDigests, Record, produced
<1>5. CASE ComputeAffected
  BY <1>5 DEF ComputeAffected, Record
<1>6. CASE Emit
  BY <1>6 DEF Emit
<1>7. CASE RunCold
  BY <1>7 DEF RunCold, Record
<1>8. CASE RunWarm
  BY <1>8 DEF RunWarm, Record
<1>9. CASE CheckOracleCold
  BY <1>9 DEF CheckOracleCold, Record, produced
<1>10. CASE CheckOracleWarm
  BY <1>10 DEF CheckOracleWarm, Record, produced
<1>11. CASE Decide
  BY <1>11 DEF Decide
<1>12. CASE Terminated \/ UNCHANGED vars
  <2>1. UNCHANGED <<input, stage, unknowns, refutations, affected, cold, warm>>
    BY <1>12 DEF Terminated, vars, produced
  <2> QED BY <2>1
<1> QED
  BY <1>1, <1>2, <1>3, <1>4, <1>5, <1>6, <1>7, <1>8, <1>9, <1>10, <1>11, <1>12 DEF Next

LEMMA AccountsInvariant == Spec => []Accounts
<1>1. Init => Ledger /\ Accounts
  BY InitEstablishesLedger, InitEstablishesAccounts
<1>2. (Ledger /\ Accounts) /\ [Next]_vars => (Ledger /\ Accounts)'
  BY StepPreservesLedger, StepPreservesAccounts
<1> QED BY <1>1, <1>2, PTL DEF Spec

\* Both runs are compared with the oracle on all tests, selected or reused.
Compared(decls) == [selected |-> TestSlots(decls), reusedTests |-> {}]

AllUnknowns(decls, scn) ==
    GraphUnknowns(decls) \cup DigestUnknowns(scn) \cup ChangeUnknowns(decls, scn.changes)
    \cup RunUnknowns(decls, scn)
    \cup OracleUnknowns("COLD", scn, Compared(decls))
    \cup OracleUnknowns("WARM", scn, Compared(decls))

AllRefutations(decls, scn) ==
    GraphRefutations(decls)
    \cup RunRefutations("COLD", decls, scn, Known(decls))
    \cup RunRefutations("WARM", decls, scn, Affected(decls, scn.changes))
    \cup OracleRefutations("COLD", scn, Compared(decls))
    \cup OracleRefutations("WARM", scn, Compared(decls))

\* The arguments alone, whatever order the tests were planned in.
DecidedByInput ==
    Decided => report.decision = Decision(AllRefutations(Decls, Scenario),
                                          AllUnknowns(Decls, Scenario))

LEMMA SameTestsCompared ==
    ASSUME NEW mode, NEW reach, NEW first, NEW run,
           run = RunOf(mode, Decls, Scenario, reach, first)
    PROVE  ComparedTests(run) = ComparedTests(Compared(Decls))
<1>1. ReusedTests(mode, Decls, Scenario, reach) \subseteq TestSlots(Decls)
  BY DEF ReusedTests, Unimpacted
<1>2. /\ run.selected = TestSlots(Decls) \ ReusedTests(mode, Decls, Scenario, reach)
      /\ run.reusedTests = ReusedTests(mode, Decls, Scenario, reach)
  BY DEF RunOf
<1>3. run.selected \cup run.reusedTests = TestSlots(Decls)
  BY <1>1, <1>2
<1> QED BY <1>3 DEF ComparedTests, Compared

LEMMA DecidedInEachState == Ledger /\ Accounts => DecidedByInput
<1> SUFFICES ASSUME Ledger, Accounts, Decided
             PROVE  report.decision = Decision(AllRefutations(Decls, Scenario),
                                               AllUnknowns(Decls, Scenario))
  BY DEF DecidedByInput
<1>1. stage = "done"
  BY DEF Decided
<1>2. affected = Affected(Decls, Scenario.changes)
  BY <1>1 DEF Ledger, AffectedLedger, AfterAffected, AfterEmit, AfterCold, AfterWarm, AfterOracle
<1>3. ComparedTests(cold) = ComparedTests(Compared(Decls))
  BY <1>1, SameTestsCompared DEF Ledger, ColdLedger, AfterCold, AfterWarm, AfterOracle
<1>4. ComparedTests(warm) = ComparedTests(Compared(Decls))
  BY <1>1, SameTestsCompared DEF Ledger, WarmLedger, AfterWarm, AfterOracle
<1>5. /\ OracleUnknowns("COLD", Scenario, cold) = OracleUnknowns("COLD", Scenario, Compared(Decls))
      /\ OracleRefutations("COLD", Scenario, cold)
            = OracleRefutations("COLD", Scenario, Compared(Decls))
  BY <1>3 DEF OracleUnknowns, OracleRefutations
<1>6. /\ OracleUnknowns("WARM", Scenario, warm) = OracleUnknowns("WARM", Scenario, Compared(Decls))
      /\ OracleRefutations("WARM", Scenario, warm)
            = OracleRefutations("WARM", Scenario, Compared(Decls))
  BY <1>4 DEF OracleUnknowns, OracleRefutations
<1>7. /\ unknowns = AllUnknowns(Decls, Scenario)
      /\ refutations = AllRefutations(Decls, Scenario)
  BY <1>1, <1>2, <1>5, <1>6 DEF Accounts, From, AfterOracleCold, AfterOracle, AfterWarm,
       AfterCold, AfterEmit, AfterAffected, AfterDigests, AfterGraph, AllUnknowns, AllRefutations
<1>8. report.decision = Decision(refutations, unknowns)
  BY <1>1 DEF Ledger, ReportLedger
<1> QED BY <1>7, <1>8

\* The decision is a function of the arguments: it is the reduction of all the
\* evidence of all stages and of nothing else, and the order in which equal
\* test ids happen to be planned has no say in it.
THEOREM DecisionIsExact == Spec => []DecidedByInput
BY LedgerInvariant, AccountsInvariant, DecidedInEachState, PTL
=============================================================================
