--------------------------- MODULE MCEvaluatePlan ---------------------------
(***************************************************************************)
(* Two modules, b depending on a through a semantic or a documentation     *)
(* rule, and every combination of changes, module cache, test cache,       *)
(* observations and oracle that tells the branches of planning apart.      *)
(***************************************************************************)
EXTENDS Evaluate

Sealed(identity, deps, kind, tests) ==
    LET draft == [identity |-> identity, release |-> "v1", exports |-> {identity},
                  deps |-> deps, rules |-> {[id |-> "rule", kind |-> kind]},
                  tests |-> tests, digest |-> NoDigest]
    IN  [draft EXCEPT !.digest = ModuleSemanticDigest(draft)]

A(kind) == Sealed("a", {}, kind, {[id |-> "ta", covers |-> {"a"}]})
B(a, id) ==
    Sealed("b", {[target |-> "a", release |-> "v1", digest |-> a.digest,
                  edge |-> "b-a", invalidates |-> "rule"]},
           "semantic", {[id |-> id, covers |-> {"b"}]})

\* In the last family both modules own a test of the same id.
Graph(kind, id) == << A(kind), B(A(kind), id) >>
Graphs == {Graph("semantic", "tb"), Graph("documentation", "tb"), Graph("semantic", "ta")}

\* b as it was before a's current declaration: its edge names no digest of a.
OldB == Sealed("b", {}, "semantic", {})

Change(m, kind) == [module |-> m, kind |-> kind]
ChangeLists ==
    { <<>>, <<Change("a", "semantic")>>, <<Change("b", "semantic")>>,
      <<Change("a", "nonsemantic"), Change("b", "nonsemantic")>>,
      <<Change("ghost", "semantic")>> }

Entry(decl) ==
    [module |-> decl.identity, immutable |-> TRUE, semantic |-> decl.digest,
     dependency |-> DependencyDigest(decl), toolchain |-> "t", contract |-> "c",
     result |-> "o"]

Caches(g) ==
    LET a == Entry(g[1])
        b == Entry(g[2])
        stale == [b EXCEPT !.semantic = OldB.digest, !.dependency = DependencyDigest(OldB)]
    IN  { <<>>, <<a, b>>, <<b>>, <<a, stale>>, <<a, b, stale>>,
          << [a EXCEPT !.toolchain = "t0"], b >>,
          << [a EXCEPT !.immutable = FALSE], [b EXCEPT !.result = ""] >> }

TestEntry(id) == [test |-> id, immutable |-> TRUE, toolchain |-> "t", contract |-> "c",
                  result |-> "r"]
TestCaches ==
    LET a == TestEntry("ta")
        b == TestEntry("tb")
    IN  { <<>>, <<a, b>>, <<b>>,
          << a, [b EXCEPT !.result = "r0"] >>,
          << a, [b EXCEPT !.contract = "c0"] >>,
          << b, [b EXCEPT !.result = "r0"], a >> }

Pass(id, result) == [test |-> id, status |-> "PASS", result |-> result]
Fail(id, result) == [test |-> id, status |-> "FAIL", result |-> result]
BothPass == << Pass("ta", "r"), Pass("tb", "r") >>
Observations ==
    { BothPass, << Fail("ta", "r"), Pass("tb", "r") >>, << Pass("ta", "r") >>,
      << Pass("ta", "r"), Pass("tb", "r0") >>,
      << Pass("ta", "r"), Pass("tb", "r"), Pass("tb", "r0") >> }

Oracle(results) == [independent |-> TRUE, digest |-> Sha(results), results |-> results]
Oracles ==
    { Oracle(BothPass), Oracle(<< Fail("ta", "r"), Pass("tb", "r") >>),
      Oracle(<< Pass("ta", "r") >>), Oracle(<< Pass("ta", "r"), Pass("tb", "r0") >>),
      Oracle(<< Pass("ta", "r"), Pass("tb", "r"), Pass("tb", "r0") >>),
      [Oracle(BothPass) EXCEPT !.independent = FALSE],
      [Oracle(BothPass) EXCEPT !.digest = NoDigest],
      [Oracle(BothPass) EXCEPT !.results = << Pass("ta", "r") >>] }

\* The scenarios over a graph, all of whose digests are bound.
ScenariosOf(g) ==
    [source : {"s"}, toolchain : {"t"}, contract : {"c"}, changes : ChangeLists,
     cache : Caches(g), testCache : TestCaches, observations : Observations,
     oracle : Oracles, coldMS : {3}, warmMS : {1}]

Accepts == [valid |-> TRUE, emittable |-> TRUE]

PlannedOn(g) == [decls : {g}, scenario : ScenariosOf(g), policy : {Accepts}]

\* Scenarios without a digest or without a gain, and those that are refused.
Usual ==
    [source |-> "s", toolchain |-> "t", contract |-> "c", changes |-> <<>>,
     cache |-> <<Entry(A("semantic"))>>, testCache |-> <<TestEntry("ta")>>,
     observations |-> BothPass, oracle |-> Oracle(BothPass), coldMS |-> 3, warmMS |-> 1]
Variants ==
    { Usual, [Usual EXCEPT !.source = ""], [Usual EXCEPT !.contract = ""],
      [Usual EXCEPT !.toolchain = "", !.cache = <<>>, !.testCache = <<>>],
      [Usual EXCEPT !.warmMS = 3], [Usual EXCEPT !.warmMS = 4], [Usual EXCEPT !.warmMS = -1],
      [Usual EXCEPT !.changes = <<Change("a", "")>>],
      [Usual EXCEPT !.observations = << Pass("ta", "") >>] }

Varied ==
    [decls : {Graph("semantic", "tb")}, scenario : Variants,
     policy : {Accepts, [Accepts EXCEPT !.valid = FALSE], [Accepts EXCEPT !.emittable = FALSE]}]

MCInputs ==
    PlannedOn(Graph("semantic", "tb")) \cup PlannedOn(Graph("documentation", "tb"))
    \cup PlannedOn(Graph("semantic", "ta")) \cup Varied

ASSUME \A g \in Graphs : \A i \in DOMAIN g : WellFormed(g[i])
=============================================================================
