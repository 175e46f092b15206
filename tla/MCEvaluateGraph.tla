-------------------------- MODULE MCEvaluateGraph --------------------------
(***************************************************************************)
(* Two modules, every way this model knows to link them wrongly, and a     *)
(* scenario that leaves the decision to the graph.                         *)
(***************************************************************************)
EXTENDS Evaluate

OnChange == {[id |-> "on-change", kind |-> "semantic"]}

\* A declaration whose digest is that of its content.
Sealed(identity, release, exports, deps, tests) ==
    LET draft == [identity |-> identity, release |-> release, exports |-> exports,
                  deps |-> deps, rules |-> OnChange, tests |-> tests, digest |-> NoDigest]
    IN  [draft EXCEPT !.digest = ModuleSemanticDigest(draft)]

Test(id, covers) == [id |-> id, covers |-> covers]

Edge(from, target, release, digest, rule) ==
    [target |-> target, release |-> release, digest |-> digest,
     edge |-> from \o "-" \o target, invalidates |-> rule]

\* Module b without dependencies; its digest is what a wrong edge may name.
OldB == Sealed("b", "v1", {"B"}, {}, {})

DepsOfA ==
    { {}, {Edge("a", "ghost", "v1", OldB.digest, "on-change")} }
    \cup {{Edge("a", target, "v1", digest, "on-change")} :
            target \in {"a", "b"}, digest \in {OldB.digest, NoDigest}}

A(deps, release) == Sealed("a", release, {"A"}, deps, {Test("ta", {"a"})})

DepsOfB(a) ==
    {{}} \cup {{Edge("b", "a", release, digest, rule)} :
                release \in {"v1", "v2"}, digest \in {a.digest, OldB.digest, NoDigest},
                rule \in {"on-change", "undeclared"}}

TestsOfB == {{Test("tb", {"a", "b"})}, {Test("ta", {"b"})}, {Test("tb", {"ghost"})}}

Bs(a) == {Sealed("b", "v1", exports, deps, tests) :
            exports \in {{"B"}, {"A"}}, deps \in DepsOfB(a), tests \in TestsOfB}

\* b as declared, or after an edit that did not renew its digest.
Edited(b) == [b EXCEPT !.exports = @ \cup {"New"}]

Graphs == UNION {UNION {
    { <<a, b>>, <<a, Edited(b)>>, <<a, a, b>>, <<a, A(a.deps, "v2"), b>> } :
        b \in Bs(a)} : a \in {A(deps, "v1") : deps \in DepsOfA}}

Pass(id) == [test |-> id, status |-> "PASS", result |-> "r"]
Results  == <<Pass("ta"), Pass("tb")>>

Scenarios ==
    {[source |-> "s", toolchain |-> "t", contract |-> "c",
      changes |-> changes, cache |-> <<>>, testCache |-> <<>>,
      observations |-> Results,
      oracle |-> [independent |-> TRUE, digest |-> Sha(Results), results |-> Results],
      coldMS |-> 2, warmMS |-> 1] :
        changes \in {<<>>, <<[module |-> "a", kind |-> "semantic"]>>,
                     <<[module |-> "ghost", kind |-> "semantic"]>>,
                     <<[module |-> "b", kind |-> "rename"]>>}}

MCInputs == [decls : Graphs, scenario : Scenarios,
             policy : {[valid |-> TRUE, emittable |-> TRUE]}]

ASSUME \A g \in Graphs : \A i \in DOMAIN g : WellFormed(g[i])
=============================================================================
