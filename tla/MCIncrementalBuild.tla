------------------------- MODULE MCIncrementalBuild -------------------------
(***************************************************************************)
(* A chain of three modules: shared depends on core through a semantic     *)
(* rule, leaf on shared through a documentation rule.                      *)
(***************************************************************************)
EXTENDS IncrementalBuild

First(m, deps, kind) ==
    LET draft == [identity |-> m, release |-> "v1", digest |-> NoDigest, exports |-> {<<m, 0>>},
                  deps |-> deps, rules |-> {[id |-> "rule", kind |-> kind]}, tests |-> {}]
    IN  [draft EXCEPT !.digest = ModuleSemanticDigest(draft)]

On(from, target) ==
    [target |-> target.identity, release |-> "v1", digest |-> target.digest,
     edge |-> from \o "-" \o target.identity, invalidates |-> "rule"]

Core   == First("core", {}, "semantic")
Shared == First("shared", {On("shared", Core)}, "documentation")
Leaf   == First("leaf", {On("leaf", Shared)}, "semantic")

MCOrder      == <<"core", "leaf", "shared">>
MCFirstDecls == [m \in {"core", "leaf", "shared"} |->
                    CASE m = "core" -> Core [] m = "leaf" -> Leaf [] m = "shared" -> Shared]
MCInputs     == {}
=============================================================================
