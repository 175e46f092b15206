--------------------------- MODULE MCInvalidation ---------------------------
(***************************************************************************)
(* Every graph of three modules over semantic and documentation edges      *)
(* (cycles included), plus graphs with a self dependency, a dependency on  *)
(* an undeclared module, a dependency through an undeclared rule and an    *)
(* identity declared twice with contradictory rules; against change lists  *)
(* with repetition, unknown modules and unsupported kinds.                 *)
(***************************************************************************)
EXTENDS Invalidation

Modules    == {"a", "b", "c"}
MCIdentity == Modules \cup {"ghost"}

Rules(kind) == {[id |-> "on-change", kind |-> kind],
                [id |-> "on-doc",    kind |-> "documentation"]}

Edges == {<<m, n>> \in Modules \X Modules : m # n}

Dep(n, rule) == [target |-> n, invalidates |-> rule]

Decl(m, deps, kind) ==
    [identity |-> m, deps |-> deps, rules |-> Rules(kind)]

DepsOf(m, label) ==
    {Dep(e[2], label[e]) : e \in {f \in Edges : f[1] = m /\ label[f] # "none"}}

\* extra is what module a depends on besides its labelled edges; kind is the
\* kind of b's rule on-change.
Graph(label, extra, kind) ==
    << Decl("a", DepsOf("a", label) \cup extra, "semantic"),
       Decl("b", DepsOf("b", label), kind),
       Decl("c", DepsOf("c", label), "semantic") >>

Extras == {{}, {Dep("a", "on-change"), Dep("ghost", "on-change")}, {Dep("b", "undeclared")}}

Plain == {Graph(label, extra, "semantic") :
            label \in [Edges -> {"none", "on-change", "on-doc"}], extra \in Extras}

\* b is declared twice, first with rules of one kind and last of the other.
Duplicated ==
    {LET g == Graph(label, {}, kind)
     IN  << g[1], g[2], Decl("b", {Dep("c", "on-change")}, other), g[3] >> :
        label \in [Edges -> {"none", "on-change"}],
        kind \in {"semantic", "documentation"}, other \in {"semantic", "documentation"}}

Sem(m) == [module |-> m, kind |-> "semantic"]
Doc(m) == [module |-> m, kind |-> "nonsemantic"]

ChangeLists ==
    { <<>>, <<Sem("a")>>, <<Sem("b")>>,
      <<Sem("c"), Doc("a"), Sem("c")>>,
      <<Sem("ghost"), Doc("b"), Sem("c")>>,
      <<Sem("b"), Sem("a"), [module |-> "c", kind |-> "rename"]>> }

MCInputs == [decls : Plain \cup Duplicated, changes : ChangeLists]
=============================================================================
