---------------------------- MODULE ModuleGraph ----------------------------
(***************************************************************************)
(* buildGraph (internal/compiler/evaluate.go): what resolving the          *)
(* declarations against one another records as refuted and as unknown, and *)
(* the status of every edge.  An identity declared twice is resolved to    *)
(* its first declaration here, and to its last one by computeAffected.     *)
(***************************************************************************)
EXTENDS Declarations

\* byID[m] in buildGraph.
FirstDecl(decls, m) == FirstWith(decls, "identity", m)

\* The positions of the declarations that byID keeps.
Kept(decls) ==
    {i \in DOMAIN decls : \A j \in DOMAIN decls :
        decls[j].identity = decls[i].identity => i <= j}

TestIds(decl) == {test.id : test \in decl.tests}

\* Pairs of an identity and a symbol it exports, or a test id it owns.
ExportClaims(decls) ==
    UNION {{decls[i].identity} \X decls[i].exports : i \in DOMAIN decls}
TestClaims(decls) ==
    UNION {{decls[i].identity} \X TestIds(decls[i]) : i \in DOMAIN decls}

\* What two different identities claim.
ClaimedTwice(claims) ==
    {c[2] : c \in {p \in claims : \E q \in claims : q[2] = p[2] /\ q[1] # p[1]}}

\* The dependencies of all declarations.
AllDeps(decls)      == UNION {decls[i].deps : i \in DOMAIN decls}
ResolvedDeps(decls) == {dep \in AllDeps(decls) : dep.target \in Known(decls)}

\* Mutant: the digest an edge names is looked at, not compared.
DigestMismatch_NotCompared(decls, dep) == FALSE

DigestMismatch(decls, dep) ==
    dep.digest # NoDigest /\ dep.digest # FirstDecl(decls, dep.target).digest
ReleaseMismatch(decls, dep) ==
    dep.release # FirstDecl(decls, dep.target).release
RuleContradicted(decls, dep) ==
    \A rule \in FirstDecl(decls, dep.target).rules : rule.id # dep.invalidates

EdgesOf(deps) == {dep.edge : dep \in deps}

\* What an unknown dependency is called after: the module and its target.
Pointers(decls, deps) ==
    UNION {{decls[i].identity} \X {dep.target : dep \in decls[i].deps \cap deps} :
                i \in DOMAIN decls}

GraphRefutations(decls) ==
    LET deps == ResolvedDeps(decls)
    IN  Evidence("DUPLICATE_MODULE", Repeated(decls, "identity"))
        \cup Evidence("SEMANTIC_DIGEST_CONTRADICTED",
                {decls[i].identity : i \in {k \in Kept(decls) :
                    decls[k].digest # ModuleSemanticDigest(decls[k])}})
        \cup Evidence("DUPLICATE_EXPORT", ClaimedTwice(ExportClaims(decls)))
        \cup Evidence("DUPLICATE_TEST", ClaimedTwice(TestClaims(decls)))
        \cup Evidence("TEST_OWNERSHIP_TARGET_UNAVAILABLE",
                UNION {{test.id : test \in {t \in decls[i].tests :
                    ~(t.covers \subseteq Known(decls))}} : i \in DOMAIN decls})
        \cup Evidence("DEPENDENCY_SEMANTIC_DIGEST_MISMATCH",
                EdgesOf({dep \in deps : DigestMismatch(decls, dep)}))
        \cup Evidence("DEPENDENCY_RELEASE_MISMATCH",
                EdgesOf({dep \in deps : ReleaseMismatch(decls, dep)}))
        \cup Evidence("INVALIDATION_RULE_CONTRADICTED",
                EdgesOf({dep \in deps : RuleContradicted(decls, dep)}))

GraphUnknowns(decls) ==
    Evidence("DEPENDENCY_MODULE_UNAVAILABLE",
        Pointers(decls, AllDeps(decls) \ ResolvedDeps(decls)))
    \cup Evidence("DEPENDENCY_SEMANTIC_DIGEST_MISSING",
        Pointers(decls, {dep \in ResolvedDeps(decls) : dep.digest = NoDigest}))

\* The status of an edge; a contradiction overrides a missing digest.
EdgeStatus(decls, dep) ==
    IF dep \notin ResolvedDeps(decls) THEN "UNKNOWN"
    ELSE IF \/ DigestMismatch(decls, dep)
            \/ ReleaseMismatch(decls, dep)
            \/ RuleContradicted(decls, dep) THEN "REFUTED"
    ELSE IF dep.digest = NoDigest THEN "UNKNOWN"
    ELSE "CLOSED"

\* The linked graph.  Its status is that of the evidence known so far; the
\* evidence of the later stages never reaches it.
LinkedGraph(decls) ==
    [edges  |-> UNION {{[from |-> decls[i].identity, dep |-> dep,
                         status |-> EdgeStatus(decls, dep)] : dep \in decls[i].deps} :
                            i \in DOMAIN decls},
     status |-> Decision(GraphRefutations(decls), GraphUnknowns(decls))]
=============================================================================
