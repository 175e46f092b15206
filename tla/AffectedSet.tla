---------------------------- MODULE AffectedSet ----------------------------
(***************************************************************************)
(* The data of incremental invalidation (internal/compiler/evaluate.go,    *)
(* computeAffected) as pure operators, without the order in which the code *)
(* walks it.                                                               *)
(*                                                                         *)
(* decls is a sequence of module declarations, because nothing stops two   *)
(* files from declaring one identity.  The operators use three fields of a *)
(* declaration:                                                            *)
(*   identity   the module's identity                                      *)
(*   deps       a set of records with fields target and invalidates        *)
(*   rules      a set of records with fields id and kind, ids unique       *)
(*              (validateModuleDeclaration refuses a repeated rule id)     *)
(* changes is a sequence of records with fields module and kind.           *)
(***************************************************************************)
EXTENDS Naturals, Sequences, FiniteSets, Functions

\* The identities that have a declaration: the keys of byID.
Known(decls) == {decls[i].identity : i \in DOMAIN decls}

\* byID[m] in computeAffected: a later declaration overwrites an earlier one.
LastDecl(decls, m) ==
    decls[CHOOSE i \in DOMAIN decls :
            /\ decls[i].identity = m
            /\ \A j \in DOMAIN decls : decls[j].identity = m => j <= i]

\* A dependency propagates a change only through a rule its target declares,
\* and only when that rule's kind is semantic.
PropagatesSemantically(decls, dep) ==
    \E rule \in LastDecl(decls, dep.target).rules :
        rule.id = dep.invalidates /\ rule.kind = "semantic"

\* The semantic entries of reverse[m]: the modules a change of m invalidates.
SemanticDependents(decls, m) ==
    {decls[i].identity : i \in {j \in DOMAIN decls :
        \E dep \in decls[j].deps :
            dep.target = m /\ PropagatesSemantically(decls, dep)}}

\* The modules the declared changes invalidate directly.
Seeds(decls, changes) ==
    {m \in Known(decls) :
        \E i \in DOMAIN changes :
            changes[i].module = m /\ changes[i].kind = "semantic"}

SupportedKinds == {"semantic", "nonsemantic"}

\* What is recorded about one change that cannot be resolved or classified.
ChangeUnknown(decls, change) ==
    IF change.module \notin Known(decls)
    THEN {<<"CHANGED_MODULE_UNAVAILABLE", change.module>>}
    ELSE IF change.kind \notin SupportedKinds
         THEN {<<"CHANGE_KIND_UNSUPPORTED", change.module>>}
         ELSE {}

ChangeUnknowns(decls, changes) ==
    UNION {ChangeUnknown(decls, changes[i]) : i \in DOMAIN changes}

\* S contains every module that a member of S invalidates.
ClosedUnder(decls, S) ==
    \A m \in S \cap Known(decls) : SemanticDependents(decls, m) \subseteq S

\* The reference definition of the affected set: the least set of declared
\* modules that holds the seeds and is closed under semantic dependents.
Affected(decls, changes) ==
    {m \in Known(decls) :
        \A S \in SUBSET Known(decls) :
            Seeds(decls, changes) \subseteq S /\ ClosedUnder(decls, S) => m \in S}
=============================================================================
