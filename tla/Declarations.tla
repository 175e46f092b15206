---------------------------- MODULE Declarations ----------------------------
(***************************************************************************)
(* Module declarations, their digests, and the conventions every list of   *)
(* the compiler is read with.                                              *)
(*                                                                         *)
(* A declaration is a record with the fields                               *)
(*   identity, release     strings                                         *)
(*   digest                the declared semantic digest                    *)
(*   exports               a set of symbols                                *)
(*   deps                  a set of [target, release, digest, edge,        *)
(*                         invalidates]                                    *)
(*   rules                 a set of [id, kind]                             *)
(*   tests                 a set of [id, covers]; the owner of a test is   *)
(*                         the module that declares it                     *)
(* The sets stand for lists the code sorts before it hashes or compares    *)
(* them; validateModuleDeclaration keeps their members distinct.           *)
(***************************************************************************)
EXTENDS AffectedSet

\* SHA-256 of a canonical encoding, without collisions: a value wrapped once.
\* The empty string, which stands for an absent digest, is the empty tuple.
Sha(value) == <<value>>
NoDigest   == <<>>

\* moduleSemanticView: everything declared but the declared digest itself.
Content(decl) ==
    [identity |-> decl.identity, release |-> decl.release, exports |-> decl.exports,
     deps |-> decl.deps, rules |-> decl.rules, tests |-> decl.tests]

ModuleSemanticDigest(decl) == Sha(Content(decl))

\* Only the declared edges, with the digests they name.
DependencyDigest(decl) == Sha(decl.deps)

\* What validateModuleDeclaration demands beyond the lexical form of names.
WellFormed(decl) ==
    /\ decl.digest # NoDigest
    /\ \A test \in decl.tests : test.covers # {}
    /\ \A s, t \in decl.tests : s.id = t.id => s = t
    /\ \A r, q \in decl.rules : r.id = q.id => r = q
    /\ \A d, e \in decl.deps : d.edge = e.edge => d = e

-----------------------------------------------------------------------------
(* Lists with a key field.  Every list of the compiler is loaded into a map *)
(* that keeps the first entry of a key and reports the later ones.          *)

Keys(list, field) == {list[i][field] : i \in DOMAIN list}

FirstWith(list, field, key) ==
    list[CHOOSE i \in DOMAIN list :
            /\ list[i][field] = key
            /\ \A j \in DOMAIN list : list[j][field] = key => i <= j]

Repeated(list, field) ==
    {list[j][field] : j \in {k \in DOMAIN list :
        \E i \in DOMAIN list : i < k /\ list[i][field] = list[k][field]}}

-----------------------------------------------------------------------------
(* Evidence and its reduction. *)

\* One piece of evidence per subject; the code's further fields only describe
\* it for the reader.
Evidence(reason, subjects) == {<<reason, subject>> : subject \in subjects}

\* aggregateDecision: REFUTED > UNKNOWN > CLOSED.
Decision(refutations, unknowns) ==
    IF refutations # {} THEN "REFUTED"
    ELSE IF unknowns # {} THEN "UNKNOWN"
    ELSE "CLOSED"

Decisions == {"REFUTED", "UNKNOWN", "CLOSED"}
=============================================================================
