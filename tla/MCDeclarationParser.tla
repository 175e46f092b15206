------------------------ MODULE MCDeclarationParser ------------------------
(***************************************************************************)
(* For each kind of file its header, its records in a good and several     *)
(* doubtful forms, braces, blank and broken lines, in any order.           *)
(***************************************************************************)
EXTENDS DeclarationParser

Braces == { <<>>, <<"}">>, <<"}", "x">>, Broken }

PolicyLines == (Braces \ {<<>>}) \cup {
    <<"compiler", "v1", "{">>, <<"compiler", "v2", "{">>,
    <<"precedence", "REFUTED", "UNKNOWN", "CLOSED">>,
    <<"unknown_fields", "six fields">>,
    <<"denominator", "d", "count", "full">>,
    <<"cell", "c", "stage", "s", "step", "s", "closed", "c", "unknown", "u", "refuted", "r">>,
    <<"generation", "go", "package", "main", "entrypoint", "main">> }

Dependency(rest) == <<"dependency", "a", "release", "v1", "invalidates", "r">> \o rest

ModuleLines == Braces \cup {
    <<"module", "m", "release", "v1", "semantic_digest", "d", "{">>,
    <<"export", "S">>, <<"export", "S", "T">>,
    Dependency(<<"edge", "e1">>),
    Dependency(<<"edge", "e1", "edge", "e2">>),
    Dependency(<<"edge", "", "edge", "e2">>),
    Dependency(<<"edge", "e2", "semantic_digest">>),
    <<"invalidation", "r", "kind", "semantic", "scope", "s">>,
    <<"test_owner", "t", "owner", "m", "covers", "m", "kind", "k", "command", "go">>,
    <<"test_owner", "t", "owner", "n", "covers", "m", "kind", "k", "command", "go">>,
    <<"reexport", "S">> }

ConformanceLines == Braces \cup {
    <<"conformance", "v1", "{">>,
    <<"conformance", "", "{">>,
    <<"scenario", "s", "expect", "CLOSED", "input", "d", "selected", "true">>,
    <<"scenario", "s", "expect", "CLOSED", "expect", "REFUTED", "selected", "true">>,
    <<"scenario", "t", "expect", "UNKNOWN", "selected", "maybe">> }

MCMaxLines == [policy |-> 8, module |-> 6, conformance |-> 8]

MCLines == [policy |-> PolicyLines, module |-> ModuleLines, conformance |-> ConformanceLines]
=============================================================================
