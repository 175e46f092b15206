--------------------------- MODULE MCEmptyModules ---------------------------
(***************************************************************************)
(* compile with -modules given as commas and blanks only: no path is left, *)
(* none is parsed, and the evaluation gets no declaration at all.          *)
(***************************************************************************)
EXTENDS MCEvaluatePlan, CommandLine

Commas == [listed |-> TRUE, list |-> {}, given |-> FALSE, readable |-> FALSE, dir |-> {}]
NoFile == [listed |-> FALSE, list |-> {}, given |-> TRUE, readable |-> TRUE, dir |-> {}]

\* ParseModules turns each path into one declaration; here there are none.
Parsed(origin) ==
    SelectSeq(Graph("semantic", "tb"), LAMBDA decl : decl.identity \in ModulePaths(origin))

EmptyInputs ==
    {[decls |-> Parsed(origin), policy |-> Accepts,
      scenario |-> [Usual EXCEPT !.cache = <<>>, !.testCache = <<>>]] :
        origin \in {given \in {Commas, NoFile} : PathsFound(given)}}
=============================================================================
