-------------------------- MODULE MCDuplicateTest --------------------------
(***************************************************************************)
(* Modules a and b both own a test named ta.  a changed, which the rule b  *)
(* depends through does not propagate, so a's test must be executed while  *)
(* b's is reused from the cache.                                           *)
(***************************************************************************)
EXTENDS MCEvaluatePlan

DuplicateInputs ==
    {[decls |-> Graph("documentation", "ta"), policy |-> Accepts,
      scenario |-> [Usual EXCEPT !.changes = <<Change("a", "semantic")>>,
                                 !.cache = cache]] :
        cache \in Caches(Graph("documentation", "ta"))}
=============================================================================
