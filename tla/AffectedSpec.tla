---------------------------- MODULE AffectedSpec ----------------------------
(***************************************************************************)
(* What computeAffected promises its callers: from the declarations and    *)
(* the declared changes it resolves, once, the least invalidated set and   *)
(* the evidence about changes it could not use.                            *)
(***************************************************************************)
EXTENDS AffectedSet

CONSTANT Inputs     \* the pairs [decls, changes] the function is called with

VARIABLES input, resolved, affected, unknowns
vars == <<input, resolved, affected, unknowns>>

Init ==
    /\ input \in Inputs
    /\ resolved = FALSE
    /\ affected = {}
    /\ unknowns = {}

Resolve ==
    /\ ~resolved
    /\ resolved' = TRUE
    /\ affected' = Affected(input.decls, input.changes)
    /\ unknowns' = ChangeUnknowns(input.decls, input.changes)
    /\ UNCHANGED input

Spec == Init /\ [][Resolve]_vars
=============================================================================
