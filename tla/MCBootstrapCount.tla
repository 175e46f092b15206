-------------------------- MODULE MCBootstrapCount --------------------------
(***************************************************************************)
(* The gate over repositories with no, one or two bootstrap commits.       *)
(***************************************************************************)
EXTENDS MCPolicyGate
=============================================================================
