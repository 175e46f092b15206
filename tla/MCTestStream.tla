---------------------------- MODULE MCTestStream ----------------------------
(***************************************************************************)
(* Two packages, with a test of the same name each, and two stray lines.   *)
(***************************************************************************)
EXTENDS TestStream

MCPackages == {"p", "q"}
MCTests    == [p |-> {"A"}, q |-> {"A"}]
=============================================================================
