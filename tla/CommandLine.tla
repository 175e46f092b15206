---------------------------- MODULE CommandLine ----------------------------
(***************************************************************************)
(* Where the module files of an evaluation come from: modulePaths in       *)
(* cmd/gooo-incremental-module-compiler/main.go.                           *)
(*                                                                         *)
(* An origin is [listed, list, given, readable, dir]: whether -modules is  *)
(* given, the paths left of it once blank parts are dropped, whether       *)
(* -input-dir is given and can be read, and the .gooo files in it.         *)
(***************************************************************************)

PathsFound(origin) ==
    origin.listed \/ (origin.given /\ origin.readable /\ origin.dir # {})

ModulePaths(origin) == IF origin.listed THEN origin.list ELSE origin.dir
=============================================================================
