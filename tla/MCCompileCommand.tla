-------------------------- MODULE MCCompileCommand --------------------------
(***************************************************************************)
(* Locks that are good, name one input twice, or are incomplete; graphs    *)
(* that are the locked one, another closed one, or not closed; runners of  *)
(* the locked release, of another commit, or not immutable.                *)
(***************************************************************************)
EXTENDS CompileCommand

Release(commit, digest) ==
    [repository |-> "r", tag |-> "v", commit |-> commit, digest |-> digest]
Input(name, release) == [name |-> name, release |-> release, complete |-> TRUE]
Good == << Input(Graph, Release("c", "d1")), Input(Runner, Release("c", "d3")),
           Input("bootstrap", Release("c", "d4")) >>

MCLocks ==
    { Unreadable, [v1 |-> TRUE, inputs |-> Good],
      \* the graph is pinned twice, and the bootstrap not at all
      [v1 |-> TRUE, inputs |-> [Good EXCEPT ![3] = Input(Graph, Release("c", "d2"))]],
      [v1 |-> TRUE, inputs |-> [Good EXCEPT ![2].complete = FALSE]] }

MCGraphs ==
    { [closed |-> TRUE, digest |-> "d1"], [closed |-> TRUE, digest |-> "d2"],
      [closed |-> FALSE, digest |-> "d2"] }

Flags(first, second, commit) ==
    [immutable |-> first, release_immutable |-> second, release |-> Release(commit, "d3")]
MCRunners ==
    { Unreadable, Flags(Absent, "true", "c"), Flags("false", "true", "c"),
      Flags("true", Absent, "c0") }
=============================================================================
