--------------------------- MODULE OptionalInputs ---------------------------
(***************************************************************************)
(* The checks of ValidateOptionalInputs (internal/compiler/upstream.go) on *)
(* the lock of upstream releases and on the two files that may be handed   *)
(* to the compiler: a linked graph and the release of a causal runner.     *)
(*                                                                         *)
(*   lock     [v1, inputs]: inputs a sequence of [name, release, complete] *)
(*   release  [repository, tag, commit, digest], what a lock pins          *)
(*   graph    [closed, digest]: closed, that the record is a closed        *)
(*            canonical graph; digest, of the bytes of the file            *)
(*   runner   [immutable, release_immutable, release]: the two flags are   *)
(*            "true", "false" or Absent, fields of the release may be too  *)
(* A file that cannot be read or decoded is Unreadable.                    *)
(***************************************************************************)
EXTENDS Naturals, Sequences

Unreadable == [unreadable |-> TRUE]
Absent == "absent"

Graph  == "canonical-linked-graph"
Runner == "public-causal-runner"

\* What an input of a lock may be.
LockedInputs ==
    [name : STRING, release : [repository : STRING, tag : STRING, commit : STRING, digest : STRING],
     complete : BOOLEAN]

LockAccepted(lock) ==
    /\ lock # Unreadable
    /\ lock.v1 /\ Len(lock.inputs) = 3
    /\ \A i \in DOMAIN lock.inputs : lock.inputs[i].complete
    /\ {Graph, Runner} \subseteq {lock.inputs[i].name : i \in DOMAIN lock.inputs}

\* byName keeps the last input of a name.
Locked(lock, name) ==
    lock.inputs[CHOOSE i \in DOMAIN lock.inputs :
        /\ lock.inputs[i].name = name
        /\ \A j \in DOMAIN lock.inputs : lock.inputs[j].name = name => j <= i]

GraphClosed(graph) == graph # Unreadable /\ graph.closed

\* Mutant: any closed graph will do.
GraphIsLocked_AnyDigest(lock, graph) == graph # Unreadable

GraphIsLocked(lock, graph) ==
    graph # Unreadable /\ graph.digest = Locked(lock, Graph).release.digest

\* The second flag counts only when the first is not there.
RunnerImmutable(runner) ==
    \/ runner.immutable = "true"
    \/ runner.immutable = Absent /\ runner.release_immutable = "true"

RunnerIsLocked(lock, runner) ==
    /\ runner # Unreadable
    /\ RunnerImmutable(runner)
    /\ runner.release = Locked(lock, Runner).release
=============================================================================
