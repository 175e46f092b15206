-------------------------- MODULE IncrementalBuild --------------------------
(***************************************************************************)
(* The compiler in the world it is made for: an author edits declarations  *)
(* and renews digests, the tool chain changes, a caller invokes the        *)
(* compiler with a list of changes that may be wrong and with the cache    *)
(* entries it still has, and a cache keeps the artifacts of the builds     *)
(* that closed.                                                            *)
(*                                                                         *)
(* The evaluation is that of Evaluate.tla, stage by stage.  Author, caller *)
(* and cache are external: the compiler is only ever handed files.  The    *)
(* command reads all of them before Evaluate starts and Evaluate reads     *)
(* none, so an edit made while it runs is the same as one made after it.   *)
(***************************************************************************)
EXTENDS Evaluate, SequencesExt

CONSTANTS
    Order,       \* the module identities, sorted
    FirstDecls,  \* FirstDecls[m]: the declaration of m at first
    Versions,    \* the versions a module's interface can have
    Toolchains,  \* tool chain digests
    FirstTools,  \* the one in use at first
    MaxBuilds,   \* bound on the number of evaluations
    MaxEdits     \* bound on the number of interface and tool chain changes

Module == Range(Order)

\* Files that can be made to close: no two modules export one symbol or own a
\* test, and every edge names a module, its release and one of its rules.
\* What the digests say is another matter.
Linked(files) ==
    \A m \in Module :
        /\ {"identity", "release", "digest", "exports", "deps", "rules", "tests"}
                \subseteq DOMAIN files[m]
        /\ files[m].identity = m
        /\ files[m].exports \subseteq {m} \X Versions
        /\ files[m].tests = {}
        /\ \A dep \in files[m].deps :
              /\ {"target", "release", "digest", "invalidates"} \subseteq DOMAIN dep
              /\ dep.target \in Module /\ dep.release = files[dep.target].release
              /\ \E rule \in files[dep.target].rules : rule.id = dep.invalidates

\* Each module is declared once, truly, and there is a tool chain.
ASSUME FirstDeclsAssumption ==
    /\ Order \in Seq(STRING) /\ IsInjective(Order)
    /\ FirstTools \in Toolchains /\ "" \notin Toolchains
    /\ DOMAIN FirstDecls = Module /\ Linked(FirstDecls)
    /\ \A m \in Module :
          /\ WellFormed(FirstDecls[m])
          /\ FirstDecls[m].digest = ModuleSemanticDigest(FirstDecls[m])
          /\ \A dep \in FirstDecls[m].deps : dep.digest = FirstDecls[dep.target].digest

VARIABLES
    source,     \* source[m]: the declaration of m in the author's files
    tools,      \* the tool chain digest in use
    store,      \* the cached artifacts: cache entries, each with what was made
    published,  \* whether the artifacts of the last evaluation were stored
    builds,     \* the number of evaluations started
    edits       \* the number of interface and tool chain changes

world     == <<source, tools, store, edits>>
buildVars == <<vars, world, published, builds>>

-----------------------------------------------------------------------------
(* Artifacts. *)

\* The modules m is built from: itself and what it depends on, transitively.
BuiltFrom(files, m) ==
    {n \in Module : \A S \in SUBSET Module :
        m \in S /\ (\A s \in S : \A dep \in files[s].deps : dep.target \in S)
            => n \in S}

\* What a compilation of m yields: a function of the interfaces of all the
\* modules m is built from and of the tool chain.
Artifact(files, toolchain, m) ==
    [tools |-> toolchain, from |-> UNION {files[n].exports : n \in BuiltFrom(files, m)}]

\* The files and tools the evaluation was started on.
Given == [m \in Module |-> FirstWith(Decls, "identity", m)]

EntryFor(decl) ==
    [module |-> decl.identity, immutable |-> TRUE, semantic |-> decl.digest,
     dependency |-> DependencyDigest(decl), toolchain |-> Scenario.toolchain,
     contract |-> Scenario.contract, result |-> "result",
     made |-> Artifact(Given, Scenario.toolchain, decl.identity)]

-----------------------------------------------------------------------------
(* The author and the tool chain. *)

\* Between two evaluations; changes after the last one are of no interest.
Idle == stage \in {"done", "rejected"} /\ published /\ builds < MaxBuilds

\* Change m's one exported symbol, here the pair of m and the version, and
\* leave every digest as it was.
Edit(m, version) ==
    /\ Idle /\ edits < MaxEdits
    /\ source[m].exports # {<<m, version>>}
    /\ source' = [source EXCEPT ![m].exports = {<<m, version>>}]
    /\ edits' = edits + 1
    /\ UNCHANGED <<vars, tools, store, published, builds>>

\* Make m's edges name its dependencies as they are declared now.
RenewEdges(m) ==
    /\ Idle
    /\ source' = [source EXCEPT ![m].deps =
                    {[dep EXCEPT !.digest = source[dep.target].digest] : dep \in @}]
    /\ source' # source
    /\ UNCHANGED <<vars, tools, store, published, builds, edits>>

\* Make m's digest that of its declaration.
RenewDigest(m) ==
    /\ Idle
    /\ source' = [source EXCEPT ![m].digest = ModuleSemanticDigest(source[m])]
    /\ source' # source
    /\ UNCHANGED <<vars, tools, store, published, builds, edits>>

Retool(toolchain) ==
    /\ Idle /\ edits < MaxEdits
    /\ toolchain # tools
    /\ tools' = toolchain
    /\ edits' = edits + 1
    /\ UNCHANGED <<vars, source, store, published, builds>>

-----------------------------------------------------------------------------
(* The caller and the cache. *)

\* The arguments of an evaluation; claimed are the modules the caller says
\* have changed, offered the cache entries it hands over.
Call(claimed, offered) ==
    [decls  |-> [i \in DOMAIN Order |-> source[Order[i]]],
     policy |-> [valid |-> TRUE, emittable |-> TRUE],
     scenario |->
        [source |-> "source", toolchain |-> tools, contract |-> "contract",
         changes |-> SetToSeq({[module |-> m, kind |-> "semantic"] : m \in claimed}),
         cache |-> SetToSeq(offered), testCache |-> <<>>, observations |-> <<>>,
         oracle |-> [independent |-> TRUE, digest |-> Sha(<<>>), results |-> <<>>],
         coldMS |-> 2, warmMS |-> 1]]

\* Invoke the compiler, with any list of changes and any part of the cache.
StartBuild ==
    /\ Idle
    /\ \E claimed \in SUBSET Module, offered \in SUBSET store :
          input' = Call(claimed, offered)
    /\ stage' = "validate"
    /\ unknowns' = {} /\ refutations' = {}
    /\ graph' = Pending /\ affected' = {} /\ emitted' = "PENDING"
    /\ cold' = Pending /\ warm' = Pending /\ report' = Pending
    /\ published' = FALSE
    /\ builds' = builds + 1
    /\ UNCHANGED world

\* The artifacts of a closed evaluation replace the older ones of the modules
\* it compiled; those of any other evaluation are dropped.
Publish ==
    /\ stage \in {"done", "rejected"} /\ ~published
    /\ published' = TRUE
    /\ store' = IF Closed
                THEN {entry \in store :
                        entry.module \notin Identities(Decls, warm.compiled)}
                     \cup {EntryFor(Decls[i]) : i \in warm.compiled}
                ELSE store
    /\ UNCHANGED <<vars, source, tools, builds, edits>>

-----------------------------------------------------------------------------
BuildInit ==
    /\ source = FirstDecls
    /\ tools = FirstTools
    /\ store = {}
    /\ published = FALSE
    /\ builds = 1 /\ edits = 0
    /\ input = Call(Module, {})
    /\ stage = "validate"
    /\ unknowns = {} /\ refutations = {}
    /\ graph = Pending /\ affected = {} /\ emitted = "PENDING"
    /\ cold = Pending /\ warm = Pending /\ report = Pending

Stage ==
    /\ \/ Validate \/ Reject \/ BuildGraph \/ BindDigests \/ ComputeAffected
       \/ Emit \/ RejectPlan \/ RunCold \/ RunWarm
       \/ CheckOracleCold \/ CheckOracleWarm \/ Decide
    /\ UNCHANGED <<world, published, builds>>

BuildNext ==
    \/ Stage
    \/ StartBuild
    \/ Publish
    \/ \E m \in Module : RenewEdges(m) \/ RenewDigest(m)
    \/ \E m \in Module, version \in Versions : Edit(m, version)
    \/ \E toolchain \in Toolchains : Retool(toolchain)

BuildSpec == BuildInit /\ [][BuildNext]_buildVars

-----------------------------------------------------------------------------
\* The purpose of the compiler: when an evaluation closes, every artifact it
\* reuses is the one a compilation of the present files would make, even when
\* the caller's list of changes is wrong, digests were renewed in part, or the
\* cache holds entries of several generations.
ReuseIsFresh ==
    Closed => \A i \in warm.reused :
        LET m == Decls[i].identity
        IN  \A entry \in store : entry \in Range(Scenario.cache) /\ entry.module = m =>
                entry.made = Artifact(Given, Scenario.toolchain, m)

\* The files name one another as they are, and the changes claimed reach
\* every module whose cached artifact was made from another declaration or
\* by other tools.
Renewed ==
    \A m \in Module :
        /\ Given[m].digest = ModuleSemanticDigest(Given[m])
        /\ \A dep \in Given[m].deps : dep.digest = Given[dep.target].digest
Honest ==
    \A k \in DOMAIN Scenario.cache :
        LET entry == Scenario.cache[k]
        IN  \/ entry.module \in Affected(Decls, Scenario.changes)
            \/ /\ entry.made.tools = Scenario.toolchain
               /\ entry.semantic = ModuleSemanticDigest(Given[entry.module])

\* A careful caller is never refused: renewed files and an honest list of
\* changes close, and all artifacts out of reach of the changes are reused.
HonestBuildCloses ==
    Decided /\ Renewed /\ Honest =>
        /\ Closed
        /\ \A i \in DOMAIN Decls :
              \/ i \in warm.reused
              \/ Decls[i].identity \in Affected(Decls, Scenario.changes)
              \/ Decls[i].identity \notin Keys(Scenario.cache, "module")
=============================================================================
