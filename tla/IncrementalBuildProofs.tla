----------------------- MODULE IncrementalBuildProofs -----------------------
(***************************************************************************)
(* That reuse is fresh: for any modules, edits, renewals, tool chains,     *)
(* lists of changes and choices from the cache, however many evaluations.  *)
(*                                                                         *)
(* The cache is never compared with the files an entry was made from; the  *)
(* invariant says that such files once existed, and were consistent.  Two  *)
(* sets of consistent files that agree on the digest of one module agree   *)
(* on all modules it is built from, since a digest covers the digests of   *)
(* the edges.                                                              *)
(***************************************************************************)
EXTENDS IncrementalBuild, EvaluateProofs, FiniteSetTheorems

-----------------------------------------------------------------------------
(* Digests determine artifacts. *)

\* The edges name the content of their targets.
Consistent(files) ==
    \A m \in Module : \A dep \in files[m].deps :
        dep.target \in Module /\ dep.digest = ModuleSemanticDigest(files[dep.target])

LEMMA DigestsAreInjective ==
    ASSUME NEW d, NEW e, ModuleSemanticDigest(d) = ModuleSemanticDigest(e)
    PROVE  d.deps = e.deps /\ d.exports = e.exports
<1>1. Content(d) = Content(e)
  BY DEF ModuleSemanticDigest, Sha
<1> QED BY <1>1 DEF Content

\* Two sets of files that agree on a set of modules closed under their edges.
LEMMA BuiltFromWithin ==
    ASSUME NEW F, NEW G, NEW A \in SUBSET Module, NEW m \in A,
           \A n \in A : F[n].deps = G[n].deps,
           \A n \in A : \A dep \in F[n].deps : dep.target \in A
    PROVE  BuiltFrom(F, m) \subseteq BuiltFrom(G, m) \cap A
<1> SUFFICES ASSUME NEW n \in BuiltFrom(F, m)
             PROVE  n \in BuiltFrom(G, m) /\ n \in A
  OBVIOUS
<1>1. n \in Module
  BY DEF BuiltFrom
<1>2. ASSUME NEW S \in SUBSET Module, m \in S,
             \A s \in S : \A dep \in G[s].deps : dep.target \in S
      PROVE  n \in S \cap A
  <2>1. S \cap A \in SUBSET Module /\ m \in S \cap A
    BY <1>2
  <2>2. \A s \in S \cap A : \A dep \in F[s].deps : dep.target \in S \cap A
    BY <1>2
  <2> QED BY <2>1, <2>2 DEF BuiltFrom
<1>3. n \in BuiltFrom(G, m)
  BY <1>1, <1>2 DEF BuiltFrom
<1>4. n \in A
  BY DEF BuiltFrom
<1> QED BY <1>3, <1>4

\* Consistent files that agree on one digest yield one artifact: no cycle of
\* edges and no transitive dependency can tell them apart.
THEOREM DigestDeterminesArtifact ==
    ASSUME NEW F, NEW G, Consistent(F), Consistent(G), NEW m \in Module,
           ModuleSemanticDigest(F[m]) = ModuleSemanticDigest(G[m]), NEW toolchain
    PROVE  Artifact(F, toolchain, m) = Artifact(G, toolchain, m)
<1> DEFINE A == {n \in Module : ModuleSemanticDigest(F[n]) = ModuleSemanticDigest(G[n])}
<1>1. A \in SUBSET Module /\ m \in A
  OBVIOUS
<1>2. \A n \in A : F[n].deps = G[n].deps /\ F[n].exports = G[n].exports
  BY DigestsAreInjective
<1>3. \A n \in A : \A dep \in F[n].deps : dep.target \in A
  BY <1>2 DEF Consistent
<1>4. \A n \in A : \A dep \in G[n].deps : dep.target \in A
  BY <1>2, <1>3
<1> HIDE DEF A
<1>5. BuiltFrom(F, m) \subseteq BuiltFrom(G, m) \cap A
  BY <1>1, <1>2, <1>3, BuiltFromWithin
<1>6. BuiltFrom(G, m) \subseteq BuiltFrom(F, m) \cap A
  BY <1>1, <1>2, <1>4, BuiltFromWithin
<1>7. BuiltFrom(F, m) = BuiltFrom(G, m) /\ BuiltFrom(F, m) \subseteq A
  BY <1>5, <1>6
<1>8. {F[n].exports : n \in BuiltFrom(F, m)} = {G[n].exports : n \in BuiltFrom(G, m)}
  BY <1>2, <1>7
<1> QED BY <1>8 DEF Artifact

-----------------------------------------------------------------------------
(* The invariant. *)

SourceKept == DOMAIN source = Module /\ Linked(source) /\ tools \in Toolchains

\* The evaluation was started on one declaration for each module.
DeclaredOnce ==
    DOMAIN Decls = DOMAIN Order /\ \A i \in DOMAIN Order : Decls[i].identity = Order[i]

\* Each artifact was made from files that were consistent at the time, with
\* the digest the cache keeps it under.
MadeFromFiles(entry) ==
    /\ entry.module \in Module
    /\ entry.immutable /\ entry.contract = "contract" /\ entry.result = "result"
    /\ \E files : /\ Consistent(files)
                  /\ entry.semantic = ModuleSemanticDigest(files[entry.module])
                  /\ entry.dependency = DependencyDigest(files[entry.module])
                  /\ entry.made = Artifact(files, entry.toolchain, entry.module)

\* The cache keeps one entry for a module.
StoreKept ==
    /\ IsFiniteSet(store)
    /\ \A entry \in store : MadeFromFiles(entry)
    /\ \A e, f \in store : e.module = f.module => e = f

\* What the caller hands over beside the files.
Bound(scn) ==
    /\ scn.source = "source" /\ scn.contract = "contract" /\ scn.toolchain \in Toolchains
    /\ \A i \in DOMAIN scn.changes :
          scn.changes[i].module \in Module /\ scn.changes[i].kind = "semantic"
    /\ \A k \in DOMAIN scn.cache : MadeFromFiles(scn.cache[k])
    /\ Repeated(scn.cache, "module") = {}
    /\ scn.testCache = <<>> /\ scn.observations = <<>>
    /\ scn.oracle = [independent |-> TRUE, digest |-> Sha(<<>>), results |-> <<>>]

BuildInv ==
    /\ Ledger /\ Accounts
    /\ SourceKept
    /\ DeclaredOnce /\ Linked(Given) /\ Bound(Scenario)
    /\ StoreKept

-----------------------------------------------------------------------------
(* Calls. *)

\* SetToSeq makes a list of the members, each once.
LEMMA ListsOfSets ==
    ASSUME NEW S, IsFiniteSet(S)
    PROVE  /\ DOMAIN SetToSeq(S) \subseteq Nat
           /\ \A i \in DOMAIN SetToSeq(S) : SetToSeq(S)[i] \in S
           /\ \A i, j \in DOMAIN SetToSeq(S) : SetToSeq(S)[i] = SetToSeq(S)[j] => i = j
<1>1. Cardinality(S) \in Nat /\ ExistsBijection(1..Cardinality(S), S)
  BY FS_CardinalityType
<1>2. \E f \in [1..Cardinality(S) -> S] : IsInjective(f)
  BY <1>1 DEF ExistsBijection, Bijection, Injection
<1>3. SetToSeq(S) \in [1..Cardinality(S) -> S] /\ IsInjective(SetToSeq(S))
  BY <1>2 DEF SetToSeq
<1> QED BY <1>1, <1>3 DEF IsInjective

LEMMA OrderIsList == Order \in Seq(STRING) /\ IsInjective(Order)
BY Zenon, FirstDeclsAssumption

LEMMA ModulesAreFinite == IsFiniteSet(Module) /\ IsFiniteSet(DOMAIN Order)
<1>1. IsFiniteSet(DOMAIN Order)
  <2>1. Len(Order) \in Nat /\ DOMAIN Order = 1..Len(Order)
    BY OrderIsList
  <2> QED BY <2>1, FS_Interval
<1>2. Order \in Surjection(DOMAIN Order, Module)
  <2>1. Order = [i \in DOMAIN Order |-> Order[i]]
    BY OrderIsList
  <2> QED BY <2>1 DEF Surjection, Module, Range
<1> QED BY <1>1, <1>2, FS_Surjection

LEMMA ChangesAreFinite ==
    ASSUME NEW claimed \in SUBSET Module
    PROVE  IsFiniteSet({[module |-> m, kind |-> "semantic"] : m \in claimed})
<1> DEFINE change(m) == [module |-> m, kind |-> "semantic"]
           changes == {change(m) : m \in claimed}
           f == [m \in claimed |-> change(m)]
<1>1. IsFiniteSet(claimed)
  BY ModulesAreFinite, FS_Subset
<1>2. f \in Surjection(claimed, changes)
  BY DEF Surjection
<1> QED BY <1>1, <1>2, FS_Surjection

LEMMA CallIsDecoded ==
    ASSUME NEW claimed \in SUBSET Module, NEW offered, IsFiniteSet(offered)
    PROVE  Decoded(Call(claimed, offered))
<1> DEFINE changes == {[module |-> m, kind |-> "semantic"] : m \in claimed}
<1>1. IsFiniteSet(changes)
  BY ChangesAreFinite
<1> HIDE DEF changes
<1>2. DOMAIN SetToSeq(changes) \subseteq Nat /\ DOMAIN SetToSeq(offered) \subseteq Nat
  BY <1>1, ListsOfSets
<1>3. DOMAIN Order \subseteq Nat
  <2>1. Len(Order) \in Nat /\ DOMAIN Order = 1..Len(Order)
    BY OrderIsList
  <2> QED BY <2>1
<1>4. DOMAIN <<>> \subseteq Nat
  OBVIOUS
<1> QED BY <1>2, <1>3, <1>4 DEF Decoded, Call, changes

\* A call hands over entries of the cache, one for a module at most.
LEMMA CallIsBound ==
    ASSUME SourceKept, StoreKept, NEW claimed \in SUBSET Module, NEW offered \in SUBSET store
    PROVE  Bound(Call(claimed, offered).scenario)
<1> DEFINE changes == {[module |-> m, kind |-> "semantic"] : m \in claimed}
           scn == Call(claimed, offered).scenario
<1>1. /\ scn.source = "source" /\ scn.contract = "contract" /\ scn.toolchain = tools
      /\ scn.changes = SetToSeq(changes) /\ scn.cache = SetToSeq(offered)
      /\ scn.testCache = <<>> /\ scn.observations = <<>>
      /\ scn.oracle = [independent |-> TRUE, digest |-> Sha(<<>>), results |-> <<>>]
  BY DEF Call
<1>2. IsFiniteSet(changes) /\ IsFiniteSet(offered)
  BY ChangesAreFinite, FS_Subset DEF StoreKept
<1>3. \A change \in changes : change.module \in Module /\ change.kind = "semantic"
  OBVIOUS
<1> HIDE DEF changes, scn
<1>4. \A i \in DOMAIN scn.changes :
          scn.changes[i].module \in Module /\ scn.changes[i].kind = "semantic"
  BY <1>1, <1>2, <1>3, ListsOfSets
<1>5. \A k \in DOMAIN scn.cache : MadeFromFiles(scn.cache[k])
  BY <1>1, <1>2, ListsOfSets DEF StoreKept
<1>6. Repeated(scn.cache, "module") = {}
  <2> SUFFICES ASSUME NEW i \in DOMAIN scn.cache, NEW k \in DOMAIN scn.cache, i < k,
                      scn.cache[i].module = scn.cache[k].module
               PROVE  FALSE
    BY DEF Repeated
  <2>1. scn.cache[i] \in store /\ scn.cache[k] \in store
    BY <1>1, <1>2, ListsOfSets
  <2>2. scn.cache[i] = scn.cache[k]
    BY <2>1 DEF StoreKept
  <2>3. i = k /\ i \in Nat
    BY <1>1, <1>2, <2>2, ListsOfSets
  <2> QED BY <2>3
<1>7. scn.toolchain \in Toolchains
  BY <1>1 DEF SourceKept
<1> QED BY <1>1, <1>4, <1>5, <1>6, <1>7 DEF Bound, scn

\* A call hands over one declaration for each module, in order.
LEMMA CallDeclaresOnce ==
    ASSUME SourceKept, NEW claimed, NEW offered
    PROVE  /\ DOMAIN Call(claimed, offered).decls = DOMAIN Order
           /\ \A i \in DOMAIN Order :
                 /\ Call(claimed, offered).decls[i] = source[Order[i]]
                 /\ Call(claimed, offered).decls[i].identity = Order[i]
<1>1. Call(claimed, offered).decls = [i \in DOMAIN Order |-> source[Order[i]]]
  BY DEF Call
<1>2. \A i \in DOMAIN Order : Order[i] \in Module
  BY DEF Module, Range
<1> QED BY <1>1, <1>2 DEF SourceKept, Linked

-----------------------------------------------------------------------------
(* The files of an evaluation. *)

LEMMA OrderDomain == DOMAIN Order \subseteq Nat
<1>1. Len(Order) \in Nat /\ DOMAIN Order = 1..Len(Order)
  BY OrderIsList
<1> QED BY <1>1

LEMMA NoModuleTwice ==
    ASSUME DeclaredOnce
    PROVE  Repeated(Decls, "identity") = {}
<1> SUFFICES ASSUME NEW j \in DOMAIN Decls, NEW k \in DOMAIN Decls, k < j,
                    Decls[k].identity = Decls[j].identity
             PROVE  FALSE
  BY DEF Repeated
<1>1. j = k
  BY OrderIsList DEF DeclaredOnce, IsInjective
<1>2. k \in Nat
  BY OrderDomain DEF DeclaredOnce
<1> QED BY <1>1, <1>2

LEMMA GivenIsDeclared ==
    ASSUME DeclaredOnce, NEW i \in DOMAIN Order
    PROVE  Order[i] \in Module /\ Given[Order[i]] = Decls[i]
<1>1. Order[i] \in Module
  BY DEF Module, Range
<1>2. FirstWith(Decls, "identity", Decls[i].identity) = Decls[i]
  BY OrderDomain, NoModuleTwice, OnlyIsFirst DEF DeclaredOnce
<1> QED BY <1>1, <1>2 DEF Given, DeclaredOnce

\* Only the declarations of the modules matter.
LEMMA LinkedAgrees ==
    ASSUME NEW F, NEW G, Linked(F), \A m \in Module : G[m] = F[m]
    PROVE  Linked(G)
BY DEF Linked

\* From F to G only m's exports, its digest and those its edges name change.
Renewal(F, G, m) ==
    /\ \A n \in Module \ {m} : G[n] = F[n]
    /\ DOMAIN G[m] = DOMAIN F[m] /\ G[m].identity = F[m].identity
    /\ G[m].release = F[m].release /\ G[m].rules = F[m].rules /\ G[m].tests = F[m].tests
    /\ G[m].exports = F[m].exports \/ G[m].exports \subseteq {m} \X Versions
    /\ \A dep \in G[m].deps : \E old \in F[m].deps :
          /\ DOMAIN dep = DOMAIN old /\ dep.target = old.target
          /\ dep.release = old.release /\ dep.invalidates = old.invalidates

LEMMA LinkedChange ==
    ASSUME NEW F, NEW G, Linked(F), NEW m \in Module, Renewal(F, G, m)
    PROVE  Linked(G)
<1>1. \A n \in Module : G[n].release = F[n].release /\ G[n].rules = F[n].rules
  BY DEF Renewal
<1> DEFINE Edge(dep) ==
        /\ {"target", "release", "digest", "invalidates"} \subseteq DOMAIN dep
        /\ dep.target \in Module /\ dep.release = G[dep.target].release
        /\ \E rule \in G[dep.target].rules : rule.id = dep.invalidates
<1>2. \A n \in Module : \A dep \in F[n].deps : Edge(dep)
  BY <1>1 DEF Linked
<1>3. \A n \in Module : \A dep \in G[n].deps : Edge(dep)
  <2>1. \A dep \in G[m].deps : Edge(dep)
    <3> SUFFICES ASSUME NEW dep \in G[m].deps PROVE Edge(dep)
      OBVIOUS
    <3>1. PICK old \in F[m].deps :
              /\ DOMAIN dep = DOMAIN old /\ dep.target = old.target
              /\ dep.release = old.release /\ dep.invalidates = old.invalidates
      BY DEF Renewal
    <3>2. Edge(old)
      BY <1>2
    <3> QED BY <3>1, <3>2
  <2> QED BY <1>2, <2>1 DEF Renewal
<1> HIDE DEF Edge
<1>4. ASSUME NEW n \in Module
      PROVE  /\ {"identity", "release", "digest", "exports", "deps", "rules", "tests"}
                    \subseteq DOMAIN G[n]
             /\ G[n].identity = n /\ G[n].exports \subseteq {n} \X Versions
             /\ G[n].tests = {}
  <2>1. CASE n = m
    BY <2>1 DEF Linked, Renewal
  <2>2. CASE n # m
    BY <2>2 DEF Linked, Renewal
  <2> QED BY <2>1, <2>2
<1> QED BY <1>3, <1>4 DEF Linked, Edge

\* The files of an evaluation that closes are consistent.
LEMMA ClosedIsConsistent ==
    ASSUME Ledger, DeclaredOnce, Closed
    PROVE  /\ Consistent(Given)
           /\ \A i \in DOMAIN Decls : Decls[i].digest = ModuleSemanticDigest(Decls[i])
<1>1. /\ \A i \in DOMAIN Decls : Decls[i].digest = ModuleSemanticDigest(Decls[i])
      /\ \A i \in DOMAIN Decls : \A dep \in Decls[i].deps : \E j \in DOMAIN Decls :
            Decls[j].identity = dep.target /\ dep.digest = Decls[j].digest
  BY ClosedIsClean, ClosedGraphIsExact
<1>2. ASSUME NEW m \in Module, NEW dep \in Given[m].deps
      PROVE  dep.target \in Module /\ dep.digest = ModuleSemanticDigest(Given[dep.target])
  <2>1. PICK i \in DOMAIN Order : Order[i] = m
    BY DEF Module, Range
  <2>2. Given[m] = Decls[i]
    BY <2>1, GivenIsDeclared
  <2>3. PICK j \in DOMAIN Decls : Decls[j].identity = dep.target /\ dep.digest = Decls[j].digest
    BY <1>1, <1>2, <2>2 DEF DeclaredOnce
  <2>4. Order[j] = dep.target /\ Given[Order[j]] = Decls[j] /\ Order[j] \in Module
    BY <2>3, GivenIsDeclared DEF DeclaredOnce
  <2> QED BY <1>1, <2>3, <2>4
<1> QED BY <1>1, <1>2 DEF Consistent

-----------------------------------------------------------------------------
(* The steps. *)

LEMMA FreshLedger ==
    ASSUME Decoded(input), stage = "validate"
    PROVE  Ledger
BY DEF Ledger, Stages, GraphLedger, AffectedLedger, ColdLedger, WarmLedger, OracleLedger,
       ReportLedger, AfterOracle, AfterWarm, AfterCold, AfterEmit, AfterAffected,
       AfterDigests, AfterGraph, AfterValidate

LEMMA FreshAccounts ==
    ASSUME stage = "validate", unknowns = {}, refutations = {}
    PROVE  Accounts
BY DEF Accounts, From, AfterOracleCold, AfterOracle, AfterWarm, AfterCold, AfterEmit,
       AfterAffected, AfterDigests, AfterGraph

\* An evaluation is started on the author's files as they are.
LEMMA CallGivesFiles ==
    ASSUME SourceKept, DeclaredOnce, \A i \in DOMAIN Order : Decls[i] = source[Order[i]]
    PROVE  Linked(Given)
<1>1. \A m \in Module : Given[m] = source[m]
  <2> SUFFICES ASSUME NEW m \in Module PROVE Given[m] = source[m]
    OBVIOUS
  <2>1. PICK i \in DOMAIN Order : Order[i] = m
    BY DEF Module, Range
  <2> QED BY <2>1, GivenIsDeclared
<1> QED BY <1>1, LinkedAgrees DEF SourceKept

LEMMA InitBuildInv == BuildInit => BuildInv
<1> SUFFICES ASSUME BuildInit PROVE BuildInv
  OBVIOUS
<1>1. SourceKept
  BY FirstDeclsAssumption DEF BuildInit, SourceKept
<1>2. IsFiniteSet({}) /\ Module \in SUBSET Module /\ {} \in SUBSET store
  BY FS_EmptySet
<1>3. Ledger /\ Accounts
  <2>1. Decoded(input)
    BY <1>2, CallIsDecoded DEF BuildInit
  <2> QED BY <2>1, FreshLedger, FreshAccounts DEF BuildInit
<1>4. DeclaredOnce /\ Linked(Given)
  <2>1. Decls = Call(Module, {}).decls
    BY DEF BuildInit, Decls
  <2>2. DeclaredOnce /\ \A i \in DOMAIN Order : Decls[i] = source[Order[i]]
    BY <1>1, <2>1, CallDeclaresOnce DEF DeclaredOnce
  <2> QED BY <1>1, <2>2, CallGivesFiles
<1>5. StoreKept
  BY <1>2 DEF BuildInit, StoreKept
<1>6. Bound(Scenario)
  BY <1>1, <1>2, <1>5, CallIsBound DEF BuildInit, Scenario
<1> QED BY <1>1, <1>3, <1>4, <1>5, <1>6 DEF BuildInv

\* What does not touch the arguments leaves what is known of them.
LEMMA SameInput ==
    ASSUME BuildInv, input' = input
    PROVE  DeclaredOnce' /\ Linked(Given)' /\ Bound(Scenario)'
<1>1. Decls' = Decls /\ Scenario' = Scenario
  BY DEF Decls, Scenario
<1>2. Given' = Given
  BY <1>1 DEF Given
<1> QED BY <1>1, <1>2 DEF BuildInv, DeclaredOnce

LEMMA SameWorld == BuildInv /\ UNCHANGED <<source, tools, store>> => SourceKept' /\ StoreKept'
BY DEF BuildInv, SourceKept, StoreKept

LEMMA StageKeeps ==
    ASSUME BuildInv, Stage
    PROVE  BuildInv'
<1>1. [Next]_vars
  BY DEF Stage, Next
<1>2. Ledger' /\ Accounts'
  BY <1>1, StepPreservesLedger, StepPreservesAccounts DEF BuildInv
<1>3. input' = input
  BY DEF Stage, Validate, Reject, BuildGraph, BindDigests, ComputeAffected, Emit, RejectPlan,
         RunCold, RunWarm, CheckOracleCold, CheckOracleWarm, Decide, Record
<1>4. SourceKept' /\ StoreKept'
  BY SameWorld DEF Stage, world
<1> QED BY <1>2, <1>3, <1>4, SameInput DEF BuildInv

LEMMA StartBuildKeeps ==
    ASSUME BuildInv, StartBuild
    PROVE  BuildInv'
<1>1. PICK claimed \in SUBSET Module, offered \in SUBSET store : input' = Call(claimed, offered)
  BY DEF StartBuild
<1>2. Ledger' /\ Accounts'
  <2>1. IsFiniteSet(offered)
    BY FS_Subset DEF BuildInv, StoreKept
  <2>2. Decoded(input')
    BY <1>1, <2>1, CallIsDecoded
  <2>3. (Decoded(input) /\ stage = "validate" => Ledger)'
    BY FreshLedger, PTL
  <2>4. (stage = "validate" /\ unknowns = {} /\ refutations = {} => Accounts)'
    BY FreshAccounts, PTL
  <2> QED BY <2>2, <2>3, <2>4 DEF StartBuild
<1>3. SourceKept' /\ StoreKept' /\ source' = source
  BY SameWorld DEF StartBuild, world
<1>4. DeclaredOnce' /\ Linked(Given)'
  <2>1. Decls' = Call(claimed, offered).decls
    BY <1>1 DEF Decls
  <2>2. DeclaredOnce' /\ \A i \in DOMAIN Order : Decls'[i] = source'[Order[i]]
    BY <1>3, <2>1, CallDeclaresOnce DEF BuildInv, DeclaredOnce
  <2>3. (SourceKept /\ DeclaredOnce /\ (\A i \in DOMAIN Order : Decls[i] = source[Order[i]])
            => Linked(Given))'
    BY CallGivesFiles, PTL
  <2> QED BY <1>3, <2>2, <2>3
<1>5. Bound(Scenario)'
  <2>1. Bound(Call(claimed, offered).scenario)
    BY CallIsBound DEF BuildInv
  <2>2. Scenario' = Call(claimed, offered).scenario
    BY <1>1 DEF Scenario
  <2> QED BY <2>1, <2>2
<1> QED BY <1>2, <1>3, <1>4, <1>5 DEF BuildInv

\* What a closed evaluation stores was made from its own, consistent, files.
LEMMA PublishKeeps ==
    ASSUME BuildInv, Publish
    PROVE  BuildInv'
<1>1. UNCHANGED <<vars, source, tools>>
  BY DEF Publish
<1>2. Ledger' /\ Accounts'
  BY <1>1, StepPreservesLedger, StepPreservesAccounts DEF BuildInv
<1>3. SourceKept' /\ DeclaredOnce' /\ Linked(Given)' /\ Bound(Scenario)'
  BY <1>1, SameInput DEF BuildInv, SourceKept, vars
<1>4. CASE ~Closed
  <2>1. store' = store
    BY <1>4 DEF Publish
  <2> QED BY <1>2, <1>3, <2>1 DEF BuildInv, StoreKept
<1>5. CASE Closed
  <2> DEFINE kept == {entry \in store : entry.module \notin Identities(Decls, warm.compiled)}
             added == {EntryFor(Decls[i]) : i \in warm.compiled}
             f == [i \in warm.compiled |-> EntryFor(Decls[i])]
  <2>1. store' = kept \cup added
    BY <1>5 DEF Publish
  <2>2. warm.compiled \subseteq DOMAIN Decls /\ DOMAIN Decls = DOMAIN Order
    <3>1. PICK first \in FirstSlots(Decls) :
              warm = RunOf("WARM", Decls, Scenario, affected, first)
      BY <1>5, ClosedIsClean DEF BuildInv
    <3>2. warm.compiled = DOMAIN Decls \ ReusedModules("WARM", Decls, Scenario, affected)
      BY <3>1 DEF RunOf
    <3> QED BY <3>2 DEF BuildInv, DeclaredOnce
  <2>3. IsFiniteSet(kept)
    BY FS_Subset DEF BuildInv, StoreKept
  <2>4. IsFiniteSet(added)
    <3>1. IsFiniteSet(warm.compiled)
      BY <2>2, ModulesAreFinite, FS_Subset
    <3>2. f \in Surjection(warm.compiled, added)
      BY DEF Surjection
    <3> QED BY <3>1, <3>2, FS_Surjection
  <2>5. ASSUME NEW i \in warm.compiled
        PROVE  MadeFromFiles(EntryFor(Decls[i])) /\ EntryFor(Decls[i]).module = Order[i]
    <3> DEFINE entry == EntryFor(Decls[i])
    <3>1. i \in DOMAIN Order /\ Decls[i].identity = Order[i]
      BY <2>2 DEF BuildInv, DeclaredOnce
    <3>2. Order[i] \in Module /\ Given[Order[i]] = Decls[i]
      BY <3>1, GivenIsDeclared DEF BuildInv
    <3>3. Consistent(Given) /\ Decls[i].digest = ModuleSemanticDigest(Decls[i])
      BY <1>5, <2>2, ClosedIsConsistent DEF BuildInv
    <3>4. /\ entry.module = Order[i] /\ entry.semantic = Decls[i].digest
          /\ entry.immutable /\ entry.result = "result" /\ entry.contract = Scenario.contract
          /\ entry.dependency = DependencyDigest(Decls[i])
          /\ entry.toolchain = Scenario.toolchain
          /\ entry.made = Artifact(Given, Scenario.toolchain, Order[i])
      BY <3>1 DEF EntryFor
    <3>5. entry.contract = "contract"
      BY <3>4 DEF BuildInv, Bound
    <3> HIDE DEF entry
    <3>6. MadeFromFiles(entry)
      BY <3>2, <3>3, <3>4, <3>5 DEF MadeFromFiles
    <3> QED BY <3>4, <3>6 DEF entry
  <2>6. \A e, g \in kept \cup added : e.module = g.module => e = g
    <3>1. \A i \in warm.compiled : Order[i] \in Identities(Decls, warm.compiled)
      BY <2>2 DEF BuildInv, DeclaredOnce, Identities
    <3>2. \A e \in kept, g \in added : e.module # g.module
      BY <2>5, <3>1
    <3>3. \A e, g \in added : e.module = g.module => e = g
      <4>1. \A i, j \in warm.compiled : Order[i] = Order[j] => i = j
        BY <2>2, OrderIsList DEF IsInjective
      <4> QED BY <2>5, <4>1
    <3>4. \A e, g \in kept : e.module = g.module => e = g
      BY DEF BuildInv, StoreKept
    <3> HIDE DEF kept, added
    <3> QED BY <3>2, <3>3, <3>4
  <2>7. StoreKept'
    <3>1. IsFiniteSet(store')
      BY <2>1, <2>3, <2>4, FS_Union
    <3>2. \A entry \in store' : MadeFromFiles(entry)
      BY <2>1, <2>5 DEF BuildInv, StoreKept
    <3> QED BY <2>1, <2>6, <3>1, <3>2 DEF StoreKept
  <2> QED BY <1>2, <1>3, <2>7 DEF BuildInv
<1> QED BY <1>4, <1>5

\* Author and tool chain touch neither a running evaluation nor the cache, and
\* what they change is no release, no rule and no target of an edge.
LEMMA EditKeeps ==
    ASSUME BuildInv, NEW m \in Module, NEW version \in Versions, Edit(m, version)
    PROVE  SourceKept'
<1>1. DOMAIN source = Module /\ Linked(source) /\ tools \in Toolchains
  BY DEF BuildInv, SourceKept
<1>2. /\ source' = [source EXCEPT ![m] = [@ EXCEPT !.exports = {<<m, version>>}]]
      /\ tools' = tools
  BY DEF Edit
<1>3. {"identity", "release", "digest", "exports", "deps", "rules", "tests"}
         \subseteq DOMAIN source[m]
  BY <1>1 DEF Linked
<1>4. /\ source'[m] = [source[m] EXCEPT !.exports = {<<m, version>>}]
      /\ \A n \in Module \ {m} : source'[n] = source[n]
  BY <1>1, <1>2
<1>5. /\ DOMAIN source'[m] = DOMAIN source[m] /\ source'[m].identity = source[m].identity
      /\ source'[m].release = source[m].release /\ source'[m].rules = source[m].rules
      /\ source'[m].tests = source[m].tests /\ source'[m].deps = source[m].deps
      /\ source'[m].exports = {<<m, version>>}
  BY <1>3, <1>4
<1>6. Linked(source')
  <2>1. Renewal(source, source', m)
    BY <1>4, <1>5 DEF Renewal
  <2> QED BY <1>1, <2>1, LinkedChange
<1> QED BY <1>1, <1>2, <1>6 DEF SourceKept

LEMMA RenewDigestKeeps ==
    ASSUME BuildInv, NEW m \in Module, RenewDigest(m)
    PROVE  SourceKept'
<1>1. DOMAIN source = Module /\ Linked(source) /\ tools \in Toolchains
  BY DEF BuildInv, SourceKept
<1> DEFINE digest == ModuleSemanticDigest(source[m])
<1>2. /\ source' = [source EXCEPT ![m] = [@ EXCEPT !.digest = digest]]
      /\ tools' = tools
  BY DEF RenewDigest
<1>3. {"identity", "release", "digest", "exports", "deps", "rules", "tests"}
         \subseteq DOMAIN source[m]
  BY <1>1 DEF Linked
<1> HIDE DEF digest
<1>4. /\ source'[m] = [source[m] EXCEPT !.digest = digest]
      /\ \A n \in Module \ {m} : source'[n] = source[n]
  BY <1>1, <1>2
<1>5. /\ DOMAIN source'[m] = DOMAIN source[m] /\ source'[m].identity = source[m].identity
      /\ source'[m].release = source[m].release /\ source'[m].rules = source[m].rules
      /\ source'[m].tests = source[m].tests /\ source'[m].deps = source[m].deps
      /\ source'[m].exports = source[m].exports
  BY <1>3, <1>4
<1>6. Linked(source')
  <2>1. Renewal(source, source', m)
    BY <1>4, <1>5 DEF Renewal
  <2> QED BY <1>1, <2>1, LinkedChange
<1> QED BY <1>1, <1>2, <1>6 DEF SourceKept

LEMMA RenewEdgesKeeps ==
    ASSUME BuildInv, NEW m \in Module, RenewEdges(m)
    PROVE  SourceKept'
<1>1. DOMAIN source = Module /\ Linked(source) /\ tools \in Toolchains
  BY DEF BuildInv, SourceKept
<1> DEFINE deps == {[dep EXCEPT !.digest = source[dep.target].digest] : dep \in source[m].deps}
<1>2. /\ source' = [source EXCEPT ![m] = [@ EXCEPT !.deps = deps]]
      /\ tools' = tools
  BY DEF RenewEdges
<1>3. {"identity", "release", "digest", "exports", "deps", "rules", "tests"}
         \subseteq DOMAIN source[m]
  BY <1>1 DEF Linked
<1>4. ASSUME NEW dep \in deps
      PROVE  \E old \in source[m].deps :
                /\ DOMAIN dep = DOMAIN old /\ dep.target = old.target
                /\ dep.release = old.release /\ dep.invalidates = old.invalidates
  <2>1. PICK old \in source[m].deps : dep = [old EXCEPT !.digest = source[old.target].digest]
    OBVIOUS
  <2>2. {"target", "release", "digest", "invalidates"} \subseteq DOMAIN old
    BY <1>1 DEF Linked
  <2> QED BY <2>1, <2>2
<1> HIDE DEF deps
<1>5. /\ source'[m] = [source[m] EXCEPT !.deps = deps]
      /\ \A n \in Module \ {m} : source'[n] = source[n]
  BY <1>1, <1>2
<1>6. /\ DOMAIN source'[m] = DOMAIN source[m] /\ source'[m].identity = source[m].identity
      /\ source'[m].release = source[m].release /\ source'[m].rules = source[m].rules
      /\ source'[m].tests = source[m].tests /\ source'[m].exports = source[m].exports
      /\ source'[m].deps = deps
  BY <1>3, <1>5
<1>7. Linked(source')
  <2>1. Renewal(source, source', m)
    BY <1>4, <1>5, <1>6 DEF Renewal
  <2> QED BY <1>1, <2>1, LinkedChange
<1> QED BY <1>1, <1>2, <1>7 DEF SourceKept

LEMMA AuthorKeeps ==
    ASSUME BuildInv,
           \/ \E m \in Module : RenewEdges(m) \/ RenewDigest(m)
           \/ \E m \in Module, version \in Versions : Edit(m, version)
           \/ \E toolchain \in Toolchains : Retool(toolchain)
    PROVE  BuildInv'
<1>1. UNCHANGED <<vars, store>>
  BY DEF RenewEdges, RenewDigest, Edit, Retool
<1>2. Ledger' /\ Accounts'
  BY <1>1, StepPreservesLedger, StepPreservesAccounts DEF BuildInv
<1>3. DeclaredOnce' /\ Linked(Given)' /\ Bound(Scenario)'
  BY <1>1, SameInput DEF vars
<1>4. StoreKept'
  BY <1>1 DEF BuildInv, StoreKept
<1>5. SourceKept'
  <2>1. CASE \E toolchain \in Toolchains : Retool(toolchain)
    BY <2>1 DEF Retool, BuildInv, SourceKept
  <2> QED BY <2>1, EditKeeps, RenewDigestKeeps, RenewEdgesKeeps
<1> QED BY <1>2, <1>3, <1>4, <1>5 DEF BuildInv

LEMMA NextBuildInv == BuildInv /\ [BuildNext]_buildVars => BuildInv'
<1> SUFFICES ASSUME BuildInv, [BuildNext]_buildVars PROVE BuildInv'
  OBVIOUS
<1>1. CASE UNCHANGED buildVars
  <2>1. UNCHANGED <<vars, source, tools, store>>
    BY <1>1 DEF buildVars, world
  <2>2. Ledger' /\ Accounts'
    BY <2>1, StepPreservesLedger, StepPreservesAccounts DEF BuildInv
  <2>3. DeclaredOnce' /\ Linked(Given)' /\ Bound(Scenario)'
    BY <2>1, SameInput DEF vars
  <2> QED BY <2>1, <2>2, <2>3, SameWorld DEF BuildInv
<1> QED BY <1>1, StageKeeps, StartBuildKeeps, PublishKeeps, AuthorKeeps DEF BuildNext

LEMMA BuildInvariant == BuildSpec => []BuildInv
BY InitBuildInv, NextBuildInv, PTL DEF BuildSpec

-----------------------------------------------------------------------------
(* The theorem. *)

\* What the compiler is for: whatever was edited, renewed in part, claimed and
\* handed over, an evaluation that closes reuses only what a compilation of
\* the files at hand would make.
THEOREM Freshness == BuildSpec => []ReuseIsFresh
<1>1. BuildInv => ReuseIsFresh
  <2> SUFFICES ASSUME BuildInv, Closed, NEW i \in warm.reused,
                      NEW entry \in store, entry \in Range(Scenario.cache),
                      entry.module = Decls[i].identity
               PROVE  entry.made = Artifact(Given, Scenario.toolchain, Decls[i].identity)
    BY DEF ReuseIsFresh
  <2>1. i \in DOMAIN Order /\ Decls[i].identity = Order[i]
    <3>1. PICK first \in FirstSlots(Decls) :
              warm = RunOf("WARM", Decls, Scenario, affected, first)
      BY ClosedIsClean DEF BuildInv
    <3>2. warm.reused = ReusedModules("WARM", Decls, Scenario, affected)
      BY <3>1 DEF RunOf
    <3> QED BY <3>2 DEF ReusedModules, Consulting, BuildInv, DeclaredOnce
  <2>2. Order[i] \in Module /\ Given[Order[i]] = Decls[i]
    BY <2>1, GivenIsDeclared DEF BuildInv
  <2>3. /\ entry.semantic = ModuleSemanticDigest(Decls[i])
        /\ entry.toolchain = Scenario.toolchain
    <3>1. PICK k \in DOMAIN Scenario.cache : Scenario.cache[k] = entry
      BY DEF Range
    <3> QED BY <3>1, ExactInEachState DEF BuildInv, ClosedReuseIsExact
  <2>4. PICK files : /\ Consistent(files)
                     /\ entry.semantic = ModuleSemanticDigest(files[Order[i]])
                     /\ entry.made = Artifact(files, entry.toolchain, Order[i])
    BY <2>1 DEF BuildInv, StoreKept, MadeFromFiles
  <2>5. Consistent(Given)
    BY ClosedIsConsistent DEF BuildInv
  <2>6. Artifact(files, entry.toolchain, Order[i]) = Artifact(Given, entry.toolchain, Order[i])
    <3>1. ModuleSemanticDigest(files[Order[i]]) = ModuleSemanticDigest(Given[Order[i]])
      BY <2>2, <2>3, <2>4
    <3>2. Order[i] \in Module /\ Consistent(files)
      BY <2>2, <2>4
    <3> QED BY <2>5, <3>1, <3>2, DigestDeterminesArtifact
  <2> QED BY <2>1, <2>3, <2>4, <2>6
<1> QED BY <1>1, BuildInvariant, PTL

-----------------------------------------------------------------------------
(* A careful caller. *)

\* The evaluation knows the modules, and there is not one test.
LEMMA FilesAreGiven ==
    ASSUME BuildInv
    PROVE  /\ Known(Decls) = Module /\ TestSlots(Decls) = {}
           /\ \A i \in DOMAIN Decls :
                 Decls[i].identity \in Module /\ Decls[i] = Given[Decls[i].identity]
           /\ \A m \in Module : Given[m] = FirstDecl(Decls, m)
<1>1. DOMAIN Decls = DOMAIN Order /\ \A i \in DOMAIN Order : Decls[i].identity = Order[i]
  BY DEF BuildInv, DeclaredOnce
<1>2. \A i \in DOMAIN Order : Order[i] \in Module /\ Given[Order[i]] = Decls[i]
  BY GivenIsDeclared DEF BuildInv
<1>3. Known(Decls) = Module
  BY <1>1 DEF Known, Module, Range
<1>4. TestSlots(Decls) = {}
  <2>1. \A i \in DOMAIN Decls : Decls[i].tests = {}
    BY <1>1, <1>2 DEF BuildInv, Linked
  <2> QED BY <2>1 DEF TestSlots, TestIds
<1>5. \A m \in Module : Given[m] = FirstDecl(Decls, m)
  BY DEF Given, FirstDecl
<1> QED BY <1>1, <1>2, <1>3, <1>4, <1>5

\* Renewed files link without a contradiction and without a gap.
LEMMA RenewedGraph ==
    ASSUME BuildInv, Renewed
    PROVE  GraphRefutations(Decls) = {} /\ GraphUnknowns(Decls) = {}
<1>1. /\ Known(Decls) = Module
      /\ \A i \in DOMAIN Decls :
            Decls[i].identity \in Module /\ Decls[i] = Given[Decls[i].identity]
      /\ \A m \in Module : Given[m] = FirstDecl(Decls, m)
  BY FilesAreGiven
<1>2. ASSUME NEW dep \in AllDeps(Decls)
      PROVE  /\ dep.target \in Module /\ dep.release = Given[dep.target].release
             /\ \E rule \in Given[dep.target].rules : rule.id = dep.invalidates
             /\ dep.digest = Given[dep.target].digest /\ dep.digest # NoDigest
  <2>1. PICK m \in Module : dep \in Given[m].deps
    BY <1>1 DEF AllDeps
  <2>2. /\ dep.target \in Module /\ dep.release = Given[dep.target].release
        /\ \E rule \in Given[dep.target].rules : rule.id = dep.invalidates
    BY <2>1 DEF BuildInv, Linked
  <2>3. dep.digest = Given[dep.target].digest
    BY <2>1 DEF Renewed
  <2>4. Given[dep.target].digest = ModuleSemanticDigest(Given[dep.target])
    BY <2>2 DEF Renewed
  <2>5. \A x : <<x>> # <<>>
    OBVIOUS
  <2>6. dep.digest # NoDigest
    BY <2>3, <2>4, <2>5 DEF ModuleSemanticDigest, Sha, NoDigest
  <2> QED BY <2>2, <2>3, <2>6
<1>3. ResolvedDeps(Decls) = AllDeps(Decls)
  BY <1>1, <1>2 DEF ResolvedDeps
<1>4. \A dep \in AllDeps(Decls) :
          /\ ~DigestMismatch(Decls, dep) /\ ~ReleaseMismatch(Decls, dep)
          /\ ~RuleContradicted(Decls, dep)
  BY <1>1, <1>2 DEF DigestMismatch, ReleaseMismatch, RuleContradicted
<1>5. Repeated(Decls, "identity") = {}
  BY NoModuleTwice DEF BuildInv
<1>6. {Decls[i].identity : i \in {k \in Kept(Decls) :
            Decls[k].digest # ModuleSemanticDigest(Decls[k])}} = {}
  BY <1>1 DEF Renewed, Kept
<1>7. ClaimedTwice(ExportClaims(Decls)) = {}
  <2>1. \A c \in ExportClaims(Decls) : c[2][1] = c[1]
    <3> SUFFICES ASSUME NEW i \in DOMAIN Decls,
                        NEW c \in {Decls[i].identity} \X Decls[i].exports
                 PROVE  c[2][1] = c[1]
      BY DEF ExportClaims
    <3>1. Decls[i].exports \subseteq {Decls[i].identity} \X Versions
      BY <1>1 DEF BuildInv, Linked
    <3> QED BY <3>1
  <2> QED BY <2>1 DEF ClaimedTwice
<1>8. \A i \in DOMAIN Decls : Decls[i].tests = {}
  BY <1>1 DEF BuildInv, Linked
<1>9. ClaimedTwice(TestClaims(Decls)) = {}
  <2>1. TestClaims(Decls) = {}
    BY <1>8 DEF TestClaims, TestIds
  <2> QED BY <2>1 DEF ClaimedTwice
<1>10. UNION {{test.id : test \in {t \in Decls[i].tests :
            ~(t.covers \subseteq Known(Decls))}} : i \in DOMAIN Decls} = {}
  BY <1>8
<1>11. \A reason : Evidence(reason, {}) = {}
  BY DEF Evidence
<1>12. /\ EdgesOf({dep \in ResolvedDeps(Decls) : DigestMismatch(Decls, dep)}) = {}
       /\ EdgesOf({dep \in ResolvedDeps(Decls) : ReleaseMismatch(Decls, dep)}) = {}
       /\ EdgesOf({dep \in ResolvedDeps(Decls) : RuleContradicted(Decls, dep)}) = {}
  BY <1>3, <1>4 DEF EdgesOf
<1>13. GraphRefutations(Decls) = {}
  BY <1>5, <1>6, <1>7, <1>9, <1>10, <1>11, <1>12 DEF GraphRefutations
<1>14. /\ Pointers(Decls, AllDeps(Decls) \ ResolvedDeps(Decls)) = {}
       /\ Pointers(Decls, {dep \in ResolvedDeps(Decls) : dep.digest = NoDigest}) = {}
  <2>1. /\ AllDeps(Decls) \ ResolvedDeps(Decls) = {}
        /\ {dep \in ResolvedDeps(Decls) : dep.digest = NoDigest} = {}
    BY <1>2, <1>3
  <2>2. Pointers(Decls, {}) = {}
    BY DEF Pointers
  <2> QED BY <2>1, <2>2
<1>15. GraphUnknowns(Decls) = {}
  BY <1>11, <1>14 DEF GraphUnknowns
<1> QED BY <1>13, <1>15

\* What the cache still has for a module that is out of reach is exact.
LEMMA HonestEntryIsExact ==
    ASSUME BuildInv, Renewed, Honest, NEW i \in DOMAIN Decls, Cached(Scenario, Decls[i]),
           Decls[i].identity \notin Affected(Decls, Scenario.changes)
    PROVE  Exact(Scenario, Decls[i])
<1> DEFINE m == Decls[i].identity
<1>1. PICK k \in DOMAIN Scenario.cache : Scenario.cache[k].module = m
  BY DEF Cached, Keys
<1> DEFINE entry == Scenario.cache[k]
<1>2. FirstWith(Scenario.cache, "module", m) = entry
  <2>1. DOMAIN Scenario.cache \subseteq Nat /\ Repeated(Scenario.cache, "module") = {}
    BY ListDomains DEF BuildInv, Ledger, Bound
  <2> QED BY <1>1, <2>1, OnlyIsFirst
<1>3. m \in Module /\ Given[m] = Decls[i]
  BY FilesAreGiven
<1>4. /\ entry.made.tools = Scenario.toolchain
      /\ entry.semantic = ModuleSemanticDigest(Decls[i])
  BY <1>1, <1>3 DEF Honest
<1>5. MadeFromFiles(entry) /\ Scenario.contract = "contract"
  BY DEF BuildInv, Bound
<1>6. PICK files : /\ entry.semantic = ModuleSemanticDigest(files[m])
                   /\ entry.dependency = DependencyDigest(files[m])
                   /\ entry.made = Artifact(files, entry.toolchain, m)
  BY <1>1, <1>5 DEF MadeFromFiles
<1>7. files[m].deps = Decls[i].deps
  BY <1>4, <1>6, DigestsAreInjective
<1>8. entry.toolchain = Scenario.toolchain
  BY <1>4, <1>6 DEF Artifact
<1>9. Decls[i].digest = ModuleSemanticDigest(Decls[i])
  BY <1>3 DEF Renewed
<1>10. /\ entry.immutable /\ entry.contract = Scenario.contract /\ entry.result # ""
       /\ entry.dependency = DependencyDigest(Decls[i])
  BY <1>5, <1>6, <1>7 DEF MadeFromFiles, DependencyDigest
<1> HIDE DEF entry, m
<1>11. FirstWith(Scenario.cache, "module", Decls[i].identity) = entry
  BY <1>2 DEF m
<1> QED BY <1>4, <1>8, <1>9, <1>10, <1>11 DEF Exact, SameTools

\* Neither run finds anything stale, failed or given twice.
LEMMA HonestRun ==
    ASSUME BuildInv, Renewed, Honest, NEW mode \in Modes, NEW reach,
           mode = "WARM" => reach = Affected(Decls, Scenario.changes)
    PROVE  RunRefutations(mode, Decls, Scenario, reach) = {}
<1>1. \A reason : Evidence(reason, {}) = {}
  BY DEF Evidence
<1>2. TestSlots(Decls) = {}
  BY FilesAreGiven
<1>3. Repeated(Scenario.cache, "module") = {}
  BY DEF BuildInv, Bound
<1>4. \A field : Repeated(<<>>, field) = {}
  BY DEF Repeated
<1>5. Repeated(Scenario.testCache, "test") = {} /\ Repeated(Scenario.observations, "test") = {}
  BY <1>4 DEF BuildInv, Bound
<1>6. StaleModules(mode, Decls, Scenario, reach) = {}
  BY HonestEntryIsExact DEF StaleModules, Consulting
<1>7. Identities(Decls, {}) = {} /\ Ids({}) = {}
  BY DEF Identities, Ids
<1>8. Unimpacted(mode, Decls, reach) = {}
  BY <1>2 DEF Unimpacted
<1> DEFINE cached == {slot \in Unimpacted(mode, Decls, reach) : TestCached(Scenario, slot[2])}
<1>9. cached = {}
  BY <1>8
<1>10. /\ {slot \in cached :
              CandidateTest(Scenario, slot[2]) /\ OutdatedTest(Scenario, slot[2])} = {}
       /\ cached \ ReusedTests(mode, Decls, Scenario, reach) = {}
  BY <1>9
<1>11. {slot \in TestSlots(Decls) : /\ Observed(Scenario, slot[2])
                                   /\ Observation(Scenario, slot[2]).status = "FAIL"} = {}
  BY <1>2
<1> QED BY <1>1, <1>3, <1>5, <1>6, <1>7, <1>10, <1>11 DEF RunRefutations

LEMMA HonestOracle ==
    ASSUME BuildInv, NEW mode
    PROVE  /\ OracleUnknowns(mode, Scenario, Compared(Decls)) = {}
           /\ OracleRefutations(mode, Scenario, Compared(Decls)) = {}
<1>1. \A reason : Evidence(reason, {}) = {}
  BY DEF Evidence
<1>2. /\ Scenario.oracle.independent /\ Scenario.oracle.results = <<>>
      /\ Scenario.oracle.digest = Sha(<<>>)
  BY DEF BuildInv, Bound
<1>3. OracleBound(Scenario) /\ OracleSealed(Scenario)
  <2>1. \A x : <<x>> # <<>>
    OBVIOUS
  <2> QED BY <1>2, <2>1 DEF OracleBound, OracleSealed, Sha, NoDigest
<1>4. ComparedTests(Compared(Decls)) = {}
  BY FilesAreGiven DEF ComparedTests, Compared, Ids
<1>5. Repeated(Scenario.oracle.results, "test") = {}
  BY <1>2 DEF Repeated
<1>6. /\ {id \in ComparedTests(Compared(Decls)) : ~Confirmable(Scenario, id)} = {}
      /\ {id \in ComparedTests(Compared(Decls)) :
            Confirmable(Scenario, id) /\ ~Confirmed(Scenario, id)} = {}
  BY <1>4
<1> QED BY <1>1, <1>3, <1>5, <1>6 DEF OracleUnknowns, OracleRefutations

LEMMA HonestPlan ==
    ASSUME BuildInv
    PROVE  /\ DigestUnknowns(Scenario) = {}
           /\ ChangeUnknowns(Decls, Scenario.changes) = {}
           /\ RunUnknowns(Decls, Scenario) = {}
<1>1. \A reason : Evidence(reason, {}) = {}
  BY DEF Evidence
<1>2. DigestUnknowns(Scenario) = {}
  <2>1. Scenario.source # "" /\ Scenario.contract # "" /\ Scenario.toolchain # ""
    BY FirstDeclsAssumption DEF BuildInv, Bound
  <2> QED BY <1>1, <2>1 DEF DigestUnknowns
<1>3. ChangeUnknowns(Decls, Scenario.changes) = {}
  <2>1. \A i \in DOMAIN Scenario.changes :
            /\ Scenario.changes[i].module \in Known(Decls)
            /\ Scenario.changes[i].kind \in SupportedKinds
    BY FilesAreGiven DEF BuildInv, Bound, SupportedKinds
  <2> QED BY <2>1 DEF ChangeUnknowns, ChangeUnknown
<1>4. RunUnknowns(Decls, Scenario) = {}
  BY <1>1, FilesAreGiven DEF RunUnknowns, Ids
<1> QED BY <1>2, <1>3, <1>4

\* The compiler is of use: renewed files and an honest list of changes always
\* close, and everything the changes do not reach is reused.
THEOREM Usefulness == BuildSpec => []HonestBuildCloses
<1>1. BuildInv => HonestBuildCloses
  <2> SUFFICES ASSUME BuildInv, Decided, Renewed, Honest
               PROVE  /\ Closed
                      /\ \A i \in DOMAIN Decls :
                            \/ i \in warm.reused
                            \/ Decls[i].identity \in Affected(Decls, Scenario.changes)
                            \/ Decls[i].identity \notin Keys(Scenario.cache, "module")
    BY DEF HonestBuildCloses
  <2>1. report.decision = Decision(AllRefutations(Decls, Scenario), AllUnknowns(Decls, Scenario))
    BY DecidedInEachState DEF BuildInv, DecidedByInput
  <2>2. AllUnknowns(Decls, Scenario) = {}
    BY RenewedGraph, HonestPlan, HonestOracle DEF AllUnknowns
  <2>3. AllRefutations(Decls, Scenario) = {}
    <3>1. "COLD" \in Modes /\ "WARM" \in Modes
      BY DEF Modes
    <3>2. /\ RunRefutations("COLD", Decls, Scenario, Known(Decls)) = {}
          /\ RunRefutations("WARM", Decls, Scenario, Affected(Decls, Scenario.changes)) = {}
      BY <3>1, HonestRun
    <3> QED BY <3>2, RenewedGraph, HonestOracle DEF AllRefutations
  <2>4. Closed
    BY <2>1, <2>2, <2>3 DEF Decision, Closed
  <2>5. ASSUME NEW i \in DOMAIN Decls, Cached(Scenario, Decls[i]),
               Decls[i].identity \notin Affected(Decls, Scenario.changes)
        PROVE  i \in warm.reused
    <3>1. PICK first \in FirstSlots(Decls) :
              warm = RunOf("WARM", Decls, Scenario, affected, first)
      BY <2>4, ClosedIsClean DEF BuildInv
    <3>2. affected = Affected(Decls, Scenario.changes)
      BY <2>4, ClosedIsClean DEF BuildInv
    <3>3. i \in ReusedModules("WARM", Decls, Scenario, affected)
      BY <2>5, <3>2, HonestEntryIsExact DEF ReusedModules, Consulting
    <3> QED BY <3>1, <3>3 DEF RunOf
  <2> QED BY <2>4, <2>5 DEF Cached
<1> QED BY <1>1, BuildInvariant, PTL
=============================================================================
