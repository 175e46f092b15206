----------------------------- MODULE PolicyGate -----------------------------
(***************************************************************************)
(* The policy gate of internal/gooo: a contract is loaded, its plan built, *)
(* GitHub observed (observe and observeRuleset of github.go) and the       *)
(* observation judged.  The caller that strings these together is not in   *)
(* the repository.                                                         *)
(*                                                                         *)
(* Each API call is a step of its own and may fail: no answer, a status    *)
(* other than 2xx, or a body that does not decode.  Rulesets are changed   *)
(* by an administrator meanwhile.                                          *)
(***************************************************************************)
EXTENDS Contract

CONSTANTS
    Contracts,   \* the contracts that may be loaded
    Triggers,    \* what starts the gate: [configured, mainPush, first]
    Histories,   \* what the repository really holds: [bootstraps, merged]
    Rulesets,    \* the identities of the rulesets
    Details,     \* what a ruleset may say: [target, enforcement, includes, rules]
    MaxChanges   \* bound on the changes the administrator makes

ASSUME ContractAssumption ==
    \A c \in Contracts : c.cases \in Seq(CanonicalCases)

VARIABLES
    contract, trigger, history,  \* given; they never change
    rulesets,     \* the rulesets on the server now
    at,           \* where the gate is
    observation,  \* what has been observed
    todo,         \* the listed rulesets whose details have not been read
    dossier,      \* the dossier of the plan
    verdict,      \* the result
    changes,
    failed,       \* for the specification: a call of this run has failed
    met,          \* for the specification: the details that existed in this run
    steady        \* for the specification: the rulesets that protected all along

given   == <<contract, trigger, history>>
server  == <<rulesets, changes, met, steady>>
vars    == <<given, server, at, observation, todo, dossier, verdict, failed>>

Gone    == [target |-> "gone", enforcement |-> "gone", includes |-> {}, rules |-> {}]
Pending == [status |-> "PENDING", unknown |-> NoRecord]

\* A ruleset that demands pull requests on main.
Protects(detail) ==
    /\ detail.target = "branch" /\ detail.enforcement = "active"
    /\ detail.includes \cap {"~DEFAULT_BRANCH", "refs/heads/main", "main"} # {}
    /\ "pull_request" \in detail.rules

\* The observation starts from the best case; what is not observed takes away.
BestCase ==
    [bootstraps |-> 1, bootstrapsKnown |-> TRUE, direct |-> 0, directKnown |-> FALSE,
     api |-> "observed", ruleset |-> "observed"]
NoAccess ==
    [bootstraps |-> 0, bootstrapsKnown |-> FALSE, direct |-> 0, directKnown |-> FALSE,
     api |-> "insufficient", ruleset |-> "insufficient"]

Init ==
    /\ contract \in Contracts /\ trigger \in Triggers /\ history \in Histories
    /\ rulesets \in [Rulesets -> Details]
    /\ at = "load"
    /\ observation = BestCase /\ todo = {}
    /\ dossier = Pending /\ verdict = Pending
    /\ changes = 0 /\ failed = FALSE
    /\ met = {rulesets[id] : id \in Rulesets}
    /\ steady = {id \in Rulesets : Protects(rulesets[id])}

-----------------------------------------------------------------------------
Step(here, to) ==
    /\ at = here /\ at' = to
    /\ UNCHANGED <<given, server>>

\* LoadContract; BuildPlan promises nothing yet, so its dossier is unknown.
\* That BuildPlan refuses an empty target is left out: like Reject, it leaves
\* no plan to observe anything for.
Load ==
    /\ Step("load", "observe")
    /\ Valid(contract)
    /\ dossier' = [status |-> "UNKNOWN", unknown |-> Template(contract)]
    /\ UNCHANGED <<observation, todo, verdict, failed>>

Reject ==
    /\ Step("load", "done")
    /\ ~Valid(contract)
    /\ UNCHANGED <<observation, todo, dossier, verdict, failed>>

\* What a step observes, and whether a call failed in it.
Observe(here, to, seen, fails) ==
    /\ Step(here, to)
    /\ observation' = seen
    /\ failed' = (failed \/ fails)
    /\ UNCHANGED <<dossier, verdict>>

NoToken ==
    /\ ~trigger.configured
    /\ Observe("observe", "judge", NoAccess, TRUE) /\ UNCHANGED todo

\* Only a push to main that is not the first one asks for pull requests.
Begin ==
    /\ trigger.configured
    /\ IF trigger.mainPush /\ ~trigger.first
       THEN Observe("observe", "pulls", observation, FALSE)
       ELSE Observe("observe", "list", [observation EXCEPT !.directKnown = TRUE], FALSE)
    /\ UNCHANGED todo

AnswerPulls ==
    /\ Observe("pulls", "list",
           [observation EXCEPT !.directKnown = TRUE, !.direct = IF history.merged THEN 0 ELSE 1],
           FALSE)
    /\ UNCHANGED todo

\* Mutant: no answer is taken for the answer that there is no objection.
FailPulls_StaysObserved ==
    /\ Observe("pulls", "list", observation, TRUE)
    /\ UNCHANGED todo

FailPulls ==
    /\ Observe("pulls", "list", [observation EXCEPT !.api = "insufficient"], TRUE)
    /\ UNCHANGED todo

ListRulesets ==
    /\ Observe("list", "details", observation, FALSE)
    /\ todo' = {id \in Rulesets : rulesets[id] # Gone}

\* Mutant: the failed call leaves the observation as it was.
FailRulesets_Ignored ==
    /\ at \in {"list", "details"} /\ (at = "details" => todo # {})
    /\ Observe(at, "judge", observation, TRUE)
    /\ UNCHANGED todo

\* Listing the rulesets, or reading one that is listed, fails.
FailRulesets ==
    /\ at \in {"list", "details"} /\ (at = "details" => todo # {})
    /\ Observe(at, "judge",
           [observation EXCEPT !.ruleset = "insufficient", !.api = "insufficient"], TRUE)
    /\ UNCHANGED todo

ReadProtecting == \E id \in todo :
    /\ Protects(rulesets[id])
    /\ Observe("details", "judge", [observation EXCEPT !.ruleset = "observed"], FALSE)
    /\ UNCHANGED todo

\* Mutant: a ruleset that is of no use ends the search.
ReadOther_Stops == \E id \in todo :
    /\ rulesets[id] # Gone /\ ~Protects(rulesets[id])
    /\ Observe("details", "details", observation, FALSE)
    /\ todo' = {}

ReadOther == \E id \in todo :
    /\ rulesets[id] # Gone /\ ~Protects(rulesets[id])
    /\ Observe("details", "details", observation, FALSE)
    /\ todo' = todo \ {id}

NoneProtects ==
    /\ todo = {}
    /\ Observe("details", "judge", [observation EXCEPT !.ruleset = "insufficient"], FALSE)
    /\ UNCHANGED todo

Judge ==
    /\ Step("judge", "done")
    /\ verdict' = Verdict(contract, observation)
    /\ UNCHANGED <<observation, todo, dossier, failed>>

\* External: the administrator changes or removes a ruleset during the run.
Change ==
    /\ at \notin {"load", "done"} /\ changes < MaxChanges
    /\ \E id \in Rulesets, detail \in Details \cup {Gone} :
          /\ detail # rulesets[id]
          /\ rulesets' = [rulesets EXCEPT ![id] = detail]
          /\ met' = met \cup {detail}
          /\ steady' = steady \ (IF Protects(detail) THEN {} ELSE {id})
    /\ changes' = changes + 1
    /\ UNCHANGED <<given, at, observation, todo, dossier, verdict, failed>>

Done == at = "done" /\ UNCHANGED vars

Gate ==
    \/ Load \/ Reject \/ NoToken \/ Begin \/ AnswerPulls \/ FailPulls
    \/ ListRulesets \/ FailRulesets \/ ReadProtecting \/ ReadOther \/ NoneProtects \/ Judge

Next == Gate \/ Change \/ Done

Spec == Init /\ [][Next]_vars

-----------------------------------------------------------------------------
Levels  == {"observed", "insufficient"}
Results == [status : {"PENDING", "CLOSED", "UNKNOWN", "REFUTED"}, unknown : UnknownRecords]

TypeOK ==
    /\ at \in {"load", "observe", "pulls", "list", "details", "judge", "done"}
    /\ observation \in [bootstraps : {0, 1}, bootstrapsKnown : BOOLEAN, direct : {0, 1},
                        directKnown : BOOLEAN, api : Levels, ruleset : Levels]
    /\ todo \subseteq Rulesets
    /\ dossier \in Results /\ verdict \in Results
    /\ rulesets \in [Rulesets -> Details \cup {Gone}]
    /\ at = "judge" => observation.directKnown \/ observation.api = "insufficient"

Asked == trigger.configured /\ trigger.mainPush /\ ~trigger.first

\* No failed call ends in an approval, and an approval rests on a ruleset that
\* protected main at some moment of the run.
ClosedWasObserved ==
    verdict.status = "CLOSED" => ~failed /\ \E detail \in met : Protects(detail)

\* A refutation rests on an answer: a push to main without a pull request is
\* refuted once the answer is in, whichever later calls fail, and nothing
\* else is refuted.
RefutedIsWitnessed ==
    at = "done" /\ Valid(contract) =>
        (verdict.status = "REFUTED")
            = (Asked /\ ~history.merged /\ observation.directKnown)

\* The gate does not cry wolf: with every call answered, a pull request behind
\* the push and a ruleset that protects all along, the verdict is CLOSED.
NoFalseAlarm ==
    /\ at = "done" /\ Valid(contract)
    /\ trigger.configured /\ ~failed /\ steady # {}
    /\ Asked => history.merged
    => verdict.status = "CLOSED"

\* Whatever is unknown, in the plan or in the verdict, names all six fields,
\* under every contract that was accepted.
UnknownKeepsRecord ==
    \A result \in {dossier, verdict} :
        result.status = "UNKNOWN" => CompleteRecord(result.unknown)

\* contract.go:266 calls a closed observation one in which the bootstrap was
\* observed, and .gooo/bootstrap.gooo:6-7 wants exactly one bootstrap commit.
ClosedMeansOneBootstrap == verdict.status = "CLOSED" => history.bootstraps = 1
=============================================================================
