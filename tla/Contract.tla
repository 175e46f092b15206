------------------------------ MODULE Contract ------------------------------
(***************************************************************************)
(* The bootstrap contract (internal/gooo/contract.go): what Validate       *)
(* accepts, and the verdict Evaluate gives on an observation.              *)
(*                                                                         *)
(*   contract     [clauses, cases]: the clauses that say what the code     *)
(*                demands of them, and the sequence of canonical cases     *)
(*   case         [id, expected, direct, api, ruleset, unknown]            *)
(*   unknown      [given, filled]: whether the record is there, and which  *)
(*                of its six fields are not empty                          *)
(*   observation  [bootstraps, bootstrapsKnown, direct, directKnown, api,  *)
(*                ruleset], the last two "observed" or "insufficient"      *)
(***************************************************************************)
EXTENDS Integers, Sequences

SixFields == {"stage", "step", "reason", "unknown_class", "next_operation", "blocked_by"}
NoRecord  == [given |-> FALSE, filled |-> {}]

UnknownRecords == [given : BOOLEAN, filled : SUBSET SixFields]
CanonicalCases == [id : STRING, expected : STRING, direct : Int, api : STRING,
                   ruleset : STRING, unknown : UnknownRecords]

\* Each of these has one value the code accepts.
Clauses ==
    {"schema", "authority", "contract_id", "bootstrap_commit", "post_bootstrap_direct_main",
     "status_precedence", "unknown_fields", "apply_boundary", "improvement_evidence",
     "closure_guards", "inventory", "measurements"}

CaseIds == {"normal", "unknown-api-observability", "direct-main-observed"}

CompleteRecord(unknown) == unknown.given /\ unknown.filled = SixFields

\* Mutant: the record of the unknown case need only be there.
ValidCase_AnyRecord(case) ==
    \/ /\ case.id = "normal" /\ case.expected = "CLOSED"
       /\ case.direct = 0 /\ case.api = "observed" /\ case.ruleset = "observed"
    \/ /\ case.id = "unknown-api-observability" /\ case.expected = "UNKNOWN"
       /\ case.direct = 0 /\ case.unknown.given
    \/ /\ case.id = "direct-main-observed" /\ case.expected = "REFUTED"
       /\ case.direct = 1 /\ ~case.unknown.given

\* validateCanonicalCase: what is observed in the unknown case is not looked at.
ValidCase(case) ==
    \/ /\ case.id = "normal" /\ case.expected = "CLOSED"
       /\ case.direct = 0 /\ case.api = "observed" /\ case.ruleset = "observed"
       /\ ~case.unknown.given
    \/ /\ case.id = "unknown-api-observability" /\ case.expected = "UNKNOWN"
       /\ case.direct = 0 /\ CompleteRecord(case.unknown)
    \/ /\ case.id = "direct-main-observed" /\ case.expected = "REFUTED"
       /\ case.direct = 1 /\ ~case.unknown.given

Valid(contract) ==
    /\ contract.clauses = Clauses
    /\ Len(contract.cases) = 3
    /\ \A i \in DOMAIN contract.cases : ValidCase(contract.cases[i])
    /\ CaseIds = {contract.cases[i].id : i \in DOMAIN contract.cases}

\* unknownTemplate: the record of the first unknown case that has one.
Template(contract) ==
    LET cases == contract.cases
        at == {i \in DOMAIN cases : cases[i].expected = "UNKNOWN" /\ cases[i].unknown.given}
    IN  IF at = {} THEN NoRecord ELSE cases[CHOOSE i \in at : \A j \in at : i <= j].unknown

Refuted(o) ==
    \/ o.directKnown /\ o.direct > 0
    \/ o.bootstrapsKnown /\ o.bootstraps # 1

Insufficient(o) ==
    \/ ~o.bootstrapsKnown \/ ~o.directKnown
    \/ o.api # "observed" \/ o.ruleset # "observed"

\* Mutant: what is not known is looked at before what is refuted.
Verdict_UnknownFirst(contract, o) ==
    IF Insufficient(o) THEN [status |-> "UNKNOWN", unknown |-> Template(contract)]
    ELSE [status |-> IF Refuted(o) THEN "REFUTED" ELSE "CLOSED", unknown |-> NoRecord]

\* Evaluate.
Verdict(contract, o) ==
    IF Refuted(o) THEN [status |-> "REFUTED", unknown |-> NoRecord]
    ELSE IF Insufficient(o) THEN [status |-> "UNKNOWN", unknown |-> Template(contract)]
    ELSE [status |-> "CLOSED", unknown |-> NoRecord]

\* ValidateCanonicalCases: each case is judged as it expects.
CasesHold(contract) ==
    \A i \in DOMAIN contract.cases :
        LET case   == contract.cases[i]
            result == Verdict(contract,
                [bootstraps |-> 1, bootstrapsKnown |-> TRUE, direct |-> case.direct,
                 directKnown |-> TRUE, api |-> case.api, ruleset |-> case.ruleset])
        IN  /\ result.status = case.expected
            /\ result.status = "UNKNOWN" => CompleteRecord(result.unknown)
=============================================================================
