---------------------------- MODULE MCPolicyGate ----------------------------
(***************************************************************************)
(* Contracts that are right, that are wrong in one clause, and with        *)
(* canonical cases that are missing, doubled, or whose unknown record has  *)
(* a gap, or that observe more or less; every trigger; two rulesets that   *)
(* protect or just fail to.                                                *)
(***************************************************************************)
EXTENDS PolicyGate

Complete == [given |-> TRUE, filled |-> SixFields]
Case(id, expected, direct, level, unknown) ==
    [id |-> id, expected |-> expected, direct |-> direct, api |-> level, ruleset |-> level,
     unknown |-> unknown]
Normal       == Case("normal", "CLOSED", 0, "observed", NoRecord)
Direct       == Case("direct-main-observed", "REFUTED", 1, "observed", NoRecord)
Doubtful(unknown) ==
    Case("unknown-api-observability", "UNKNOWN", 0, "insufficient", unknown)
Right == << Normal, Doubtful(Complete), Direct >>

MCContracts ==
    [clauses : {Clauses}, cases :
        { Right, << Direct, Normal, Doubtful(Complete) >>, << Normal, Direct >>,
          << Normal, Normal, Direct >>,
          << Normal, [Doubtful(Complete) EXCEPT !.api = "observed", !.ruleset = "observed"],
             Direct >>,
          << Normal, Doubtful(Complete), [Direct EXCEPT !.api = "insufficient"] >>,
          << Normal, Doubtful(NoRecord), Direct >>,
          << Normal, Doubtful([Complete EXCEPT !.filled = @ \ {"blocked_by"}]), Direct >>,
          << [Normal EXCEPT !.unknown = Complete], Doubtful(Complete), Direct >> }]
    \cup {[clauses |-> Clauses \ {"status_precedence"}, cases |-> Right]}

MCTriggers == [configured : BOOLEAN, mainPush : BOOLEAN, first : BOOLEAN]

Guard == [target |-> "branch", enforcement |-> "active", includes |-> {"main"},
          rules |-> {"pull_request", "deletion"}]
MCDetails ==
    { Guard, [Guard EXCEPT !.enforcement = "evaluate"], [Guard EXCEPT !.includes = {"release"}],
      [Guard EXCEPT !.rules = {"deletion"}], [Guard EXCEPT !.target = "tag"] }

OneBootstrap  == [bootstraps : {1}, merged : BOOLEAN]
AnyBootstraps == [bootstraps : 0..2, merged : BOOLEAN]
=============================================================================
