-------------------------- MODULE PolicyGateProofs --------------------------
(***************************************************************************)
(* Theorems about PolicyGate.tla, for all contracts, triggers, histories   *)
(* and rulesets, and any number of changes to the rulesets.                *)
(*                                                                         *)
(* The verdict is a function of the observation, so everything is said of  *)
(* the observation first: GateInv is what it may hold at each point of the *)
(* gate, next to what the specification remembers of the run.              *)
(***************************************************************************)
EXTENDS PolicyGate, TLAPS

\* The contract is accepted wherever the gate has passed beyond loading it.
Loaded == at \notin {"load", "done"} => Valid(contract)

\* The verdict follows from the observation.
Judged ==
    /\ at # "done" => verdict = Pending
    /\ at = "done" =>
          IF Valid(contract) THEN verdict = Verdict(contract, observation)
          ELSE verdict = Pending

Promised ==
    \/ dossier = Pending
    \/ Valid(contract) /\ dossier = [status |-> "UNKNOWN", unknown |-> Template(contract)]

\* Nothing is known of pull requests before they are asked for, and then what
\* is known is what they answered.
PullsTold ==
    /\ at \in {"load", "observe", "pulls"} => ~observation.directKnown /\ observation.direct = 0
    /\ at = "pulls" => Asked
    /\ observation.directKnown =>
          /\ Asked /\ ~history.merged => observation.direct = 1
          /\ ~(Asked /\ ~history.merged) => observation.direct = 0
    /\ ~observation.directKnown => observation.direct = 0

BootstrapAsserted ==
    /\ observation.bootstrapsKnown => observation.bootstraps = 1
    /\ trigger.configured => observation.bootstrapsKnown

\* A failed call leaves its mark, and only a failed call does.
FailureMarked ==
    /\ failed => observation.api # "observed"
    /\ trigger.configured /\ ~failed => observation.api = "observed"
    /\ trigger.configured /\ ~failed /\ at \in {"list", "details", "judge"} =>
          observation.directKnown
    /\ at \in {"pulls", "list", "details"} => trigger.configured

Remembered ==
    /\ \A id \in Rulesets : rulesets[id] \in met
    /\ steady \subseteq Rulesets
    /\ \A id \in steady : Protects(rulesets[id])

\* What is observed of the rulesets, when they have been gone through.
RulesetsTold ==
    /\ at = "details" => steady \subseteq todo
    /\ at = "judge" \/ (at = "done" /\ Valid(contract)) =>
          /\ observation.ruleset = "observed" => \E detail \in met : Protects(detail)
          /\ trigger.configured /\ ~failed =>
                /\ observation.directKnown
                /\ steady # {} => observation.ruleset = "observed"

GateInv ==
    /\ contract \in Contracts
    /\ Loaded /\ Judged /\ Promised
    /\ PullsTold /\ BootstrapAsserted /\ FailureMarked /\ Remembered /\ RulesetsTold

Inv == TypeOK /\ GateInv

-----------------------------------------------------------------------------
(* The record of what is unknown. *)

\* unknownTemplate: the unknown record of an accepted contract has all six
\* fields, whatever the order of its cases.
LEMMA TemplateIsComplete ==
    ASSUME NEW c \in Contracts, Valid(c)
    PROVE  CompleteRecord(Template(c)) /\ Template(c) \in UnknownRecords
<1> DEFINE Doubtful == {i \in DOMAIN c.cases :
                           c.cases[i].expected = "UNKNOWN" /\ c.cases[i].unknown.given}
           First    == CHOOSE i \in Doubtful : \A j \in Doubtful : i <= j
<1>1. c.cases \in Seq(CanonicalCases) /\ Len(c.cases) = 3
  BY ContractAssumption DEF Valid
<1>2. DOMAIN c.cases = {1, 2, 3}
  BY <1>1
<1>3. PICK k \in DOMAIN c.cases : c.cases[k].id = "unknown-api-observability"
  BY DEF Valid, CaseIds
<1>4. k \in Doubtful
  BY <1>3 DEF Valid, ValidCase, CompleteRecord
<1>5. First \in Doubtful
  <2>1. \E i \in Doubtful : \A j \in Doubtful : i <= j
    BY <1>2, <1>4
  <2> QED BY <2>1
<1>6. CompleteRecord(c.cases[First].unknown)
  BY <1>5 DEF Valid, ValidCase
<1>7. c.cases[First].unknown \in UnknownRecords
  <2>1. First \in DOMAIN c.cases
    BY Zenon, <1>5
  <2> HIDE DEF First
  <2>2. c.cases[First] \in CanonicalCases
    BY <1>1, <2>1
  <2> QED BY <2>2 DEF CanonicalCases
<1>8. Template(c) = c.cases[First].unknown
  BY <1>4 DEF Template
<1> QED BY <1>6, <1>7, <1>8

\* Whatever is judged is a result, and what is judged unknown names all fields.
LEMMA VerdictIsResult ==
    ASSUME NEW c \in Contracts, Valid(c), NEW o
    PROVE  /\ Verdict(c, o) \in Results
           /\ Verdict(c, o).status = "UNKNOWN" => CompleteRecord(Verdict(c, o).unknown)
<1>1. CompleteRecord(Template(c)) /\ Template(c) \in UnknownRecords
  BY TemplateIsComplete
<1>2. NoRecord \in UnknownRecords
  BY DEF NoRecord, UnknownRecords
<1> QED BY <1>1, <1>2 DEF Verdict, Results

-----------------------------------------------------------------------------
(* The invariant. *)

LEMMA InitInv == Init => Inv
<1> SUFFICES ASSUME Init PROVE Inv
  OBVIOUS
<1> USE DEF Init
<1>1. TypeOK
  BY DEF TypeOK, BestCase, Levels, Pending, Results, UnknownRecords, NoRecord, SixFields
<1>2. Loaded /\ Judged /\ Promised
  BY DEF Loaded, Judged, Promised
<1>3. PullsTold /\ BootstrapAsserted /\ FailureMarked
  BY DEF PullsTold, BootstrapAsserted, FailureMarked, BestCase
<1>4. Remembered /\ RulesetsTold
  BY DEF Remembered, RulesetsTold
<1> QED BY <1>1, <1>2, <1>3, <1>4 DEF Inv, GateInv

\* Types, and what does not depend on what is observed, under any step that observes.
LEMMA ObserveKeeps ==
    ASSUME Inv, NEW here \in {"observe", "pulls", "list", "details"},
           NEW to \in {"pulls", "list", "details", "judge"},
           NEW seen, NEW fails \in BOOLEAN, Observe(here, to, seen, fails)
    PROVE  /\ contract' \in Contracts
           /\ Loaded' /\ Judged' /\ Promised' /\ Remembered'
           /\ verdict' \in Results /\ dossier' \in Results
           /\ rulesets' \in [Rulesets -> Details \cup {Gone}]
<1> USE DEF Inv, GateInv, Observe, Step, given, server
<1>1. contract' \in Contracts /\ Loaded'
  BY DEF Loaded
<1>2. Judged' /\ Promised'
  BY DEF Judged, Promised
<1>3. Remembered'
  BY DEF Remembered
<1>4. /\ verdict' \in Results /\ dossier' \in Results
      /\ rulesets' \in [Rulesets -> Details \cup {Gone}]
  BY DEF TypeOK
<1> QED BY <1>1, <1>2, <1>3, <1>4

\* What remains to be shown of a step that observes.
LEMMA ObserveStep ==
    ASSUME Inv, NEW here \in {"observe", "pulls", "list", "details"},
           NEW to \in {"pulls", "list", "details", "judge"},
           NEW seen \in [bootstraps : {0, 1}, bootstrapsKnown : BOOLEAN, direct : {0, 1},
                         directKnown : BOOLEAN, api : Levels, ruleset : Levels],
           NEW fails \in BOOLEAN, Observe(here, to, seen, fails),
           todo' \subseteq Rulesets,
           to = "judge" => seen.directKnown \/ seen.api = "insufficient",
           PullsTold', BootstrapAsserted', FailureMarked', RulesetsTold'
    PROVE  Inv'
<1>1. /\ contract' \in Contracts
      /\ Loaded' /\ Judged' /\ Promised' /\ Remembered'
      /\ verdict' \in Results /\ dossier' \in Results
      /\ rulesets' \in [Rulesets -> Details \cup {Gone}]
  BY ObserveKeeps
<1>2. TypeOK'
  BY <1>1 DEF TypeOK, Observe, Step
<1> QED BY <1>1, <1>2 DEF Inv, GateInv

LEMMA NextInv == Inv /\ [Next]_vars => Inv'
<1> SUFFICES ASSUME Inv, [Next]_vars PROVE Inv'
  OBVIOUS
<1> DEFINE Seen == [bootstraps : {0, 1}, bootstrapsKnown : BOOLEAN, direct : {0, 1},
                    directKnown : BOOLEAN, api : Levels, ruleset : Levels]
<1>t. TypeOK
  BY DEF Inv
<1>o. observation \in Seen /\ todo \subseteq Rulesets
  BY <1>t DEF TypeOK
<1>1. ASSUME Load PROVE Inv'
  <2> USE <1>1 DEF Load, Step, given, server
  <2>1. contract \in Contracts
    BY DEF Inv, GateInv
  <2>2. Template(contract) \in UnknownRecords
    BY <2>1, TemplateIsComplete
  <2>3. TypeOK'
    BY <1>t, <2>2 DEF TypeOK, Results
  <2>4. Loaded' /\ Judged' /\ Promised'
    BY DEF Inv, GateInv, Loaded, Judged, Promised
  <2>5. PullsTold' /\ BootstrapAsserted' /\ FailureMarked'
    BY DEF Inv, GateInv, PullsTold, BootstrapAsserted, FailureMarked, Asked
  <2>6. Remembered' /\ RulesetsTold'
    BY DEF Inv, GateInv, Remembered, RulesetsTold
  <2> QED BY <2>1, <2>3, <2>4, <2>5, <2>6 DEF Inv, GateInv
<1>2. ASSUME Reject PROVE Inv'
  <2> USE <1>2 DEF Reject, Step, given, server
  <2>3. TypeOK'
    BY <1>t DEF TypeOK
  <2>4. Loaded' /\ Judged' /\ Promised'
    BY DEF Inv, GateInv, Loaded, Judged, Promised
  <2>5. PullsTold' /\ BootstrapAsserted' /\ FailureMarked'
    BY DEF Inv, GateInv, PullsTold, BootstrapAsserted, FailureMarked, Asked
  <2>6. Remembered' /\ RulesetsTold'
    BY DEF Inv, GateInv, Remembered, RulesetsTold
  <2> QED BY <2>3, <2>4, <2>5, <2>6 DEF Inv, GateInv
<1>3. ASSUME NoToken PROVE Inv'
  <2> USE <1>3 DEF NoToken
  <2>1. NoAccess \in Seen
    BY DEF NoAccess, Levels
  <2>2. PullsTold' /\ BootstrapAsserted' /\ FailureMarked'
    BY DEF Observe, Step, given, NoAccess, PullsTold, BootstrapAsserted, FailureMarked, Asked
  <2>3. RulesetsTold'
    BY DEF Observe, Step, given, NoAccess, RulesetsTold
  <2> QED BY <1>o, <2>1, <2>2, <2>3, ObserveStep DEF NoAccess
<1>4. ASSUME Begin PROVE Inv'
  <2> DEFINE Here == trigger.mainPush /\ ~trigger.first
  <2>1. CASE Here
    <3>1. Observe("observe", "pulls", observation, FALSE) /\ trigger.configured /\ Asked
      BY <1>4, <2>1 DEF Begin, Asked
    <3>2. PullsTold' /\ BootstrapAsserted' /\ FailureMarked'
      BY <3>1 DEF Inv, GateInv, Observe, Step, given, PullsTold, BootstrapAsserted,
                  FailureMarked, Asked
    <3>3. RulesetsTold'
      BY <3>1 DEF Observe, Step, RulesetsTold
    <3> QED BY <1>o, <1>4, <3>1, <3>2, <3>3, ObserveStep DEF Begin
  <2>2. CASE ~Here
    <3> DEFINE seen == [observation EXCEPT !.directKnown = TRUE]
    <3>1. Observe("observe", "list", seen, FALSE) /\ trigger.configured /\ ~Asked
      BY <1>4, <2>2 DEF Begin, Asked
    <3>2. seen \in Seen
      BY <1>o
    <3>3. PullsTold' /\ BootstrapAsserted' /\ FailureMarked'
      BY <1>o, <3>1 DEF Inv, GateInv, Observe, Step, given, PullsTold, BootstrapAsserted,
                  FailureMarked, Asked
    <3>4. RulesetsTold'
      BY <3>1 DEF Observe, Step, RulesetsTold
    <3> QED BY <1>o, <1>4, <3>1, <3>2, <3>3, <3>4, ObserveStep DEF Begin
  <2> QED BY <2>1, <2>2
<1>5. ASSUME AnswerPulls PROVE Inv'
  <2> DEFINE seen == [observation EXCEPT !.directKnown = TRUE,
                                         !.direct = IF history.merged THEN 0 ELSE 1]
  <2>1. Observe("pulls", "list", seen, FALSE) /\ seen \in Seen
    BY <1>o, <1>5 DEF AnswerPulls
  <2>2. PullsTold' /\ BootstrapAsserted' /\ FailureMarked'
    BY <1>o, <2>1 DEF Inv, GateInv, Observe, Step, given, PullsTold, BootstrapAsserted,
                FailureMarked, Asked
  <2>3. RulesetsTold'
    BY <2>1 DEF Observe, Step, RulesetsTold
  <2> QED BY <1>o, <1>5, <2>1, <2>2, <2>3, ObserveStep DEF AnswerPulls
<1>6. ASSUME FailPulls PROVE Inv'
  <2> DEFINE seen == [observation EXCEPT !.api = "insufficient"]
  <2>1. Observe("pulls", "list", seen, TRUE) /\ seen \in Seen
    BY <1>o, <1>6 DEF FailPulls, Levels
  <2>2. PullsTold' /\ BootstrapAsserted' /\ FailureMarked'
    BY <1>o, <2>1 DEF Inv, GateInv, Observe, Step, given, PullsTold, BootstrapAsserted,
                FailureMarked, Asked
  <2>3. RulesetsTold'
    BY <2>1 DEF Observe, Step, RulesetsTold
  <2> QED BY <1>o, <1>6, <2>1, <2>2, <2>3, ObserveStep DEF FailPulls
<1>7. ASSUME ListRulesets PROVE Inv'
  <2>1. /\ Observe("list", "details", observation, FALSE)
        /\ todo' = {id \in Rulesets : rulesets[id] # Gone}
    BY <1>7 DEF ListRulesets
  <2>2. PullsTold' /\ BootstrapAsserted' /\ FailureMarked'
    BY <2>1 DEF Inv, GateInv, Observe, Step, given, PullsTold, BootstrapAsserted,
                FailureMarked, Asked
  <2>3. \A id \in steady : id \in Rulesets /\ rulesets[id] # Gone
    BY DEF Inv, GateInv, Remembered, Protects, Gone
  <2>4. RulesetsTold'
    BY <2>1, <2>3 DEF Observe, Step, server, RulesetsTold
  <2> QED BY <1>o, <2>1, <2>2, <2>4, ObserveStep
<1>8. ASSUME FailRulesets PROVE Inv'
  <2> DEFINE seen == [observation EXCEPT !.ruleset = "insufficient", !.api = "insufficient"]
  <2>1. /\ at \in {"list", "details"} /\ Observe(at, "judge", seen, TRUE)
        /\ todo' = todo /\ seen \in Seen
    BY <1>o, <1>8 DEF FailRulesets, Levels
  <2>2. PullsTold' /\ BootstrapAsserted' /\ FailureMarked'
    BY <1>o, <2>1 DEF Inv, GateInv, Observe, Step, given, PullsTold, BootstrapAsserted,
                FailureMarked, Asked
  <2>3. RulesetsTold'
    BY <1>o, <2>1 DEF Observe, Step, RulesetsTold
  <2> QED BY <1>o, <2>1, <2>2, <2>3, ObserveStep
<1>9. ASSUME ReadProtecting PROVE Inv'
  <2> DEFINE seen == [observation EXCEPT !.ruleset = "observed"]
  <2>1. PICK id \in todo : Protects(rulesets[id]) /\ Observe("details", "judge", seen, FALSE)
    BY <1>9 DEF ReadProtecting
  <2>2. todo' = todo /\ seen \in Seen
    BY <1>o, <1>9 DEF ReadProtecting, Levels
  <2>3. PullsTold' /\ BootstrapAsserted' /\ FailureMarked'
    BY <1>o, <2>1 DEF Inv, GateInv, Observe, Step, given, PullsTold, BootstrapAsserted,
                FailureMarked, Asked
  <2>4. \E detail \in met : Protects(detail)
    BY <1>o, <2>1 DEF Inv, GateInv, Remembered
  <2>5. trigger.configured /\ ~failed => seen.directKnown
    BY <1>o, <2>1 DEF Inv, GateInv, FailureMarked, Observe, Step
  <2>6. RulesetsTold'
    BY <1>o, <2>1, <2>4, <2>5 DEF Observe, Step, given, server, RulesetsTold
  <2>7. seen.directKnown \/ seen.api = "insufficient"
    BY <1>o, <2>1, <2>5 DEF Inv, GateInv, FailureMarked, Observe, Step, Levels
  <2> QED BY <1>o, <2>1, <2>2, <2>3, <2>6, <2>7, ObserveStep
<1>10. ASSUME ReadOther PROVE Inv'
  <2>1. PICK id \in todo : /\ ~Protects(rulesets[id]) /\ todo' = todo \ {id}
                            /\ Observe("details", "details", observation, FALSE)
    BY <1>10 DEF ReadOther
  <2>2. PullsTold' /\ BootstrapAsserted' /\ FailureMarked'
    BY <2>1 DEF Inv, GateInv, Observe, Step, given, PullsTold, BootstrapAsserted,
                FailureMarked, Asked
  <2>3. id \notin steady
    BY <2>1 DEF Inv, GateInv, Remembered
  <2>4. RulesetsTold'
    BY <2>1, <2>3 DEF Inv, GateInv, Observe, Step, server, RulesetsTold
  <2> QED BY <1>o, <2>1, <2>2, <2>4, ObserveStep
<1>11. ASSUME NoneProtects PROVE Inv'
  <2> DEFINE seen == [observation EXCEPT !.ruleset = "insufficient"]
  <2>1. Observe("details", "judge", seen, FALSE) /\ todo = {} /\ todo' = todo /\ seen \in Seen
    BY <1>o, <1>11 DEF NoneProtects, Levels
  <2>2. PullsTold' /\ BootstrapAsserted' /\ FailureMarked'
    BY <1>o, <2>1 DEF Inv, GateInv, Observe, Step, given, PullsTold, BootstrapAsserted,
                FailureMarked, Asked
  <2>3. steady = {}
    BY <2>1 DEF Inv, GateInv, Observe, Step, RulesetsTold
  <2>4. trigger.configured /\ ~failed => seen.directKnown
    BY <1>o, <2>1 DEF Inv, GateInv, FailureMarked, Observe, Step
  <2>5. RulesetsTold'
    BY <1>o, <2>1, <2>3, <2>4 DEF Observe, Step, given, server, RulesetsTold
  <2>6. seen.directKnown \/ seen.api = "insufficient"
    BY <1>o, <2>1, <2>4 DEF Inv, GateInv, FailureMarked, Observe, Step, Levels
  <2> QED BY <1>o, <2>1, <2>2, <2>5, <2>6, ObserveStep
<1>12. ASSUME Judge PROVE Inv'
  <2> USE <1>12 DEF Judge, Step, given, server
  <2>1. contract \in Contracts /\ Valid(contract)
    BY DEF Inv, GateInv, Loaded
  <2>2. Verdict(contract, observation) \in Results
    BY <2>1, VerdictIsResult
  <2>3. TypeOK'
    BY <1>t, <2>2 DEF TypeOK
  <2>4. Loaded' /\ Judged' /\ Promised'
    BY <2>1 DEF Inv, GateInv, Loaded, Judged, Promised
  <2>5. PullsTold' /\ BootstrapAsserted' /\ FailureMarked'
    BY DEF Inv, GateInv, PullsTold, BootstrapAsserted, FailureMarked, Asked
  <2>6. Remembered' /\ RulesetsTold'
    BY DEF Inv, GateInv, Remembered, RulesetsTold
  <2> QED BY <2>1, <2>3, <2>4, <2>5, <2>6 DEF Inv, GateInv
<1>13. ASSUME Change PROVE Inv'
  <2>1. PICK id \in Rulesets, detail \in Details \cup {Gone} :
          /\ rulesets' = [rulesets EXCEPT ![id] = detail]
          /\ met' = met \cup {detail}
          /\ steady' = steady \ (IF Protects(detail) THEN {} ELSE {id})
    BY <1>13 DEF Change
  <2> USE <1>13 DEF Change, given
  <2>2. TypeOK'
    BY <1>t, <2>1 DEF TypeOK
  <2>3. Loaded' /\ Judged' /\ Promised'
    BY DEF Inv, GateInv, Loaded, Judged, Promised
  <2>4. PullsTold' /\ BootstrapAsserted' /\ FailureMarked'
    BY DEF Inv, GateInv, PullsTold, BootstrapAsserted, FailureMarked, Asked
  <2>5. Remembered'
    BY <1>t, <2>1 DEF Inv, GateInv, Remembered, TypeOK
  <2>6. RulesetsTold'
    BY <2>1 DEF Inv, GateInv, RulesetsTold
  <2> QED BY <2>2, <2>3, <2>4, <2>5, <2>6 DEF Inv, GateInv
<1>14. ASSUME UNCHANGED vars PROVE Inv'
  BY <1>14 DEF vars, given, server, Inv, GateInv, TypeOK, Loaded, Judged, Promised, PullsTold,
               BootstrapAsserted, FailureMarked, Remembered, RulesetsTold, Asked
<1> QED BY <1>1, <1>2, <1>3, <1>4, <1>5, <1>6, <1>7, <1>8, <1>9, <1>10, <1>11, <1>12, <1>13,
           <1>14 DEF Next, Gate, Done

LEMMA Invariant == Spec => []Inv
BY InitInv, NextInv, PTL DEF Spec

-----------------------------------------------------------------------------
(* The theorems. *)

\* Every observation, promise and verdict is of its type, and a gate that
\* judges has either an answer about pull requests or a mark that it has none.
THEOREM TypeCorrect == Spec => []TypeOK
<1>1. Inv => TypeOK
  BY DEF Inv
<1> QED BY <1>1, Invariant, PTL

\* A gate that closes has met no failed call and has seen main protected.
THEOREM Approval == Spec => []ClosedWasObserved
<1>1. Inv => ClosedWasObserved
  <2> SUFFICES ASSUME Inv, verdict.status = "CLOSED"
               PROVE  ~failed /\ \E detail \in met : Protects(detail)
    BY DEF ClosedWasObserved
  <2>1. at = "done" /\ Valid(contract) /\ verdict = Verdict(contract, observation)
    BY DEF Inv, GateInv, Judged, Pending
  <2>2. ~Insufficient(observation)
    BY <2>1 DEF Verdict
  <2>3. observation.api = "observed" /\ observation.ruleset = "observed"
    BY <2>2 DEF Insufficient
  <2> QED BY <2>1, <2>3 DEF Inv, GateInv, FailureMarked, RulesetsTold
<1> QED BY <1>1, Invariant, PTL

\* A gate refutes exactly what an answer has shown.
THEOREM Refutation == Spec => []RefutedIsWitnessed
<1>1. Inv => RefutedIsWitnessed
  <2> SUFFICES ASSUME Inv, at = "done", Valid(contract)
               PROVE  (verdict.status = "REFUTED")
                          = (Asked /\ ~history.merged /\ observation.directKnown)
    BY DEF RefutedIsWitnessed
  <2>1. verdict = Verdict(contract, observation)
    BY DEF Inv, GateInv, Judged
  <2>2. verdict.status = "REFUTED" <=> Refuted(observation)
    BY <2>1 DEF Verdict
  <2>3. Refuted(observation) <=> observation.directKnown /\ observation.direct > 0
    BY DEF Inv, GateInv, BootstrapAsserted, Refuted
  <2>4. observation.directKnown /\ observation.direct > 0
            <=> Asked /\ ~history.merged /\ observation.directKnown
    BY DEF Inv, GateInv, PullsTold
  <2> QED BY <2>2, <2>3, <2>4
<1> QED BY <1>1, Invariant, PTL

\* A gate that has every answer, and nothing to object to, closes.
THEOREM Approves == Spec => []NoFalseAlarm
<1>1. Inv => NoFalseAlarm
  <2> SUFFICES ASSUME Inv, at = "done", Valid(contract), trigger.configured, ~failed,
                      steady # {}, Asked => history.merged
               PROVE  verdict.status = "CLOSED"
    BY DEF NoFalseAlarm
  <2>1. verdict = Verdict(contract, observation)
    BY DEF Inv, GateInv, Judged
  <2>2. /\ observation.bootstrapsKnown /\ observation.bootstraps = 1
        /\ observation.directKnown /\ observation.direct = 0
        /\ observation.api = "observed" /\ observation.ruleset = "observed"
    BY DEF Inv, GateInv, BootstrapAsserted, FailureMarked, RulesetsTold, PullsTold
  <2>3. ~Refuted(observation) /\ ~Insufficient(observation)
    BY <2>2 DEF Refuted, Insufficient
  <2> QED BY <2>1, <2>3 DEF Verdict
<1> QED BY <1>1, Invariant, PTL

\* What is left unknown, in the plan or in the verdict, names all six fields.
THEOREM Records == Spec => []UnknownKeepsRecord
<1>1. Inv => UnknownKeepsRecord
  <2> SUFFICES ASSUME Inv PROVE UnknownKeepsRecord
    OBVIOUS
  <2>1. contract \in Contracts
    BY DEF Inv, GateInv
  <2>2. dossier.status = "UNKNOWN" => CompleteRecord(dossier.unknown)
    BY <2>1, TemplateIsComplete DEF Inv, GateInv, Promised, Pending
  <2>3. verdict.status = "UNKNOWN" => CompleteRecord(verdict.unknown)
    <3>1. verdict = Pending \/ (Valid(contract) /\ verdict = Verdict(contract, observation))
      BY DEF Inv, GateInv, Judged
    <3> QED BY <2>1, <3>1, VerdictIsResult DEF Pending
  <2> QED BY <2>2, <2>3 DEF UnknownKeepsRecord
<1> QED BY <1>1, Invariant, PTL

\* ValidateCanonicalCases refuses, of the contracts that Validate accepts,
\* exactly those whose unknown case has nothing left to observe: acceptance
\* does not look at what it observes, and it is judged CLOSED.
THEOREM Rehearsal ==
    ASSUME NEW c \in Contracts, Valid(c)
    PROVE  CasesHold(c) <=>
               ~\E i \in DOMAIN c.cases : /\ c.cases[i].expected = "UNKNOWN"
                                          /\ c.cases[i].api = "observed"
                                          /\ c.cases[i].ruleset = "observed"
<1> DEFINE Seen(case) ==
        [bootstraps |-> 1, bootstrapsKnown |-> TRUE, direct |-> case.direct,
         directKnown |-> TRUE, api |-> case.api, ruleset |-> case.ruleset]
    Holds(case) ==
        /\ Verdict(c, Seen(case)).status = case.expected
        /\ Verdict(c, Seen(case)).status = "UNKNOWN" =>
              CompleteRecord(Verdict(c, Seen(case)).unknown)
<1>1. ASSUME NEW i \in DOMAIN c.cases
      PROVE  Holds(c.cases[i]) <=> ~(/\ c.cases[i].expected = "UNKNOWN"
                                     /\ c.cases[i].api = "observed"
                                     /\ c.cases[i].ruleset = "observed")
  <2> DEFINE case == c.cases[i]
  <2>1. ValidCase(case)
    BY DEF Valid
  <2>2. CompleteRecord(Template(c))
    BY TemplateIsComplete
  <2>3. CASE case.id = "normal"
    <3>1. /\ case.expected = "CLOSED" /\ case.direct = 0
          /\ case.api = "observed" /\ case.ruleset = "observed"
      BY <2>1, <2>3 DEF ValidCase
    <3> QED BY <3>1 DEF Verdict, Refuted, Insufficient
  <2>4. CASE case.id = "unknown-api-observability"
    <3>1. case.expected = "UNKNOWN" /\ case.direct = 0
      BY <2>1, <2>4 DEF ValidCase
    <3> QED BY <2>2, <3>1 DEF Verdict, Refuted, Insufficient
  <2>5. CASE case.id = "direct-main-observed"
    <3>1. case.expected = "REFUTED" /\ case.direct = 1
      BY <2>1, <2>5 DEF ValidCase
    <3> QED BY <3>1 DEF Verdict, Refuted, Insufficient
  <2> QED BY <2>1, <2>3, <2>4, <2>5 DEF ValidCase
<1>2. CasesHold(c) <=> \A i \in DOMAIN c.cases : Holds(c.cases[i])
  BY DEF CasesHold
<1> QED BY <1>1, <1>2
=============================================================================
