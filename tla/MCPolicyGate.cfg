CONSTANTS
    Contracts <- MCContracts
    Triggers <- MCTriggers
    Histories <- OneBootstrap
    Rulesets = {1, 2}
    Details <- MCDetails
    MaxChanges = 2
SPECIFICATION Spec
INVARIANTS
    TypeOK
    ClosedWasObserved
    RefutedIsWitnessed
    NoFalseAlarm
    UnknownKeepsRecord
