CONSTANTS
    Contracts <- MCContracts
    Triggers <- MCTriggers
    Histories <- AnyBootstraps
    Rulesets = {1, 2}
    Details <- MCDetails
    MaxChanges = 2
SPECIFICATION Spec
INVARIANT ClosedMeansOneBootstrap
