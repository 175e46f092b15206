CONSTANTS
    Identity <- MCIdentity
    Inputs <- MCInputs
SPECIFICATION FairSpec
INVARIANTS
    TypeOK
    QueueIsSeen
    Frontier
    NothingSpurious
PROPERTIES
    VisitedOnce
    Termination
    ImplementsAffectedSpec
