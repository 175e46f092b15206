CONSTANT Inputs <- MCInputs
SPECIFICATION Spec
INVARIANTS
    TypeOK
    ClosedIsConfirmed
    ClosedReuseIsExact
    ClosedIsIncremental
    ImprovementIsEarned
    TestListsAddUp
