CONSTANT Inputs <- MCInputs
SPECIFICATION Spec
INVARIANTS
    ClosedGraphIsAcyclic
    EmittedWithinDecision
