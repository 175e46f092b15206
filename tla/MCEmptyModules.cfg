CONSTANT Inputs <- EmptyInputs
SPECIFICATION Spec
INVARIANT ClosedHasModules
