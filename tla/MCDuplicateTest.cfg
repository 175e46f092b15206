CONSTANT Inputs <- DuplicateInputs
SPECIFICATION Spec
INVARIANT ExecutedWithinSelected
