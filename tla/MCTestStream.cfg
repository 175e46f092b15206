CONSTANTS
    Packages <- MCPackages
    Tests <- MCTests
    MaxNoise = 2
SPECIFICATION Spec
INVARIANTS
    TypeOK
    CountsAreOutcomes
