CONSTANTS
    Inputs <- MCInputs
    Order <- MCOrder
    FirstDecls <- MCFirstDecls
    Versions = {0, 1}
    Toolchains = {"t0", "t1"}
    FirstTools = "t0"
    MaxBuilds = 3
    MaxEdits = 2
SPECIFICATION BuildSpec
INVARIANTS
    ReuseIsFresh
    HonestBuildCloses
CHECK_DEADLOCK FALSE
