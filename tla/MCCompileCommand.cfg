CONSTANTS
    Scenarios = {"s1"}
    Decisions = {"CLOSED", "REFUTED", "UNKNOWN"}
    Locks <- MCLocks
    Graphs <- MCGraphs
    Runners <- MCRunners
    MaxRuns = 2
    MaxEdits = 1
SPECIFICATION Spec
INVARIANTS
    TypeOK
    ExitIsBacked
    RefusalWritesNothing
    ReportedWasLocked
    ProgramNeverAhead
CHECK_DEADLOCK FALSE
