CONSTANTS
    Manifests <- MCManifests
    Verdicts = {"CLOSED", "UNKNOWN", "REFUTED", "error"}
    MaxRuns = 2
    MaxEdits = 1
SPECIFICATION FairSpec
INVARIANTS
    TypeOK
    ExitMeansComplete
    SuccessMeansExpected
    CorpusNeverAhead
PROPERTY RunsEnd
CHECK_DEADLOCK FALSE
