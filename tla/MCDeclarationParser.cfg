CONSTANTS
    Kinds = {"policy", "module", "conformance"}
    Lines <- MCLines
    MaxLines <- MCMaxLines
    Denominator = 1
SPECIFICATION Spec
INVARIANTS
    TypeOK
    AcceptedIsOneBody
    NoValueLost
PROPERTY NothingAfterTheEnd
