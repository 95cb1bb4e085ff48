SPECIFICATION Spec
CONSTANTS
    TableStrs <- MCTableStrs
    Msgs <- MCMsgs
    MaxLines = 5
INVARIANTS
    TypeOK
    AcRoundTrip
    AcStreamPacked
