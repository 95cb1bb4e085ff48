CONSTANTS
    Dialects = {"merlin", "scasm", "edtasm"}
    NumParams = {0, 2, 10}
    BsDigits = {1, 2, 9}
    BrDigits = {0, 1, 8, 9}
    SymVals <- MCSymVals
    Ids = {1, 1000000}
    MaxSpace = 11
    MaxLine = 2
    MaxArgs = 3
    CallSeps <- MCCallSeps
    Igntrail = {FALSE, TRUE}
SPECIFICATION Spec
INVARIANTS TypeOK ExpandsPerSpec WithinBuffer ArgsAsWritten
