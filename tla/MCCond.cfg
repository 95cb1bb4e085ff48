CONSTANTS
    Dialects = {"merlin", "scasm", "edtasm"}
    MAXCONDLEV = 4
    MaxLines = 7
SPECIFICATION Spec
INVARIANT TypeOK
PROPERTY CondRefinement
