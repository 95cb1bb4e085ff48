CONSTANTS
    Dialects = {"merlin", "scasm"}
    Addrs = {0, 2}
    Named = {"CODE"}
    MaxPc = 4
    MaxLines = 5
SPECIFICATION Spec
INVARIANT TypeOK
PROPERTY DendRestoresOuter
INVARIANT DumResumesAtSavedOffset
