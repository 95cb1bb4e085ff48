CONSTANTS
    Dialects = {"merlin", "scasm", "edtasm"}
    Delims <- MCDelims
    Contents <- MCContents
    HexVals <- MCHexVals
    MaxOps = 2
    MaxHex = 4
SPECIFICATION Spec
INVARIANT TypeOK
INVARIANT StringsFollowSpec
INVARIANT HexFollowsSpec
