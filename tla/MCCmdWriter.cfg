CONSTANTS
    Orgs = {1, 4}
    Sizes = {0, 2, 3}
    Kinds = {"code", "offset"}
    NSecs = 3
    ExecAddrs = {2}
SPECIFICATION Spec
INVARIANT FileMatchesSpec
