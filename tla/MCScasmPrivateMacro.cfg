SPECIFICATION Spec
CONSTANTS
    Globals = {"G1", "G2"}
    Nums = {1, 256}
    MaxDepth = 1
    MaxLines = 5
    ExportFlag = 8
    WeakFlag = 64
    LocalFlag = 128
    INLSTACKSIZE = 2
INVARIANT
    PrivateMacroScope
