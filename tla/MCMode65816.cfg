CONSTANTS
    Cpus = {"6502", "65c02", "65816"}
    MaxLines = 4
SPECIFICATION Spec
INVARIANTS TypeOK SizesFollowStatusBits
