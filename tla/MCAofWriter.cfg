CONSTANTS
    SectionInputs <- MCSectionInputs
    NSecs = 3
    Syms <- MCSyms
    StrLen <- MCStrLen
    IdfnLen = 14
    AreaLimit = 252
    APCS32Cpu = TRUE
    HalfRelocCpu = TRUE
    NoCase = FALSE
SPECIFICATION Spec
INVARIANTS FileLayout StringsReadBack RelocTargetsResolve ThumbRelocAttr
