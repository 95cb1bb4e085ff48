CONSTANTS
    VarNames = {"]A", "]B"}
    Globals = {"G1", "G2"}
    MacroNames = {"M"}
    MaxIds = 4
    MaxAnon = 2
    MaxLines = 5
    BindDirectives = {"global", "weak", "local", "ent", "ext"}
    ExportFlag = 8
    WeakFlag = 64
    LocalFlag = 128
SPECIFICATION Spec
INVARIANT TypeOK
INVARIANT ForwardRefsAdopted
INVARIANT BackingsDistinct
INVARIANT VarRefsResolveToLatest
