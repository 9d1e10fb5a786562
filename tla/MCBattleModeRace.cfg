SPECIFICATION Spec
CONSTANTS
    Handlers = {h1, h2}
    Closer = Closer
    Remover = Remover
    Drain = Drain
    NoProc = NoProc
    NoTask = 0
    Names <- TheNames
    Tasks <- TheTasks
    Procs <- TheProcs
    Modes = {1}
    Lamps = 2
    GaugeSP = 1
    SPWaste = 1
    MaxResets = 0
    MayClose = TRUE
SYMMETRY HandlerSymmetry
INVARIANTS
    EndIsComing
    TimerOfMode
PROPERTY SparesNextMode
