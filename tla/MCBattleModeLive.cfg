SPECIFICATION FairSpec
CONSTANTS
    Handlers = {h1}
    Closer = Closer
    Remover = Remover
    Drain = Drain
    NoProc = NoProc
    NoTask = 0
    Names <- TheNames
    Tasks <- TheTasks
    Procs <- TheProcs
    Modes = {1}
    Lamps = 2
    GaugeSP = 1
    SPWaste = 1
    MaxResets = 1
    MayClose = FALSE
PROPERTIES
    ModeEnds
    DrainsEnd
INVARIANTS
    NoOrphan
    LobbyClean
