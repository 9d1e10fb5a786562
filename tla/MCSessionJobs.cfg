SPECIFICATION FairSpec
CONSTANTS
    Procs = {p1, p2}
    Tasks = {t1, t2, t3}
    Names = {drain, state}
    NoProc = NoProc
    NoTask = NoTask
PROPERTY StopReturns
INVARIANTS
    ListedRun
