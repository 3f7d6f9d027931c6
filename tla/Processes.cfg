\* Signals at any moment, processes and forks that fail, fair scheduling.
SPECIFICATION MFair
CONSTANTS
    w1 = w1  w2 = w2  r1 = r1  r2 = r2
    Parent = Parent
    Workers <- TwoWorkers
    MaxEdits = 1
    ForkFails = TRUE
    WorkerFails = TRUE
    Interrupts = TRUE
    Reqs <- Datagrams
    MaxProcesses = 1
    MaxSaves = 1
    ForkBreaks = TRUE
    SocketFails = TRUE
    RecvInterrupts = TRUE
INVARIANTS NoOrphans SlotsBounded ChildrenFinish
PROPERTIES ReloadReachesWorkers SettledTermEnds LaterChildrenReloaded SigtermEndsParent
