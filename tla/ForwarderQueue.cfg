\* Workers queue at any moment, sends may fail, the stop comes at any moment.
SPECIFICATION CFair
CONSTANTS
    s1 = s1  s2 = s2
    Servers <- RepeatedServer
    BatchSize = 2
    SendFails = TRUE
    QueueCap = 2
    MaxEntries = 4
INVARIANTS DeliveredInBatches StopFlushes
PROPERTY StopReturns
