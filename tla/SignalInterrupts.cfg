\* A SIGUSR1 while the loop waits for a datagram, nothing else fails.
SPECIFICATION RSpec
CONSTANTS
    q1 = q1  q2 = q2  d1 = d1  alice = alice  bob = bob  k1 = k1  s1 = s1
    NoReq = NoReq  NoKey = NoKey  NoTime = NoTime  NoAnswer = NoAnswer
    Anonymous = anonymous
    Reqs = {q1}
    Digests = {d1}
    Users = {alice}
    Keys = {k1}
    Packets <- OneReport
    Threads = TRUE  MaxThreads = 1
    Forwarding = TRUE  QueueCap = 1
    NumSources = 0
    Upstream = {}
    Faults = {}
    Clock = {1}
    MaxEdits = 1
    MaxCount = 3
    Accounts <- MCAccounts
    Acl <- MCAcl
    Servers <- OneServer
    BatchSize = 2
    SendFails = FALSE  Interrupts = TRUE
INVARIANT OnlySigtermEnds
