\* One request at a time, of every shape, two proxy sources, every fault but a panic:
\* what is acknowledged is kept, answered and forwarded, to a server listed twice.
SPECIFICATION RSpec
CONSTANTS
    q1 = q1  q2 = q2  d1 = d1  alice = alice  bob = bob  k1 = k1  s1 = s1
    NoReq = NoReq  NoKey = NoKey  NoTime = NoTime  NoAnswer = NoAnswer
    Anonymous = anonymous
    Reqs <- Two
    Digests = {d1}
    Users = {alice, bob}
    Keys = {k1}
    Packets <- InlinePackets
    Threads = FALSE  MaxThreads = 0
    Forwarding = TRUE  QueueCap = 4
    NumSources = 2
    Upstream <- Answers
    Faults = {"error", "ambiguous", "send", "socket"}
    Clock = {1}
    MaxEdits = 0
    MaxCount = 3
    Accounts <- MCAccounts
    Acl <- MCAcl
    Servers <- RepeatedServer
    BatchSize = 3
    SendFails = TRUE  Interrupts = FALSE
SYMMETRY Symmetric
INVARIANTS ForwardedAsAnswered AcknowledgedKept GracefulShutdown
