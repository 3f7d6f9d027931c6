\* A check fetches an upstream record while a report counts the same digest.
SPECIFICATION Spec
CONSTANTS
    q1 = q1  q2 = q2  q3 = q3  d1 = d1  d2 = d2  alice = alice  k1 = k1  k2 = k2
    NoReq = NoReq  NoKey = NoKey  NoTime = NoTime  NoAnswer = NoAnswer
    Anonymous = anonymous
    Reqs <- Two
    Digests = {d1}
    Users = {alice}
    Keys = {k1, k2}
    Packets <- CheckPackets
    Threads = TRUE  MaxThreads = 2
    Forwarding = FALSE  QueueCap = 2
    NumSources = 1
    Upstream <- Answers
    Faults = {}
    Clock = {1}
    MaxEdits = 0
    MaxCount = 3
    Accounts <- MCAccounts
    Acl <- MCAcl
INVARIANT AcknowledgedKept
