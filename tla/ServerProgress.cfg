\* Progress under fair scheduling: one permit, readers, reloads and shutdown; both
\* files edited, reloads requested at any moment.
SPECIFICATION FairSpec
CONSTANTS
    q1 = q1  q2 = q2  q3 = q3  d1 = d1  d2 = d2  alice = alice  k1 = k1  k2 = k2
    NoReq = NoReq  NoKey = NoKey  NoTime = NoTime  NoAnswer = NoAnswer
    Anonymous = anonymous
    Reqs <- Two
    Digests = {d1}
    Users = {alice}
    Keys = {k1, k2}
    Packets <- ProgressPackets
    Threads = TRUE  MaxThreads = 1
    Forwarding = TRUE  QueueCap = 1
    NumSources = 1
    Upstream <- Answers
    Faults = {"panic", "socket"}
    Clock = {1}
    MaxEdits = 1
    MaxCount = 3
    Accounts <- MCAccounts
    Acl <- MCAcl
INVARIANTS ReloadNotLost ServedUnderOneAuth
PROPERTIES ReceivedIsAnswered ReloadTakesEffect ShutdownEnds
