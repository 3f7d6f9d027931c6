\* Three workers, two permits, engine errors and panics; updates forwarded.
SPECIFICATION Spec
CONSTANTS
    q1 = q1  q2 = q2  q3 = q3  d1 = d1  d2 = d2  alice = alice  k1 = k1  k2 = k2
    NoReq = NoReq  NoKey = NoKey  NoTime = NoTime  NoAnswer = NoAnswer
    Anonymous = anonymous
    Reqs <- Three
    Digests = {d1, d2}
    Users = {alice}
    Keys = {k1, k2}
    Packets <- UpdatePackets
    Threads = TRUE  MaxThreads = 2
    Forwarding = TRUE  QueueCap = 2
    NumSources = 0
    Upstream = {}
    Faults = {"error", "ambiguous", "panic"}
    Clock = {1}
    MaxEdits = 0
    MaxCount = 2
    Accounts <- MCAccounts
    Acl <- MCAcl
SYMMETRY Symmetric
INVARIANTS TypeOK PermitsCounted MutexHeldInSection ForwardedOnceWritten
PROPERTIES PoisonIsFinal RefinesLedger
