\* Two sessions on one database server, any command of which may fail or lose
\* its answer; or one server on a file that others have written before.
SPECIFICATION MSpec
CONSTANTS
    e1 = e1  e2 = e2  d1 = d1  d2 = d2
    NoTime = NoTime  NoRow = NoRow  Junk = Junk  Foreign = Foreign
    Sessions <- Two
    Digests = {d1, d2}
    Jobs <- MCJobs
    Kinds = {"redis", "redis_v0", "mysql"}
    Shared = {"redis", "mysql"}
    Ages = {0, 1, 2}
    Horizon = 4
    FileDigests = {d1, d2}
    FileKinds = {"gdbm", "file"}
    FileAges = {0, 1}
    FirstDisks <- Disks
    FileUpdates <- MCUpdates
    FileHorizon = 4  MaxUpdates = 2
    Faults = {"refused", "lost"}
    MaxCount = 2
SYMMETRY Symmetric
CHECK_DEADLOCK FALSE
INVARIANTS HalfWrittenOnlyByFailure AcknowledgedSurvives
PROPERTIES RefinesTally NoFreshRowLost CleanupExact
