\* One run of the client with two servers and one with one of them, on one host.
SPECIFICATION CSpec
CONSTANTS
    c1 = c1  c2 = c2  p1 = p1  p2 = p2  d1 = d1  d2 = d2  s1 = s1  s2 = s2
    Clients = {c1, c2}
    Ports = {p1, p2}
    Servers <- ServersFiles
    Digests = {d1, d2}
    Lines <- MCLines
    EmptyInput <- Nothing
    Window = 0
    OkMin = 1
    ErrorIds = {0}
    Threshold = 0
    WlThreshold = 0
    Copies = 2
    Waiting = 1
    Horizon = 2
SYMMETRY Symmetric
CHECK_DEADLOCK FALSE
INVARIANTS ExitZeroTells CountedInWindow LocalEditsKept
