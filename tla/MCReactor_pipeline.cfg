SPECIFICATION Spec
CONSTANTS
    r1 = r1
    r2 = r2
    c1 = c1
    c2 = c2
    k1 = k1
    k2 = k2
    v0 = v0
    v1 = v1
    Reactors = {r1, r2}
    Fds = {c1}
    None = None
    Keys = {k2}
    Values = {v0}
    EmptyValue = v0
    Owner <- MCOwner
    Ttls = {FALSE}
    Leftovers = {v0}
    MaxPipeline = 2
    PoolSize = 5
    AofOpen = TRUE
    SameBit <- Aliased
    SetupMayFail = FALSE
    PushMayFail = TRUE
    ItcReadMayFail = FALSE
    AcceptMayFail = FALSE
INVARIANTS
    TypeOK
    NoStaleReply
    OneMessagePerPlaceholder
    PendingCountsPlaceholders
    ResponsesComplete
