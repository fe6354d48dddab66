SPECIFICATION Spec
CONSTANTS
    r1 = r1
    r2 = r2
    c1 = c1
    c2 = c2
    k1 = k1
    k2 = k2
    v0 = v0
    v1 = v1
    Reactors = {r1, r2}
    Fds = {c1, c2}
    None = None
    Keys = {k2}
    Values = {v0}
    EmptyValue = v0
    Owner <- OwnerByHash
    Id <- MCId
    Hash <- MCHash
    shard_count = 2
    Ttls = {TRUE}
    Leftovers = {v0}
    MaxPipeline = 2
    PoolSize = 4
    AofOpen = FALSE
    SameBit <- Distinct
    SetupMayFail = FALSE
    PushMayFail = FALSE
    ItcReadMayFail = FALSE
    AcceptMayFail = FALSE
    SetReplies <- CodeSetReplies
    EmptyReplies <- CodeEmptyReplies
SYMMETRY Clients
INVARIANTS
    EngineOwnsKey
PROPERTIES
    LinearizableStore
