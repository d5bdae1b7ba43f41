SPECIFICATION Spec
CONSTANTS
    k1 = k1
    k2 = k2
    k3 = k3
    w1 = w1
    w2 = w2
    w3 = w3
    w4 = w4
    anyone = anyone
    \* RateLimit
    Tenants = {m}
    NoTenant = none
    Calls = {k1, k2, k3}
    MaxOf <- SmallMax
    WindowTicks = 2
    TtlTicks = 3
    MaxNow = 3
    MaxFaults = 1
    MaxCrashes = 1
    \* Memory
    Saves = {k1, k2, k3}
    KeepLast = 1
    TopK = 1
    Window = 2
    MaxTime = 1
    MaxMemoryCrashes = 1
    \* Tracking
    Products = {1, 2}
    Words = {w1, w2, w3, w4}
    Empty = w4
    WordCap = 1
    Lower <- W2Capital
    Convs = {m}
    Trackings = {l, m}
    Readers = {n}
    NoView = none
    Limit = 1
    ViewCap = 1
    SimilarCap = 1
    TopCap = 2
    MaxMentions = 2
    MaxChanges = 1
    \* Broadcast
    Recipients = {k1, k2, k3}
    CustomerOf <- OneCustomer
    Runs = {1, 2}
    Texts = {"t", "u"}
    Nothing = none
    Filter = "new"
    BatchSize = 2
    MaxTotal = 3
    MaxMoves = 1
    MaxUnheard = 1
SYMMETRY Alike
CHECK_DEADLOCK FALSE
INVARIANT MessagesTypeOK
INVARIANT LimitSafe
INVARIANT MemorySafe
INVARIANT TrackingSafe
INVARIANT BroadcastSafe
PROPERTY ContextIsNewest
