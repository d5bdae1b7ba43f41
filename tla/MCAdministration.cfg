SPECIFICATION Spec
CONSTANTS
    x1 = x1
    x2 = x2
    y1 = y1
    y2 = y2
    k1 = k1
    k2 = k2
    n1 = n1
    n2 = n2
    \* Subscriptions
    Tenants = {x1, x2}
    Tabs = {n1, n2}
    Requests = {k1, k2}
    None = none
    Period = 1
    MaxDay = 2
    MaxChanges = 3
    \* ClientAccounts
    Emails = {x1, x2}
    Passwords = {y1, y2}
    UserCalls = {k1, k2, l}
    Nobody = none
    \* AccountCache
    Accounts = {x1, x2}
    Phones = {y1, y2}
    Lookups = {l}
    Calls = {n1, n2}
    NoNumber = none
    TTL = 2
    MaxFill = 0
    RedisFails = TRUE
    \* Baileys
    Sockets = {x1, x2, k1, k2}
    Sessions = {y1, y2}
    Disconnects = {l}
    Images = {l}
    NoSession = none
SYMMETRY Alike
\* Each call of a client's login is made once: that part stops when all have ended.
CHECK_DEADLOCK FALSE
INVARIANT AdministrationTypeOK
INVARIANT SubscriptionsSafe
INVARIANT LoginsSafe
INVARIANT RoutesSafe
INVARIANT SessionSafe
