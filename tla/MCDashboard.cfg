SPECIFICATION Spec
CONSTANTS
    k1 = k1
    k2 = k2
    x1 = x1
    x2 = x2
    n1 = n1
    n2 = n2
    n3 = n3
    \* LiveThread
    Convs = {n1, n2}
    Talking = {n1}
    Openings = {k1, k2}
    PanelCalls = {n3}
    None = none
    MaxExchanges = 1
    MaxWire = 1
    \* Catalog
    Items = {x1, x2}
    Fields = {"question", "answer"}
    Tabs = {n1, n2}
    Requests = {k1, k2}
    Askers = {n3}
    NoItem = none
    Scenes <- Situations
    \* Orders
    Products = {x1, x2}
    Pages = {n1}
    OrderTabs = {n3}
    OrderRequests = {k1, k2}
    OrderIds = {x1, x2}
    NoOrder = none
    MaxPut = 1
    MaxUpdates = 2
    Wanted = {"delivered", "lost"}
SYMMETRY Alike
CHECK_DEADLOCK FALSE
INVARIANT DashboardTypeOK
INVARIANT ThreadSafe
INVARIANT AnswersSafe
INVARIANT FormsSafe
INVARIANT CartSafe
INVARIANT LastNoticeMatches
