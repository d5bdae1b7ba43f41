SPECIFICATION Spec
CONSTANTS
    m1 = m1
    m2 = m2
    m3 = m3
    c1 = c1
    Messages = {m1, m2, m3}
    Customers = {c1}
    From <- OneCustomer
    NoRow = NoRow
    Day = 2
    MaxClock = 2
    RedisFaults = FALSE
SYMMETRY MessageSymmetry
CHECK_DEADLOCK FALSE
ACTION_CONSTRAINT PlainHandling
PROPERTY ReplyCancelsFollowUp
