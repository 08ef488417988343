SPECIFICATION CSpec
CONSTANTS
    u1 = u1
    u2 = u2
    k1 = k1
    k2 = k2
    m1 = m1
    Users = {u1, u2}
    Clients = {k1, k2}
    UserOf <- TwoBrowsers
    Messages = {m1}
    Composer <- OneMessage
    Direct = TRUE
INVARIANT RecalledStaysGone
CHECK_DEADLOCK FALSE
