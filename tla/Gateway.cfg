SPECIFICATION GSpec
CONSTANTS
    u1 = u1
    u2 = u2
    k1 = k1
    k2 = k2
    k3 = k3
    m1 = m1
    Users = {u1, u2}
    Clients = {k1, k2, k3}
    UserOf <- ThreeBrowsers
    Messages = {m1}
    Composer <- OneMessage
    Direct = FALSE
INVARIANT GTypeOK
INVARIANT RecallIsFinal
PROPERTY MessagesLive
CHECK_DEADLOCK FALSE
