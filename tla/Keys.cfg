SPECIFICATION Spec
CONSTANTS
    p1 = p1
    p2 = p2
    b1 = b1
    b2 = b2
    Users = {u1}
    NoUser = NoUser
    Browsers = {b1, b2}
    Pages = {p1, p2}
    NoPage = NoPage
    BrowserOf <- TwoBrowsers
    Passwords = {w1, w2}
    NoPassword = NoPassword
    Keys = {k1, k2}
    NoKey = NoKey
    Calls = {c1, c2}
SYMMETRY Symmetry
INVARIANT TypeOK
INVARIANT EveryCopyOpens
INVARIANT ReadyKeysAreStored
PROPERTY KeysInCustody
CHECK_DEADLOCK FALSE
